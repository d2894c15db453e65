------------------------------ MODULE Dispatch ------------------------------
(***************************************************************************)
(* One dispatch of a role that answers through a file: the controller's    *)
(* attempts (controller.py, _dispatch_with_repair and _dispatch_admitted), *)
(* the dispatcher that finds or starts the role's agent in a Herdr pane,   *)
(* types the prompt and collects the answer (dispatchers.py), and the      *)
(* registry of the panes a run owns (agentcontrol.py).  Herdr, the agent   *)
(* and the operator act between any two calls, also those of a close, with *)
(* two limits: nobody touches a pane between the dispatcher's last look at *)
(* it and its prompt (Undisturbed), and no id is given out again while an  *)
(* agent is started (IdReused).  All prompts share one answer file, as     *)
(* those of one iteration and attempt do.                                  *)
(***************************************************************************)
EXTENDS Naturals, Sequences

CONSTANTS
    Pane,               \* panes Herdr may open, each used once
    Ask,                \* prompts of the role for this iteration and attempt
    MaxTransientRetries, MaxSchemaRepairs, MaxDispatches,
    MaxDisturbances         \* bound on what fails, on crashes and on what the operator does

ASSUME DispatchAssumption ==
    /\ MaxTransientRetries \in Nat /\ MaxSchemaRepairs \in Nat /\ MaxDispatches \in Nat
    /\ "none" \notin Pane
    /\ Ask \cap {"none", "mend", "nudge", "typed", "restored"} = {}

VARIABLES
    pane,       \* what Herdr shows: where each pane is, its agent, its input box
    answer,     \* the answer file
    marker,     \* the dispatch marker beside it
    registered, \* owned-agents.jsonl: panes the run owns
    charged,    \* usage.dispatches
    mem,        \* what the process remembers of its panes
    ctl,        \* where the process is in the dispatch
    sent,       \* prompts typed into a pane
    closing,    \* how far it is with the pane it closes, and what became of it meanwhile
    disturbances

taskFiles == <<answer, marker>>
dispVars == <<pane, answer, marker, registered, charged, mem, ctl, sent, closing, disturbances>>

Mend == "mend"      \* the schema repair
Nudge == "nudge"    \* the follow-up
Typed == "typed"    \* an operator's own text
NoText == "none"
NoPane == "none"
NoAnswer == [to |-> NoText, fresh |-> FALSE, valid |-> FALSE]

EmptyMem ==
    [agent |-> NoPane, role |-> NoPane, own |-> {}, kept |-> {}, adopted |-> NoPane,
     mark |-> NoText, stall |-> NoText, new |-> FALSE, restless |-> FALSE]
NoWork == [pc |-> "off", text |-> NoText, tries |-> 0, followed |-> FALSE, mended |-> FALSE,
         replacing |-> FALSE, waiting |-> "no", had |-> FALSE, got |-> NoText]
NoClose == [at |-> "no", pane |-> NoPane, left |-> {}, touched |-> FALSE, moved |-> FALSE]

DispInit ==
    /\ pane = [p \in Pane |-> [at |-> "new", agent |-> "none", box |-> <<>>,
                               job |-> NoText, owes |-> FALSE]]
    /\ answer = NoAnswer /\ marker = [of |-> NoText, unsure |-> FALSE]
    /\ registered = {} /\ charged = 0 /\ mem = EmptyMem /\ ctl = NoWork
    /\ sent = 0 /\ closing = NoClose /\ disturbances = 0

On(pc) == ctl.pc = pc
To(pc) == ctl' = [ctl EXCEPT !.pc = pc]
Disturbance == disturbances < MaxDisturbances /\ disturbances' = disturbances + 1
Quiet == UNCHANGED disturbances
Target == mem.agent
Status(p) == IF p = NoPane \/ pane[p].at = "gone" THEN "none" ELSE pane[p].agent
Status0 == Status(Target)
Box == pane[Target].box
\* Whoever holds the role's one agent name: Herdr hands a name out once.
Holder == {p \in Pane : pane[p].at \in {"run", "elsewhere"} /\ pane[p].agent # "none"}
OwnPaneIds == mem.own \cup ({mem.adopted} \ {NoPane})
Answered == answer # NoAnswer

\* What the agent starts on when its box is submitted: a nudge is about the job it has, and
\* an operator's text asks for no answer file.
Started(p, text) ==
    [pane EXCEPT ![p].agent = "working", ![p].box = <<>>, ![p].owes = @ \/ text # Typed,
                 ![p].job = IF text \in {Nudge, Typed} THEN @ ELSE text]

\* keep_open: only the role's own pane, and only in this process.
KeepOpen(m) == [m EXCEPT !.kept = @ \cup ({m.role} \ {NoPane})]

-----------------------------------------------------------------------------
(* How a dispatch ends                                                     *)

\* Does an operator have to come before the process ends?  An unclean pane says so only when
\* it is raised out of the iteration (the planner's), not as QA's missing verdict.
Waits(err) == CASE ctl.waiting = "yes" \/ err = "approval" -> "yes"
                [] err = "unclean" -> "may"
                [] OTHER -> "no"

\* What _dispatch_admitted does with what the dispatcher raised.
Raised(err, m) ==
    /\ mem' = IF err \in {"approval", "unclean"} THEN KeepOpen(m) ELSE m
    /\ ctl' = CASE err = "missing" /\ ~ctl.followed ->
                       [ctl EXCEPT !.pc = "follow", !.followed = TRUE]
                [] err = "transient" /\ ctl.tries < MaxTransientRetries ->
                       [ctl EXCEPT !.pc = "charge", !.tries = @ + 1]
                [] OTHER -> [ctl EXCEPT !.pc = "idle", !.waiting = Waits(err)]
Refuse(err) == Raised(err, mem) /\ UNCHANGED <<pane, taskFiles, registered, charged, sent>>

\* History: an agent let go of in a dialog, at work, or with something still to come.
NotAtRest == Status0 \in {"working", "blocked"} \/ pane[Target].owes \/ Box # <<>>
LetGo(m) == [m EXCEPT !.mark = NoText, !.restless = NotAtRest]

\* The dispatcher returns what is in the answer file.
Take ==
    /\ mem' = [mem EXCEPT !.kept = @ \ {mem.role},
                          !.restless = NotAtRest]
    /\ ctl' = [ctl EXCEPT !.pc = "taken", !.got = answer.to]
    /\ UNCHANGED <<pane, taskFiles, registered, charged, sent>>

\* A blocked agent: an approval dialog, or the screen of a provider's limit.
Blocked == \E err \in {"approval", "refused"} : Refuse(err)

-----------------------------------------------------------------------------
(* The process                                                             *)

StartProcess == On("off") /\ mem' = EmptyMem /\ ctl' = [NoWork EXCEPT !.pc = "idle"]
                /\ Quiet /\ UNCHANGED <<pane, taskFiles, registered, charged, sent>>

BeginDispatch(t) ==
    /\ On("idle") /\ Quiet
    /\ ctl' = [NoWork EXCEPT !.pc = "charge", !.text = t,
                          !.waiting = IF ctl.waiting = "yes" THEN "yes" ELSE "no"]
    /\ UNCHANGED <<pane, taskFiles, registered, charged, mem, sent>>

\* Mutant: an answer to another prompt will do.
AnswerOfAnyPrompt == Answered /\ answer.fresh
\* Is there an answer to this prompt, given after it was asked?
ResumableAnswer == Answered /\ marker.of = ctl.text /\ answer.fresh

\* _budget_or_refusal: the charge is on file before anything is asked.
Charge ==
    /\ On("charge") /\ Quiet
    /\ \/ /\ charged < MaxDispatches /\ charged' = charged + 1
          /\ ctl' = [ctl EXCEPT !.pc = "ensure", !.replacing = FALSE, !.had = ResumableAnswer]
          /\ UNCHANGED <<pane, taskFiles, registered, mem, sent>>
       \/ charged >= MaxDispatches /\ Refuse("refused")

\* _dispatch_with_repair: one repair per output; then the role's session ends.
Validate ==
    /\ On("taken") /\ Quiet
    /\ ctl' = CASE answer.valid -> [ctl EXCEPT !.pc = "release"]
                [] ~answer.valid /\ ~ctl.mended /\ MaxSchemaRepairs > 0 ->
                       [NoWork EXCEPT !.pc = "charge", !.text = Mend, !.mended = TRUE,
                                    !.waiting = ctl.waiting]
                [] OTHER -> [ctl EXCEPT !.pc = "idle"]
    /\ UNCHANGED <<pane, taskFiles, registered, charged, mem, sent>>

\* What is left of a set of panes when they are gone, in the tables and the registry.
Gone(S) == [p \in Pane |-> IF p \in S THEN [pane[p] EXCEPT !.at = "gone", !.agent = "none",
                                                   !.box = <<>>] ELSE pane[p]]
ForgetPane(m, S) ==
    [m EXCEPT !.own = @ \ S, !.kept = @ \ S,
              !.adopted = IF @ \in S THEN NoPane ELSE @,
              !.role = IF @ \in S THEN NoPane ELSE @,
              !.agent = IF @ \in S \/ m.role \in S THEN NoPane ELSE @,
              !.mark = IF m.agent \in S THEN NoText ELSE @,
              !.stall = IF m.agent \in S THEN NoText ELSE @,
              !.restless = IF m.agent \in S THEN FALSE ELSE @]

\* The records that must agree: not kept, HoH's own, and in the registry.
MayClose(p) == p \notin mem.kept /\ p \in OwnPaneIds /\ p \in registered
\* Mutant: the record alone is trusted.
ByTheRecord(p) == MayClose(p) /\ pane[p].at # "gone"
\* What the snapshot must show too: the pane, in a directory of the run.
Identified(p) == MayClose(p) /\ pane[p].at = "run"

\* A close takes a look, a command and a second look; the world acts in between.  History:
\* touched, was the pane acted on since its status was read; moved, has its id gone to another
\* since it was identified?
BeginClose(p) == closing' = [NoClose EXCEPT !.at = "look", !.pane = p]
Acted(p) == p = closing.pane /\ closing.at \in {"look", "close"}
ActedOn(p) == [closing EXCEPT !.touched = @ \/ Acted(p)]
Moved(p) == [closing EXCEPT !.touched = @ \/ Acted(p), !.moved = @ \/ Acted(p)]

\* What follows for the turn that ended, the dead agent, the restored one, the run's end.
Return == closing' = IF On("idle") THEN [NoClose EXCEPT !.at = "end", !.left = closing.left]
                                   ELSE NoClose
PaneForgotten(p) ==
    /\ Return /\ registered' = registered \ {p} /\ mem' = ForgetPane(mem, {p})
    /\ ctl' = CASE On("release") -> [ctl EXCEPT !.pc = "idle"]
                [] On("restored") -> [ctl EXCEPT !.pc = "ensure", !.replacing = TRUE]
                [] OTHER -> ctl
StaysOpen(p) ==
    /\ Return /\ UNCHANGED registered
    /\ CASE On("restored") -> Raised("unclean", mem)
         [] On("ensure") -> /\ UNCHANGED ctl
                            /\ mem' = [mem EXCEPT !.own = @ \cup {p}, !.adopted = NoPane]
         [] On("release") -> To("idle") /\ UNCHANGED mem
         [] OTHER -> UNCHANGED <<ctl, mem>>

\* The first look; a restored agent must also still sit in that pane.
AgentAsAdopted(p) == On("restored") => Holder = {p}
LookAtPane(p) ==
    /\ closing.at = "look" /\ p = closing.pane /\ UNCHANGED <<pane, taskFiles, charged, sent>>
    /\ \/ /\ Identified(p) /\ AgentAsAdopted(p) /\ Quiet
          /\ closing' = [closing EXCEPT !.at = "close"] /\ UNCHANGED <<registered, mem, ctl>>
       \/ /\ MayClose(p) /\ pane[p].at = "gone" /\ ~On("restored") /\ Quiet /\ PaneForgotten(p)
       \/ /\ IF MayClose(p) /\ pane[p].at # "elsewhere" THEN Disturbance ELSE Quiet
          /\ StaysOpen(p)

\* The command goes to the pane's id, whatever it stands for by now; it may fail, which only
\* _replace_restored takes for an answer.
SendClose(p) ==
    /\ closing.at = "close" /\ p = closing.pane /\ UNCHANGED <<taskFiles, charged, sent>>
    /\ \/ /\ pane' = Gone({p}) /\ Quiet /\ UNCHANGED <<registered, mem, ctl>>
          /\ closing' = [NoClose EXCEPT !.at = "closed", !.pane = p, !.left = closing.left]
       \/ /\ IF pane[p].at = "gone" THEN Quiet ELSE Disturbance
          /\ On("restored") /\ UNCHANGED pane /\ StaysOpen(p)
       \/ /\ ~On("restored") /\ pane[p].at # "gone" /\ Disturbance
          /\ closing' = [NoClose EXCEPT !.at = "closed", !.pane = p, !.left = closing.left]
          /\ UNCHANGED <<pane, registered, mem, ctl>>

\* What Herdr answers is not the proof: a second snapshot is.
ConfirmClose(p) ==
    /\ closing.at = "closed" /\ p = closing.pane /\ UNCHANGED <<pane, taskFiles, charged, sent>>
    /\ \/ /\ pane[p].at = "gone" /\ (On("restored") => Holder = {}) /\ Quiet /\ PaneForgotten(p)
       \/ (IF pane[p].at = "gone" THEN Disturbance ELSE Quiet) /\ StaysOpen(p)

\* release_role: a role that works, or cannot be judged, keeps its pane.
ReleaseRole ==
    /\ On("release") /\ UNCHANGED <<pane, taskFiles, registered, charged, mem, sent>>
    /\ \/ /\ mem.role # NoPane /\ mem.role \notin mem.kept
          /\ Status(mem.role) \in {"none", "idle", "blocked"}
          /\ BeginClose(mem.role) /\ Quiet /\ UNCHANGED ctl
       \/ /\ IF mem.role # NoPane /\ mem.role \notin mem.kept
                /\ Status(mem.role) \in {"none", "idle", "blocked"}
             THEN Disturbance ELSE Quiet
          /\ To("idle") /\ UNCHANGED closing

\* close_own: every pane of this run, those of an earlier process included; the registry may be
\* unreadable.  Of what it knows only what the closes ask is kept.
RecallOwned == [EmptyMem EXCEPT !.own = OwnPaneIds \cup registered, !.kept = mem.kept]
RecallNone == [EmptyMem EXCEPT !.own = OwnPaneIds, !.kept = mem.kept]
EndProcess ==
    /\ On("idle") /\ UNCHANGED <<pane, taskFiles, registered, charged, sent>>
    /\ \/ ctl.waiting # "no" /\ ctl' = NoWork /\ mem' = EmptyMem /\ Quiet /\ UNCHANGED closing
       \/ /\ ctl.waiting # "yes" /\ ctl' = [NoWork EXCEPT !.pc = "idle"]
          /\ \/ mem' = RecallOwned /\ Quiet
             \/ mem' = RecallNone /\ Disturbance
          /\ closing' = [NoClose EXCEPT !.at = "end", !.left = mem'.own]
EndPane(p) ==
    /\ closing.at = "end" /\ p \in closing.left /\ Quiet
    /\ closing' = [NoClose EXCEPT !.at = "look", !.pane = p, !.left = closing.left \ {p}]
    /\ UNCHANGED <<pane, taskFiles, registered, charged, mem, ctl, sent>>
ProcessEnds ==
    /\ closing.at = "end" /\ closing.left = {} /\ Quiet
    /\ closing' = NoClose /\ ctl' = NoWork /\ mem' = EmptyMem
    /\ UNCHANGED <<pane, taskFiles, registered, charged, sent>>

Crash ==
    /\ ctl.pc \notin {"off", "idle"} \/ closing.at # "no"
    /\ Disturbance /\ ctl' = NoWork /\ mem' = EmptyMem /\ closing' = NoClose
    /\ UNCHANGED <<pane, taskFiles, registered, charged, sent>>

-----------------------------------------------------------------------------
(* Finding or starting the agent: _ensure_agent                            *)

AgentKnown == On("ensure") /\ mem.agent # NoPane /\ To("settle") /\ Quiet
              /\ UNCHANGED <<pane, taskFiles, registered, charged, mem, sent>>

\* A pane opened on an empty name, or on an unreadable snapshot.
OpenPane(p, recorded) ==
    /\ On("ensure") /\ mem.agent = NoPane /\ pane[p].at = "new"
    /\ pane' = [pane EXCEPT ![p].at = "run"]
    /\ IF recorded
       THEN /\ IF Holder = {} THEN Quiet ELSE Disturbance
            /\ registered' = registered \cup {p}
            /\ mem' = [mem EXCEPT !.own = @ \cup {p}, !.role = p]
            /\ To("start")
       ELSE /\ Holder = {} /\ Disturbance          \* dies before the registry has it
            /\ ctl' = NoWork /\ mem' = EmptyMem /\ UNCHANGED registered
    /\ UNCHANGED <<taskFiles, charged, sent>>

\* A restored agent of this run's own directory is adopted when it is idle.
Adopt(p) ==
    /\ On("ensure") /\ mem.agent = NoPane /\ Holder = {p} /\ Quiet
    /\ UNCHANGED <<taskFiles, charged, sent>>
    /\ \/ pane[p].at = "elsewhere" /\ Raised("refused", mem) /\ UNCHANGED <<pane, registered>>
       \/ /\ pane[p].at = "run" /\ Status(p) = "working"
          /\ Raised("refused", mem) /\ UNCHANGED <<pane, registered>>
       \/ /\ pane[p].at = "run" /\ Status(p) = "blocked"
          /\ \E err \in {"approval", "refused"} : Raised(err, mem)
          /\ UNCHANGED <<pane, registered>>
       \/ /\ pane[p].at = "run" /\ Status(p) = "idle"
          /\ registered' = registered \cup {p}
          /\ UNCHANGED pane
          /\ LET adopted == [mem EXCEPT !.agent = p, !.role = p, !.adopted = p,
                                        !.mark = "restored"] IN
             IF ctl.replacing THEN Raised("unclean", adopted)
                              ELSE mem' = adopted /\ To("settle")

\* _close_dead: the pane of a name that no longer has a process is registered, and adopted for
\* the length of its close.
CloseDead(p) ==
    /\ On("ensure") /\ mem.agent = NoPane /\ Holder = {p} /\ pane[p].at = "run"
    /\ Status(p) = "dead" /\ Quiet /\ BeginClose(p)
    /\ mem' = [mem EXCEPT !.adopted = p] /\ registered' = registered \cup {p}
    /\ UNCHANGED <<pane, taskFiles, charged, ctl, sent>>

\* _start_agent: a taken name, or a start that fails, is no agent.
StartAgent ==
    /\ On("start") /\ UNCHANGED <<taskFiles, registered, charged, sent>>
    /\ \/ /\ Holder = {} /\ pane[mem.role].at = "run" /\ Quiet
          /\ \E as \in {"idle", "blocked"} : pane' = [pane EXCEPT ![mem.role].agent = as]
          /\ mem' = [mem EXCEPT !.agent = mem.role, !.new = TRUE]
          /\ To(IF ctl.replacing THEN "ready" ELSE "settle")
       \/ /\ IF Holder = {} /\ pane[mem.role].at = "run" THEN Disturbance ELSE Quiet
          /\ Raised("refused", mem) /\ UNCHANGED pane

-----------------------------------------------------------------------------
(* Is the pane free for a prompt?                                          *)

MyStalledText == mem.mark = ctl.text /\ mem.stall = ctl.text /\ Box = <<ctl.text>>

\* _settle: the last prompt did not return; what became of it?
Settle ==
    /\ On("settle")
    /\ \/ /\ mem.mark \in {NoText, "restored"} /\ To("collect") /\ Quiet
          /\ UNCHANGED <<pane, taskFiles, registered, charged, mem, sent>>
       \/ /\ mem.mark \notin {NoText, "restored"} /\ Quiet
          /\ \/ Status0 = "blocked" /\ Blocked
             \/ /\ Status0 = "working" /\ mem.mark = ctl.text /\ To("await")
                /\ UNCHANGED <<pane, taskFiles, registered, charged, mem, sent>>
             \/ Status0 = "working" /\ mem.mark # ctl.text /\ Refuse("unclean")
             \/ Status0 \in {"none", "dead"} /\ Refuse("unclean")
             \/ /\ Status0 = "idle" /\ Box = <<>> /\ To("collect")
                /\ mem' = LetGo(mem)
                /\ UNCHANGED <<pane, taskFiles, registered, charged, sent>>
             \/ /\ Status0 = "idle" /\ Box # <<>> /\ MyStalledText /\ To("enter")
                /\ UNCHANGED <<pane, taskFiles, registered, charged, mem, sent>>
             \/ Status0 = "idle" /\ Box # <<>> /\ ~MyStalledText /\ Refuse("unclean")
       \/ mem.mark \notin {NoText, "restored"} /\ Disturbance /\ Refuse("unclean")

\* _submit_stalled: one Enter, on this dispatch's own text; the record of it is spent first.
SubmitStalled ==
    /\ On("enter") /\ UNCHANGED <<taskFiles, registered, charged, sent>>
    /\ LET spent == [mem EXCEPT !.stall = NoText] IN
       \/ /\ Status0 = "idle" /\ Target \in OwnPaneIds /\ Box = <<ctl.text>> /\ Quiet
          /\ pane' = Started(Target, ctl.text) /\ mem' = spent /\ To("confirm")
       \/ /\ Status0 = "blocked" /\ Quiet
          /\ (\E err \in {"approval", "refused"} : Raised(err, spent)) /\ UNCHANGED pane
       \/ /\ Status0 # "blocked"
          /\ IF Status0 = "idle" /\ Target \in OwnPaneIds /\ Box = <<ctl.text>>
             THEN Disturbance ELSE Quiet
          /\ Raised("unclean", spent) /\ UNCHANGED pane

TurnIsOver(m) == mem' = LetGo(m) /\ To("judge")

\* After Enter the turn is seen to start, or to be over already.
Confirm ==
    /\ On("confirm")
    /\ \/ Status0 = "working" /\ To("await") /\ Quiet /\ UNCHANGED mem
       \/ Status0 = "blocked" /\ TurnIsOver(mem) /\ Quiet
       \/ Status0 = "idle" /\ Box = <<>> /\ TurnIsOver(mem) /\ Quiet
       \/ /\ Status0 \in {"none", "dead"} \/ (Status0 = "idle" /\ Box # <<>>)
          /\ Raised("unclean", mem) /\ Quiet
    /\ UNCHANGED <<pane, taskFiles, registered, charged, sent>>

\* _await_turn: the turn of the stalled text is waited for, up to the role's timeout.
AwaitTurn ==
    /\ On("await")
    /\ \/ Status0 \in {"idle", "blocked"} /\ TurnIsOver(mem) /\ Quiet
       \/ Status0 \in {"none", "dead"} /\ Raised("unclean", mem) /\ Quiet
       \/ Status0 = "working" /\ Raised("refused", mem) /\ Disturbance
    /\ UNCHANGED <<pane, taskFiles, registered, charged, sent>>

\* An answer that was finished after an operator's dialog is collected, not asked for again.
Collect ==
    /\ On("collect") /\ Quiet
    /\ \/ ResumableAnswer /\ Take
       \/ /\ ~ResumableAnswer /\ To("restored")
          /\ UNCHANGED <<pane, taskFiles, registered, charged, mem, sent>>

\* _check_restored: a restored pane is used when its box is empty, and replaced otherwise.
CheckRestored ==
    /\ On("restored") /\ UNCHANGED <<taskFiles, charged, sent>>
    /\ \/ /\ mem.mark # "restored" /\ To("ready") /\ Quiet
          /\ UNCHANGED <<pane, registered, mem>>
       \/ /\ mem.mark = "restored" /\ Status0 = "idle" /\ Box = <<>> /\ Quiet
          /\ mem' = LetGo(mem) /\ To("ready")
          /\ UNCHANGED <<pane, registered>>
       \/ /\ mem.mark = "restored" /\ Status0 = "blocked" /\ Quiet
          /\ (\E err \in {"approval", "refused"} : Raised(err, mem))
          /\ UNCHANGED <<pane, registered>>
       \/ /\ mem.mark = "restored" /\ Status0 \in {"none", "dead", "working"} /\ Quiet
          /\ Raised("unclean", mem) /\ UNCHANGED <<pane, registered>>

\* _replace_restored: only the pane this process adopted, and never one that is kept.
ReplaceRestored ==
    /\ On("restored") /\ mem.mark = "restored" /\ Status0 = "idle" /\ Box # <<>> /\ Quiet
    /\ UNCHANGED <<pane, taskFiles, registered, charged, sent>>
    /\ IF Target = mem.adopted /\ MayClose(Target)
       THEN BeginClose(Target) /\ UNCHANGED <<mem, ctl>>
       ELSE Raised("unclean", mem) /\ UNCHANGED closing

\* _await_ready: a new agent must stand still at an empty box first.
AwaitReady ==
    /\ On("ready")
    /\ \/ ~mem.new /\ To("park") /\ Quiet /\ UNCHANGED mem
       \/ /\ mem.new /\ Status0 = "idle" /\ Box = <<>> /\ To("park") /\ Quiet
          /\ mem' = [mem EXCEPT !.new = FALSE]
       \/ /\ mem.new /\ Status0 = "blocked" /\ Quiet
          /\ \E err \in {"approval", "refused"} : Raised(err, mem)
       \/ mem.new /\ Status0 \in {"none", "dead"} /\ Raised("unclean", mem) /\ Quiet
    /\ UNCHANGED <<pane, taskFiles, registered, charged, sent>>

-----------------------------------------------------------------------------
(* Asking                                                                  *)

\* An answer of an earlier round is set aside.
ParkAnswer ==
    /\ On("park") /\ answer' = NoAnswer /\ To("mark") /\ Quiet
    /\ UNCHANGED <<pane, marker, registered, charged, mem, sent>>

\* _write_dispatch_marker: what was asked, and when.  History: of an agent let go of?
WriteMarker ==
    /\ On("mark") /\ marker' = [of |-> ctl.text, unsure |-> mem.restless]
    /\ answer' = [answer EXCEPT !.fresh = FALSE]
    /\ To("send") /\ Quiet
    /\ UNCHANGED <<pane, registered, charged, mem, sent>>

\* Mutant: only a stall marks the pane.
FailedUnmarked(err, stalled) ==
    Raised(err, IF stalled THEN [mem EXCEPT !.mark = ctl.text, !.stall = ctl.text] ELSE mem)
\* The mark comes first, whatever the failure; a stall is the one that leaves the text typed.
Failed(err, stalled) ==
    Raised(err, [mem EXCEPT !.mark = ctl.text,
                            !.stall = IF stalled THEN ctl.text ELSE NoText])

\* control.prompt.  The text starts a turn, is left in the box, is lost, or meets a dialog.
Send ==
    /\ On("send") /\ sent' = sent + 1 /\ UNCHANGED <<taskFiles, registered, charged>>
    /\ \/ /\ Status0 = "idle" /\ pane' = Started(Target, ctl.text) /\ To("turn")
          /\ Quiet /\ UNCHANGED mem
       \/ /\ Status0 = "idle" /\ pane' = [pane EXCEPT ![Target].box = Append(@, ctl.text)]
          /\ Failed("transient", TRUE) /\ Disturbance
       \/ /\ Status0 = "idle" /\ UNCHANGED pane
          /\ (\E err \in {"transient", "refused"} : Failed(err, FALSE)) /\ Disturbance
       \/ Status0 = "blocked" /\ UNCHANGED <<pane, mem>> /\ To("turn") /\ Quiet
       \/ /\ Status0 = "working" /\ pane' = [pane EXCEPT ![Target].box = Append(@, ctl.text)]
          /\ To("turn") /\ Quiet /\ UNCHANGED mem
       \/ Status0 \in {"none", "dead"} /\ UNCHANGED pane /\ Failed("refused", FALSE) /\ Quiet

\* The prompt returns when the agent no longer works; a wait that is too long does not.
Turn ==
    /\ On("turn")
    /\ \/ /\ Status0 \in {"idle", "blocked"} /\ Quiet
          /\ TurnIsOver([mem EXCEPT !.stall = NoText])
       \/ /\ Status0 = "working" /\ Disturbance
          /\ \E err \in {"transient", "refused"} : Failed(err, FALSE)
       \/ Status0 \in {"none", "dead"} /\ Failed("refused", FALSE) /\ Quiet
    /\ UNCHANGED <<pane, taskFiles, registered, charged, sent>>

\* A blocked pane whose role has answered is finished; one that has not waits for an operator.
JudgeAnswer ==
    /\ On("judge") /\ Quiet
    /\ \/ Status0 = "blocked" /\ ~Answered /\ Blocked
       \/ /\ Status0 # "blocked" \/ Answered
          /\ To("grace") /\ UNCHANGED <<pane, taskFiles, registered, charged, mem, sent>>

Grace ==
    /\ On("grace") /\ Quiet
    /\ \/ Answered /\ Take
       \/ ~Answered /\ Refuse("missing")

-----------------------------------------------------------------------------
(* Asking once more for an answer a turn ended without: _follow_up         *)

FollowUp ==
    /\ On("follow")
    /\ \/ Answered /\ Take /\ Quiet
       \/ ~Answered /\ Status0 = "blocked" /\ Blocked /\ Quiet
       \/ ~Answered /\ Status0 \in {"none", "dead"} /\ Refuse("refused") /\ Quiet
       \/ /\ ~Answered /\ Status0 \in {"idle", "working"} /\ Quiet
          /\ To(IF Status0 = "idle" THEN "chargeNudge" ELSE "resumed")
          /\ UNCHANGED <<pane, taskFiles, registered, charged, mem, sent>>
       \/ ~Answered /\ Refuse("refused") /\ Disturbance

\* An agent that resumed by itself is waited for, uncharged.
WaitResumed ==
    /\ On("resumed")
    /\ \/ Answered /\ Status0 # "working" /\ Take /\ Quiet
       \/ ~Answered /\ Status0 = "blocked" /\ Blocked /\ Quiet
       \/ ~Answered /\ Status0 \in {"none", "dead"} /\ Refuse("refused") /\ Quiet
       \/ /\ ~Answered /\ Status0 = "idle" /\ To("chargeNudge") /\ Quiet
          /\ UNCHANGED <<pane, taskFiles, registered, charged, mem, sent>>
       \/ Status0 = "working" /\ Disturbance /\ (IF Answered THEN Take ELSE Refuse("refused"))

\* Mutant: a follow-up is not a dispatch.
NudgeUncharged == On("chargeNudge") /\ Quiet /\ To("sendNudge")
                  /\ UNCHANGED <<pane, taskFiles, registered, charged, mem, sent>>
ChargeNudge ==
    /\ On("chargeNudge") /\ Quiet
    /\ \/ /\ charged < MaxDispatches /\ charged' = charged + 1 /\ To("sendNudge")
          /\ UNCHANGED <<pane, taskFiles, registered, mem, sent>>
       \/ charged >= MaxDispatches /\ Refuse("refused")

NudgeFailed == Raised("refused", [mem EXCEPT !.mark = Nudge])
SendNudge ==
    /\ On("sendNudge") /\ sent' = sent + 1 /\ UNCHANGED <<taskFiles, registered, charged>>
    /\ \/ /\ Status0 = "idle" /\ pane' = Started(Target, Nudge) /\ To("nudged")
          /\ Quiet /\ UNCHANGED mem
       \/ /\ Status0 = "idle" /\ NudgeFailed /\ Disturbance
          /\ pane' \in {pane, [pane EXCEPT ![Target].box = Append(@, Nudge)]}
       \/ Status0 \in {"none", "dead", "blocked", "working"} /\ NudgeFailed /\ Quiet
          /\ UNCHANGED pane

Nudged ==
    /\ On("nudged")
    /\ \/ /\ Status0 = "blocked" /\ ~Answered /\ Quiet
          /\ \E err \in {"approval", "refused"} : Raised(err, LetGo(mem))
          /\ UNCHANGED <<pane, taskFiles, registered, charged, sent>>
       \/ Answered /\ Status0 \in {"idle", "blocked"} /\ Take /\ Quiet
       \/ /\ ~Answered /\ Status0 = "idle" /\ Raised("missing", LetGo(mem)) /\ Quiet
          /\ UNCHANGED <<pane, taskFiles, registered, charged, sent>>
       \/ /\ Status0 = "working" /\ NudgeFailed /\ Disturbance
          /\ UNCHANGED <<pane, taskFiles, registered, charged, sent>>
       \/ /\ Status0 \in {"none", "dead"} /\ NudgeFailed /\ Quiet
          /\ UNCHANGED <<pane, taskFiles, registered, charged, sent>>

-----------------------------------------------------------------------------
(* The agent, Herdr and the operator (external)                            *)

LastLook ==
    \/ ctl.pc \in {"park", "mark", "send", "chargeNudge", "sendNudge"}
    \/ ctl.pc \in {"collect", "restored", "ready"} /\ mem.mark = NoText /\ ~mem.new
Undisturbed(p) == ~(p = Target /\ LastLook)
Elsewhere == UNCHANGED <<registered, charged, mem, ctl, sent>>

\* The role writes its answer once, in its turn or from work it left in the background.
AgentAnswers(p, valid) ==
    /\ pane[p].owes /\ Status(p) \in {"idle", "working"} /\ Quiet
    /\ answer' = [to |-> pane[p].job, fresh |-> TRUE, valid |-> valid]
    /\ pane' = [pane EXCEPT ![p].owes = FALSE] /\ UNCHANGED marker /\ Elsewhere

AgentStops(p) ==
    /\ Status(p) = "working" /\ Quiet
    /\ \E to \in {"idle", "blocked"} : pane' = [pane EXCEPT ![p].agent = to]
    /\ UNCHANGED taskFiles /\ Elsewhere

\* It goes on by itself, or an operator approves its dialog.
AgentGoesOn(p) ==
    /\ \/ Status(p) = "idle" /\ pane[p].owes /\ pane[p].box = <<>>
       \/ Status(p) = "blocked"
    /\ Undisturbed(p) /\ Disturbance
    /\ pane' = [pane EXCEPT ![p].agent = "working"] /\ UNCHANGED taskFiles /\ Elsewhere

\* A restart of Herdr leaves a pane and a name without a process.
AgentDies(p) ==
    /\ Status(p) \in {"idle", "working"} /\ Disturbance
    /\ pane' = [pane EXCEPT ![p].agent = "dead", ![p].owes = FALSE]
    /\ UNCHANGED taskFiles /\ Elsewhere

OperatorPressesEnter(p) ==
    /\ Status(p) = "idle" /\ pane[p].box # <<>> /\ Undisturbed(p) /\ Disturbance
    /\ pane' = Started(p, Head(pane[p].box)) /\ UNCHANGED taskFiles /\ Elsewhere

OperatorCloses(p) ==
    /\ pane[p].at = "run" /\ Disturbance
    /\ pane' = Gone({p}) /\ UNCHANGED taskFiles /\ Elsewhere

\* Somebody's session under the role's name, in the run's directory or another, half typed.
StrangerOpens(p) ==
    /\ Holder = {} /\ pane[p].at = "new" /\ Disturbance
    /\ \E at \in {"run", "elsewhere"}, box \in {<<>>, <<Typed>>} :
         pane' = [pane EXCEPT ![p].at = at, ![p].agent = "idle", ![p].box = box]
    /\ UNCHANGED taskFiles /\ Elsewhere

\* After a restart of Herdr the id of a closed pane may stand for somebody else's.  Not between
\* opening a pane and starting its agent.
IdReused(p) ==
    /\ pane[p].at = "gone" /\ ~On("start") /\ Disturbance
    /\ pane' = [pane EXCEPT ![p].at = "elsewhere", ![p].owes = FALSE]
    /\ UNCHANGED taskFiles /\ Elsewhere

-----------------------------------------------------------------------------
ControllerSteps ==
    \/ StartProcess \/ (\E t \in Ask : BeginDispatch(t)) \/ Charge \/ Validate
    \/ AgentKnown \/ StartAgent
    \/ (\E p \in Pane : Adopt(p) \/ \E r \in BOOLEAN : OpenPane(p, r))
    \/ Settle \/ SubmitStalled \/ Confirm \/ AwaitTurn \/ Collect \/ CheckRestored
    \/ AwaitReady \/ ParkAnswer \/ WriteMarker \/ Send \/ Turn
    \/ JudgeAnswer \/ Grace \/ FollowUp \/ WaitResumed \/ ChargeNudge \/ SendNudge \/ Nudged
BeginsClose == ReleaseRole \/ EndProcess \/ ReplaceRestored \/ \E p \in Pane : CloseDead(p)
CloseSteps ==
    \/ ProcessEnds
    \/ \E p \in Pane : EndPane(p) \/ LookAtPane(p) \/ SendClose(p) \/ ConfirmClose(p)
World ==
    \E p \in Pane :
        \/ /\ closing' = ActedOn(p)
           /\ \/ \E v \in BOOLEAN : AgentAnswers(p, v)
              \/ AgentStops(p) \/ AgentGoesOn(p) \/ AgentDies(p)
              \/ OperatorPressesEnter(p) \/ OperatorCloses(p) \/ StrangerOpens(p)
        \/ IdReused(p) /\ closing' = Moved(p)
DispNext ==
    \/ closing.at = "no" /\ (BeginsClose \/ (ControllerSteps /\ UNCHANGED closing))
    \/ CloseSteps \/ Crash \/ World
DispSpec == DispInit /\ [][DispNext]_dispVars

-----------------------------------------------------------------------------
(* Properties                                                              *)

\* The answer a dispatch returns was given to the prompt it asked, whatever was asked before
\* under the same file name, by this process or by one that died (dispatchers.py:2888-3084).
AnswersTheAsked == On("taken") /\ ~marker.unsure => ctl.got = ctl.text

\* Every prompt typed into a pane was charged before, and the charge is on file
\* (_budget_or_refusal, controller.py:2983): no retry, repair or follow-up goes uncharged.
SendsAreCharged == sent <= charged /\ charged <= MaxDispatches

\* A prompt never meets another in the input box or an agent at work: a stalled prompt is
\* submitted, awaited or refused, and never typed again (dispatchers.py:2330-2550).
\* The exception: an agent that was let go of in a dialog, at work or with something still to
\* come (NotAtRest), after a follow-up that brought nothing too, carries no mark, and the same
\* process asks it again without a look.
NothingIsJoined ==
    [][sent' # sent /\ ~mem.restless => Status0 # "working" /\ Box = <<>>]_dispVars

\* What was answered when the dispatch began is collected and not asked for again (O199).
AnsweredIsCollected == [][sent' # sent /\ On("send") => ~ctl.had]_dispVars

\* What was asked is settled before anything is asked beside it.
PromptsAreSettled == NothingIsJoined /\ AnsweredIsCollected

\* The pane a close command takes is registered to this run and not kept for an operator; it
\* lies in the run's directories and is as it was found when the close began -- its agent not at
\* work when a turn ended, dead, or idle over a pending text -- unless its id has gone to
\* another, or somebody acted on it, since it was looked at (_close_own_pane, release_role,
\* _close_dead, _replace_restored, close_own).
AsFound(p) ==
    /\ On("release") => pane[p].agent # "working"
    /\ On("ensure") => pane[p].agent = "dead"
    /\ On("restored") => pane[p].agent = "idle" /\ pane[p].box # <<>>
Takes(p) == closing.at = "close" /\ closing'.at = "closed"
                /\ pane[p].at # "gone" /\ pane'[p].at = "gone"
ClosesWhatItSaw ==
    [][\A p \in Pane : Takes(p) =>
          /\ p \in registered \ mem.kept
          /\ closing.moved \/ pane[p].at = "run"
          /\ closing.touched \/ AsFound(p)]_dispVars

\* A pane that stands in the run's directories is never struck from the registry: a close that
\* failed, or cannot be confirmed, is tried again by whoever ends the run.
ForgetsTheGone ==
    [][\A p \in registered \ registered' : pane'[p].at # "run"]_dispVars

\* What a run closes is its own, and what it opened it does not lose.
ClosesItsOwn == ClosesWhatItSaw /\ ForgetsTheGone

-----------------------------------------------------------------------------
(* Why it is so: an invariant that every step keeps                        *)

Prompts == Ask \cup {Mend}
Text == Prompts \cup {Nudge, Typed, NoText}
Prepare == {"ensure", "start", "settle", "collect", "restored", "ready", "park", "mark", "send"}
TurnEnded == {"judge", "grace", "follow", "resumed", "chargeNudge", "sendNudge"}
Stalled == {"enter", "confirm", "await"}
DispPcs == {"off", "idle", "charge", "turn", "nudged", "taken", "release"}
           \cup Prepare \cup TurnEnded \cup Stalled
PaneRecord == [at : {"new", "run", "elsewhere", "gone"}, owes : BOOLEAN, box : Seq(Text),
               agent : {"none", "idle", "working", "blocked", "dead"}, job : Text]
MemRecord == [agent : Pane \cup {NoPane}, role : Pane \cup {NoPane}, own : SUBSET Pane,
              kept : SUBSET Pane, adopted : Pane \cup {NoPane}, mark : Text \cup {"restored"},
              stall : Text, new : BOOLEAN, restless : BOOLEAN]
CtlRecord == [pc : DispPcs, text : Prompts \cup {NoText}, tries : Nat, followed : BOOLEAN,
              mended : BOOLEAN, replacing : BOOLEAN, waiting : {"no", "may", "yes"},
              had : BOOLEAN, got : Text]
DispTypeOK ==
    /\ pane \in [Pane -> PaneRecord] /\ mem \in MemRecord /\ ctl \in CtlRecord
    /\ answer \in [to : Text, fresh : BOOLEAN, valid : BOOLEAN]
    /\ marker \in [of : Prompts \cup {NoText}, unsure : BOOLEAN]
    /\ registered \subseteq Pane /\ charged \in Nat /\ sent \in Nat

\* A prompt to come is charged.
ChargedFirst ==
    /\ sent <= charged /\ charged <= MaxDispatches
    /\ ctl.pc \in Prepare \cup {"sendNudge"} => sent < charged

\* One agent bears the role's name; a pane without one has nothing to come.
Stranger(p) == pane[p].agent # "none" =>
                   /\ ~pane[p].owes /\ pane[p].box \in {<<>>, <<Typed>>}
                   /\ pane[p].box # <<>> => pane[p].agent \in {"idle", "dead"}
PanesInv ==
    /\ \A p \in Pane : /\ pane[p].at \in {"new", "gone"} => pane[p].agent = "none"
                       /\ pane[p].at # "gone" /\ pane[p].agent = "none" =>
                             ~pane[p].owes /\ pane[p].box = <<>>
                       /\ pane[p].at = "gone" => pane[p].box = <<>>
    /\ \A p, q \in Holder : p = q
    /\ mem.agent # NoPane => \A p \in Pane \ {mem.agent} : Stranger(p)

\* What the process remembers of its panes.
Opened(p) == p # NoPane => \/ pane[p].at \in {"run", "gone"}
                           \/ pane[p].at = "elsewhere" /\ pane[p].agent = "none"
MemInv ==
    /\ Opened(mem.agent) /\ Opened(mem.role) /\ Opened(mem.adopted)
    /\ mem.agent # NoPane => mem.role = mem.agent
    /\ mem.agent = NoPane => mem.mark = NoText
    /\ mem.mark \in Prompts => marker.of = mem.mark
    /\ mem.mark \notin {NoText, "restored"} => ~mem.new

\* What it remembers at each place of the dispatch.
WhereInv ==
    /\ ctl.pc \notin {"off", "idle"} => ctl.text \in Prompts
    /\ ctl.pc = "start" => mem.agent = NoPane /\ mem.role # NoPane
    /\ ctl.pc \in (Prepare \ {"ensure", "start"}) \cup Stalled \cup TurnEnded
                   \cup {"turn", "nudged"} =>
          mem.agent # NoPane
    /\ ctl.pc \in Stalled => mem.mark = ctl.text
    /\ ctl.pc \in {"collect", "restored"} => mem.mark \in {NoText, "restored"}
    /\ ctl.pc \in {"ready", "park", "mark", "send", "turn", "nudged"} \cup TurnEnded =>
           mem.mark = NoText
    /\ ctl.pc \in {"park", "mark", "send", "turn", "nudged"} \cup TurnEnded => ~mem.new
    /\ ctl.pc \in {"send", "turn", "nudged"} \cup TurnEnded => marker.of = ctl.text
    /\ ctl.pc = "send" => marker.unsure = mem.restless
    /\ ctl.pc = "mark" /\ ~mem.restless => ~Answered

\* An agent without a mark, and not let go of at work, stands still at an empty box; a new one
\* has nothing to come.
AtRest(p) == Status(p) \notin {"working", "blocked"} /\ ~pane[p].owes /\ pane[p].box = <<>>
RestInv ==
    mem.agent # NoPane /\ mem.mark = NoText /\ ~mem.restless
        /\ ctl.pc \notin {"turn", "nudged"} =>
        IF mem.new THEN ~pane[mem.agent].owes /\ pane[mem.agent].box = <<>> ELSE AtRest(mem.agent)

\* Whatever may still be answered, or be submitted by an Enter, is what the marker names.
SurePane(p) ==
    pane[p].agent # "none" =>
        /\ pane[p].owes => pane[p].job = marker.of
        /\ pane[p].box \in {<<>>, <<marker.of>>, <<Nudge>>, <<Typed>>}
        /\ pane[p].box # <<>> => pane[p].agent \in {"idle", "dead"}
        /\ pane[p].box = <<Nudge>> => pane[p].job = marker.of
SureTarget ==
    mem.agent # NoPane /\ pane[mem.agent].agent # "none" =>
        /\ ctl.pc \in {"turn", "nudged", "confirm", "await"} \cup TurnEnded =>
              pane[mem.agent].job = marker.of /\ pane[mem.agent].box = <<>>
        /\ mem.mark \in Prompts =>
              /\ pane[mem.agent].box \in {<<>>, <<marker.of>>}
              /\ pane[mem.agent].agent \in {"working", "blocked"} =>
                     pane[mem.agent].job = marker.of
SureInv ==
    ~marker.unsure =>
        /\ Answered => answer.fresh /\ answer.to = marker.of
        /\ \A p \in Pane : SurePane(p)
        /\ SureTarget
        /\ ctl.pc = "taken" => ctl.got = ctl.text

\* What was answered when the dispatch began is there until it is collected.
HadInv ==
    ctl.had => /\ ~ctl.replacing /\ ctl.pc \notin {"restored", "ready", "park", "mark", "send"}
               /\ ctl.pc \in {"ensure", "start", "settle", "collect"} => ResumableAnswer
\* What the process knows of the pane it closes, and the world has not changed.
ClosingRecord == [at : {"no", "look", "close", "closed", "end"}, pane : Pane \cup {NoPane},
                  left : SUBSET Pane, touched : BOOLEAN, moved : BOOLEAN]
ClosingInv ==
    /\ closing \in ClosingRecord
    /\ closing.at \in {"look", "close", "closed"} =>
          /\ closing.pane \in Pane /\ ctl.pc \in {"release", "ensure", "restored", "idle"}
          /\ On("release") => closing.pane = mem.role
          /\ On("restored") => closing.pane = mem.agent /\ mem.mark = "restored"
    /\ closing.at # "no" /\ ctl.pc \in {"ensure", "idle"} => mem.agent = NoPane
    /\ closing.at = "end" => On("idle")
    /\ closing.at \in {"look", "close"} /\ ~closing.touched =>
          pane[closing.pane].at = "gone" \/ AsFound(closing.pane)
    /\ closing.at = "close" =>
          /\ closing.pane \in registered \ mem.kept
          /\ closing.moved \/ pane[closing.pane].at \in {"run", "gone"}
DispInv ==
    /\ DispTypeOK /\ ChargedFirst /\ PanesInv /\ MemInv
    /\ WhereInv /\ RestInv /\ SureInv /\ HadInv
=============================================================================
