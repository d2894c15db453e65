----------------------------- MODULE ProjectLoop -----------------------------
(***************************************************************************)
(* The project's control loop (orchestrator.py, ProjectController) over    *)
(* the durable project state (projectstore.py, project.py), the runs it    *)
(* launches and merges (launcher.py), the timers of its waits (timers.py)  *)
(* and the passes that resume them (resumeloop.py).  Sessions drive the    *)
(* project one after another; one that froze or died leaves its place to   *)
(* the next.  The lease of the master is taken under the program lock (the *)
(* module Leadership has its protocol).                                    *)
(***************************************************************************)
EXTENDS Naturals, FiniteSets

CONSTANTS Ctl, Task, Repair, Deps,
          MaxRejections,
          MaxReign, MaxCand, MaxMishaps, MaxWrites      \* bounds

ASSUME ProjectLoopAssumption ==
    /\ Task \cap Repair = {} /\ Deps \in [Task -> SUBSET Task]
    /\ {MaxRejections, MaxReign, MaxCand, MaxMishaps, MaxWrites} \subseteq Nat

VARIABLES
    project,    \* project.json
    timers,     \* timers.json: the armed timers
    reign,      \* the master: its number, who it is, whether the lease holds
    ctl,        \* every session's drive
    run,        \* the runs of the nodes
    mainline,   \* the candidates on the mainline
    accepted,   \* history: the candidates that were ever accepted
    overtaken,  \* history: a session was replaced while it withdrew timers
    mishaps

projVars == <<project, timers, reign, ctl, run, mainline, accepted, overtaken, mishaps>>

Node == Task \cup Repair
Settled == {"MERGED", "ABANDONED"}
NewNode == [life |-> "READY", kind |-> "none", due |-> 0, rej |-> 0, before |-> 0,
            open |-> FALSE]
Absent == [NewNode EXCEPT !.life = "absent"]
ProjectOf(tasks) ==
    [node |-> [n \in Node |-> IF n \in tasks THEN NewNode ELSE Absent],
     seq |-> 0, gates |-> "none", subject |-> {}]
NewRun == [made |-> FALSE, live |-> FALSE, cand |-> 0, moved |-> FALSE, end |-> "new",
           veiled |-> FALSE]
Off == [at |-> "off", reign |-> 0, mem |-> ProjectOf({}), node |-> "none", verdict |-> "none",
        then |-> "none", subject |-> {}]

ProjInitWith(tasks, spent) ==
    /\ project = ProjectOf(tasks) /\ timers = {} /\ mainline = {} /\ accepted = {}
    /\ reign = [number |-> 0, who |-> "none", lease |-> "released"]
    /\ ctl = [s \in Ctl |-> Off] /\ run = [n \in Node |-> NewRun]
    /\ overtaken = FALSE /\ mishaps = spent

ProjInit == ProjInitWith(Task, 0)

Mishap == mishaps < MaxMishaps /\ mishaps' = mishaps + 1
CtlAt(s, at) == ctl[s].at = at

-----------------------------------------------------------------------------
(* project.py: what a state says                                           *)

Terminal(m) == \A n \in Node : m.node[n].life \in Settled \cup {"absent"}
Ready(m) ==
    {n \in Node : /\ m.node[n].life = "READY"
                  /\ n \in Task => \A d \in Deps[n] : m.node[d].life \in Settled}
RcClosed(m) == Terminal(m) /\ m.gates = "GREEN"

-----------------------------------------------------------------------------
(* launcher.py: the verdict on a run                                       *)

\* evaluate, _verdict: in the order in which the code asks.
VerdictOn(n, before) ==
    LET r == run[n] IN
    IF ~r.made THEN "UNDETERMINED"
    ELSE IF r.live THEN "IN_FLIGHT"
    ELSE IF r.veiled THEN "UNDETERMINED"
    ELSE IF r.cand = before /\ r.end \in {"STORAGE_WAIT", "STORAGE_UNAVAILABLE"} THEN r.end
    ELSE IF r.cand = 0 /\ r.end \in {"NEEDS_APPROVAL", "PROVIDER_UNAVAILABLE"} THEN r.end
    ELSE IF r.end = "failed" THEN "UNDETERMINED"
    ELSE IF r.cand # 0 THEN IF r.cand = before THEN "REJECTED" ELSE "ACCEPTED"
    ELSE IF r.end = "new" THEN "NOT_STARTED"
    ELSE IF r.end = "spent" THEN "BUDGET_EXHAUSTED" ELSE "REJECTED"

RunReturns ==
    {"worked", "STORAGE_WAIT", "STORAGE_UNAVAILABLE", "NEEDS_APPROVAL",
     "PROVIDER_UNAVAILABLE", "failed", "spent"}

\* The run's process, which outlives its launcher: it may accept a candidate, and may
\* leave its branch past it.
RunStops(n) ==
    /\ run[n].live
    /\ \E end \in RunReturns, accepts \in BOOLEAN, moves \in BOOLEAN :
          /\ accepts => run[n].cand < MaxCand
          /\ moves => Mishap
          /\ ~moves => mishaps' = mishaps
          /\ run' = [run EXCEPT ![n].live = FALSE, ![n].end = end, ![n].veiled = FALSE,
                                ![n].cand = IF accepts THEN @ + 1 ELSE @,
                                ![n].moved = (@ /\ ~accepts) \/ moves]
          /\ accepted' = IF accepts THEN accepted \cup {<<n, run[n].cand + 1>>} ELSE accepted
    /\ UNCHANGED <<project, timers, reign, ctl, mainline, overtaken>>

\* An open seal, or a run lease that cannot be read, hides what the run did.
RunVeiled(n) ==
    /\ run[n].made /\ ~run[n].live /\ ~run[n].veiled /\ Mishap
    /\ run' = [run EXCEPT ![n].veiled = TRUE]
    /\ UNCHANGED <<project, timers, reign, ctl, mainline, accepted, overtaken>>

-----------------------------------------------------------------------------
(* The master                                                              *)

IsMaster(s) == reign.who = s /\ reign.number = ctl[s].reign /\ reign.lease = "held"
HolderLives == \E s \in Ctl : s = reign.who /\ ctl[s].at # "off" /\ ctl[s].reign = reign.number
Vacant == reign.lease # "held" \/ ~HolderLives
Disarming == \E s \in Ctl : CtlAt(s, "disarming")

Reigns(who, lease) ==
    /\ reign.number < MaxReign
    /\ reign' = [number |-> reign.number + 1, who |-> who, lease |-> lease]
    /\ overtaken' = (overtaken \/ Disarming)

\* run: the session becomes master; the drive begins.
Drive(s) ==
    /\ CtlAt(s, "off") /\ Vacant /\ Reigns(s, "held")
    /\ ctl' = [ctl EXCEPT ![s] = [Off EXCEPT !.at = "start", !.reign = reign.number + 1]]
    /\ UNCHANGED <<project, timers, run, mainline, accepted, mishaps>>

\* The drive ends with a halt, and drive_governed gives the lease back.
HaltOf(s) ==
    /\ ctl' = [ctl EXCEPT ![s] = Off]
    /\ reign' = IF IsMaster(s) THEN [reign EXCEPT !.lease = "released"] ELSE reign
\* A change of the state in memory; it is persisted next, and then the drive goes on.
Change(s, m, then) == ctl' = [ctl EXCEPT ![s].mem = m, ![s].at = "persist", ![s].then = then]
WithNode(m, n, r) == [m EXCEPT !.node[n] = r]

-----------------------------------------------------------------------------
(* _persist                                                                *)

\* Nobody is asked and nothing compared.
MayWriteBlindly(s) == TRUE
\* stamp: the master; write_state: not behind the disk.
MayWrite(s) == IsMaster(s) /\ ctl[s].mem.seq >= project.seq

\* The write under the program lock, or a halt: superseded, or ambiguous.
Persist(s) ==
    /\ CtlAt(s, "persist") /\ project.seq < MaxWrites
    /\ IF MayWrite(s)
       THEN /\ project' = [ctl[s].mem EXCEPT !.seq = @ + 1]
            /\ ctl' = [ctl EXCEPT ![s].mem = project', ![s].at = "disarming"]
            /\ UNCHANGED reign
       ELSE HaltOf(s) /\ UNCHANGED project
    /\ UNCHANGED <<timers, run, mainline, accepted, overtaken, mishaps>>

\* disarm_stale_waits: provider timers of nodes that do not wait on one.
StaleWaits(m) ==
    {t \in timers : LET r == m.node[t.node] IN
        /\ t.kind = "usage_limit" /\ r.life # "RUNNING"
        /\ ~(r.life = "BLOCKED" /\ r.kind = t.kind /\ r.due = t.due)}
DisarmStale(s) ==
    /\ CtlAt(s, "disarming") /\ timers' = timers \ StaleWaits(ctl[s].mem)
    /\ IF ctl[s].then = "halt" THEN HaltOf(s)
       ELSE ctl' = [ctl EXCEPT ![s].at = ctl[s].then, ![s].then = "none"] /\ UNCHANGED reign
    /\ UNCHANGED <<project, run, mainline, accepted, overtaken, mishaps>>

-----------------------------------------------------------------------------
(* _settle                                                                 *)

DueTimes == 1..2
Timer(n, kind, due) == [node |-> n, kind |-> kind, due |-> due]
Parked == {"PROVIDER_UNAVAILABLE", "STORAGE_WAIT"}
KindOf == [v \in Parked |-> IF v = "STORAGE_WAIT" THEN "storage_pressure" ELSE "usage_limit"]
BlockedFor(r, kind, due) ==
    [r EXCEPT !.life = "BLOCKED", !.kind = kind, !.due = due, !.open = FALSE]
Rejected(r) ==
    [r EXCEPT !.rej = @ + 1, !.open = FALSE,
              !.life = IF r.rej + 1 > MaxRejections THEN "ABANDONED" ELSE "READY"]

\* A verdict that ends the drive, one that parks the node, and one that goes on.
SettleAs(s, m, n, verdict, then) ==
    LET r == m.node[n] IN
    \/ verdict = "IN_FLIGHT" /\ HaltOf(s)
    \/ /\ verdict \in Parked \cup {"ACCEPTED"} /\ UNCHANGED reign
       /\ ctl' = [ctl EXCEPT ![s].mem = WithNode(m, n, [r EXCEPT !.open = FALSE]),
                             ![s].at = IF verdict = "ACCEPTED" THEN "merging" ELSE "arming",
                             ![s].node = n, ![s].verdict = verdict, ![s].then = then]
    \/ /\ verdict = "NOT_STARTED" /\ UNCHANGED reign
       /\ Change(s, WithNode(m, n, [r EXCEPT !.life = "READY", !.open = FALSE]), then)
    \/ /\ verdict = "REJECTED" /\ UNCHANGED reign
       /\ Change(s, WithNode(m, n, Rejected(r)), then)
    \/ /\ verdict \notin Parked \cup {"IN_FLIGHT", "ACCEPTED", "NOT_STARTED", "REJECTED"}
       /\ Change(s, WithNode(m, n, BlockedFor(r, "none", 0)), "halt") /\ UNCHANGED reign

\* The state says that the node waits before the timer is there.
ArmAfterwards(s) ==
    /\ CtlAt(s, "arming")
    /\ LET r == ctl[s].mem.node[ctl[s].node] IN
       \E due \in DueTimes : Change(s, WithNode(ctl[s].mem, ctl[s].node,
                                   BlockedFor(r, KindOf[ctl[s].verdict], due)), "halt")
    /\ UNCHANGED <<project, timers, reign, run, mainline, accepted, overtaken, mishaps>>
\* The timer is armed under the program lock, by the master, before the node waits on it;
\* a recheck takes the place of the node's earlier ones.  Without a time the node is
\* blocked for a person.
Arm(s) ==
    /\ CtlAt(s, "arming")
    /\ LET n == ctl[s].node
           kind == KindOf[ctl[s].verdict]
           r == ctl[s].mem.node[n]
           replaced == {t \in timers : t.node = n /\ t.kind = kind /\ kind = "storage_pressure"}
       IN \/ /\ IsMaster(s)
             /\ \E due \in DueTimes :
                   /\ timers' = (timers \ replaced) \cup {Timer(n, kind, due)}
                   /\ Change(s, WithNode(ctl[s].mem, n, BlockedFor(r, kind, due)), "halt")
             /\ UNCHANGED reign
          \/ /\ ~IsMaster(s) /\ HaltOf(s) /\ UNCHANGED timers
          \/ /\ kind = "usage_limit"
             /\ Change(s, WithNode(ctl[s].mem, n, BlockedFor(r, "none", 0)), "halt")
             /\ UNCHANGED <<timers, reign>>
    /\ UNCHANGED <<project, run, mainline, accepted, overtaken, mishaps>>

\* Whatever the branch holds is merged.
FitUnchecked(n) == TRUE
\* accepted_identity_problem: the branch is where it was when it was accepted.
Fit(n) == ~run[n].moved

\* merge, under the program lock and by the master: what is on the mainline already has
\* landed; a branch that moved on, and a conflict, block the node.
Merge(s) ==
    /\ CtlAt(s, "merging")
    /\ LET n == ctl[s].node
           r == ctl[s].mem.node[n]
           merges == mainline \cup {<<n, IF run[n].moved THEN 0 ELSE run[n].cand>>}
       IN \/ /\ ~IsMaster(s) /\ HaltOf(s) /\ UNCHANGED <<mainline, mishaps>>
          \/ /\ IsMaster(s) /\ Fit(n) /\ mainline' = merges
             /\ Change(s, WithNode(ctl[s].mem, n, [r EXCEPT !.life = "MERGED"]), ctl[s].then)
             /\ UNCHANGED <<reign, mishaps>>
          \/ /\ IsMaster(s)
             /\ IF Fit(n) THEN Mishap ELSE mishaps' = mishaps
             /\ Change(s, WithNode(ctl[s].mem, n, BlockedFor(r, "none", 0)), "halt")
             /\ UNCHANGED <<mainline, reign>>
    /\ UNCHANGED <<project, timers, run, accepted, overtaken>>

-----------------------------------------------------------------------------
(* _drive                                                                  *)

NoneRuns(m) == \A n \in Node : m.node[n].life # "RUNNING"
Disagrees(m) == \E n \in Node : m.node[n].open # (m.node[n].life = "RUNNING")

\* The state is read; a log that disagrees with it halts.
Read(s) ==
    /\ CtlAt(s, "start")
    /\ IF Disagrees(project) THEN HaltOf(s)
       ELSE ctl' = [ctl EXCEPT ![s].mem = project, ![s].at = "round"] /\ UNCHANGED reign
    /\ UNCHANGED <<project, timers, run, mainline, accepted, overtaken, mishaps>>

\* Evaluation without the closing of a dispatch that never started.
EvaluateForgets(s, n) ==
    /\ CtlAt(s, "round") /\ ctl[s].mem.node[n].life = "RUNNING"
    /\ LET m == ctl[s].mem
           verdict == VerdictOn(n, m.node[n].before)
       IN IF verdict = "UNDETERMINED" THEN HaltOf(s)
          ELSE IF verdict = "NOT_STARTED"
          THEN Change(s, [m EXCEPT !.node[n].life = "READY"], "round") /\ UNCHANGED reign
          ELSE SettleAs(s, m, n, verdict, "round")
    /\ UNCHANGED <<project, timers, run, mainline, accepted, overtaken, mishaps>>
\* The runs a dead session left: evaluated, never launched again before.
Evaluate(s, n) ==
    /\ CtlAt(s, "round") /\ ctl[s].mem.node[n].life = "RUNNING"
    /\ LET m == ctl[s].mem
           verdict == VerdictOn(n, m.node[n].before)
       IN IF verdict = "UNDETERMINED" THEN HaltOf(s) ELSE SettleAs(s, m, n, verdict, "round")
    /\ UNCHANGED <<project, timers, run, mainline, accepted, overtaken, mishaps>>
\* A round: prepare, ask whether the run has accepted something already, and put the
\* node, its open dispatch and its baseline on file before it is launched.
Round(s, n) ==
    /\ CtlAt(s, "round") /\ NoneRuns(ctl[s].mem) /\ n \in Ready(ctl[s].mem)
    /\ LET m == ctl[s].mem
           r == m.node[n]
           verdict == VerdictOn(n, r.before)
       IN IF run[n].made /\ verdict \in {"IN_FLIGHT", "ACCEPTED"}
          THEN SettleAs(s, m, n, verdict, "round") /\ UNCHANGED run
          ELSE /\ run' = [run EXCEPT ![n].made = TRUE]
               /\ ctl' = [ctl EXCEPT ![s].node = n, ![s].at = "persist", ![s].then = "launch",
                     ![s].mem = WithNode(m, n, [r EXCEPT !.life = "RUNNING", !.open = TRUE,
                                                         !.before = run[n].cand])]
               /\ UNCHANGED reign
    /\ UNCHANGED <<project, timers, mainline, accepted, overtaken, mishaps>>
\* prepare finds an obstacle: no worktree, no approval, no budget.
Obstructed(s, n) ==
    /\ CtlAt(s, "round") /\ NoneRuns(ctl[s].mem) /\ n \in Ready(ctl[s].mem) /\ Mishap
    /\ Change(s, WithNode(ctl[s].mem, n, BlockedFor(ctl[s].mem.node[n], "none", 0)), "halt")
    /\ UNCHANGED <<project, timers, reign, run, mainline, accepted, overtaken>>

\* _authorise, then launch: the check and the start of the run are two steps.
Authorise(s) ==
    /\ CtlAt(s, "launch")
    /\ IF IsMaster(s) THEN ctl' = [ctl EXCEPT ![s].at = "starting"] /\ UNCHANGED reign
       ELSE HaltOf(s)
    /\ UNCHANGED <<project, timers, run, mainline, accepted, overtaken, mishaps>>
\* hoh run: the run's own lock lets one process execute it.
Launch(s) ==
    /\ CtlAt(s, "starting")
    /\ LET n == ctl[s].node IN
       IF run[n].live THEN HaltOf(s) /\ UNCHANGED run
       ELSE /\ run' = [run EXCEPT ![n].live = TRUE]
            /\ ctl' = [ctl EXCEPT ![s].at = "waiting"] /\ UNCHANGED reign
    /\ UNCHANGED <<project, timers, mainline, accepted, overtaken, mishaps>>
\* hoh run refuses: its lease, preflight, routing, budget or storage.
Refused(s, verdict) ==
    /\ CtlAt(s, "starting") /\ Mishap
    /\ SettleAs(s, ctl[s].mem, ctl[s].node, verdict, "round")
    /\ UNCHANGED <<project, timers, run, mainline, accepted, overtaken>>
\* The run ended: its verdict against the baseline is settled.
Return(s) ==
    /\ CtlAt(s, "waiting") /\ ~run[ctl[s].node].live
    /\ LET n == ctl[s].node IN
       SettleAs(s, ctl[s].mem, n, VerdictOn(n, ctl[s].mem.node[n].before), "round")
    /\ UNCHANGED <<project, timers, run, mainline, accepted, overtaken, mishaps>>

-----------------------------------------------------------------------------
(* _closure                                                                *)

\* Closure is attempted as soon as nothing is ready.
TerminalEnough(m) == Ready(m) = {}
ClosureDue(m) == Terminal(m)

\* Nothing is ready: the gates are run on the mainline as it stands, or the drive halts.
MeasureClosure(s) ==
    /\ CtlAt(s, "round") /\ NoneRuns(ctl[s].mem) /\ Ready(ctl[s].mem) = {}
    /\ IF ClosureDue(ctl[s].mem)
       THEN /\ ctl' = [ctl EXCEPT ![s].at = "measuring", ![s].subject = mainline]
            /\ UNCHANGED reign
       ELSE HaltOf(s)
    /\ UNCHANGED <<project, timers, run, mainline, accepted, overtaken, mishaps>>

\* What the gates said of that subject; a red one makes a repair node.
GatesAnswer(s, outcome) ==
    /\ CtlAt(s, "measuring")
    /\ LET m == [ctl[s].mem EXCEPT !.gates = outcome, !.subject = ctl[s].subject]
           fixes == {n \in Repair : m.node[n].life = "absent"}
       IN \/ outcome = "NOT_RUN" /\ Change(s, ctl[s].mem, "halt")
          \/ outcome = "GREEN" /\ Change(s, m, "closing")
          \/ outcome = "RED" /\ fixes = {} /\ Change(s, m, "halt")
          \/ outcome = "RED" /\ \E n \in fixes : Change(s, WithNode(m, n, NewNode), "round")
    /\ UNCHANGED <<project, timers, reign, run, mainline, accepted, overtaken, mishaps>>
\* The verdict is recorded; then the project's timers are withdrawn.
Closing(s) ==
    /\ CtlAt(s, "closing")
    /\ IF RcClosed(ctl[s].mem) THEN Change(s, ctl[s].mem, "ended")
       ELSE ctl' = [ctl EXCEPT ![s].at = "round"]
    /\ UNCHANGED <<project, timers, reign, run, mainline, accepted, overtaken, mishaps>>
Ended(s) ==
    /\ CtlAt(s, "ended") /\ timers' = IF IsMaster(s) THEN {} ELSE timers
    /\ HaltOf(s)
    /\ UNCHANGED <<project, run, mainline, accepted, overtaken, mishaps>>

-----------------------------------------------------------------------------
(* Waking, unblocking, and what goes wrong                                 *)

Unblocked(n) ==
    /\ project.node[n].life = "BLOCKED" /\ project.seq < MaxWrites
    /\ project' = [project EXCEPT !.seq = @ + 1, !.node[n].life = "READY",
                                  !.node[n].kind = "none", !.node[n].due = 0]

\* unblock, by an operator who steps in as master and leaves again.
UnblockNode(n) ==
    /\ Vacant /\ Reigns("operator", "released") /\ Unblocked(n)
    /\ timers' = timers \ StaleWaits(project')
    /\ UNCHANGED <<ctl, run, mainline, accepted, mishaps>>

\* A due timer: the pass becomes master, writes the node ready and consumes the timer; it
\* may die before it consumes it.  The pass over providers then drives the project.
Wake(s, n) ==
    /\ CtlAt(s, "off") /\ Vacant /\ Unblocked(n)
    /\ \E t \in timers :
          /\ t.node = n /\ project.node[n].kind = t.kind
          /\ \/ /\ t.kind = "usage_limit" /\ Reigns(s, "held")
                /\ timers' = timers \ ({t} \cup StaleWaits(project')) /\ mishaps' = mishaps
                /\ ctl' = [ctl EXCEPT ![s] = [Off EXCEPT !.at = "start",
                                                         !.reign = reign.number + 1]]
             \/ /\ t.kind = "storage_pressure" /\ Reigns(s, "released")
                /\ timers' = timers \ {t} /\ UNCHANGED <<ctl, mishaps>>
             \/ Reigns(s, "lapsed") /\ Mishap /\ UNCHANGED <<timers, ctl>>
    /\ UNCHANGED <<run, mainline, accepted>>

\* _rearm: storage is still low; the next recheck is armed, then the old one withdrawn.
Rearm(n) ==
    /\ \E t \in timers, due \in DueTimes :
          /\ t.node = n /\ t.kind = "storage_pressure" /\ project.node[n].kind = t.kind
          /\ due # t.due
          /\ \/ /\ timers' = (timers \ {t}) \cup {Timer(n, t.kind, due)} /\ mishaps' = mishaps
             \/ Mishap /\ timers' = timers \cup {Timer(n, t.kind, due)}
    /\ UNCHANGED <<project, reign, ctl, run, mainline, accepted, overtaken>>

CtlDies(s) ==
    /\ ~CtlAt(s, "off") /\ Mishap /\ ctl' = [ctl EXCEPT ![s] = Off]
    /\ UNCHANGED <<project, timers, reign, run, mainline, accepted, overtaken>>
\* The master froze past its lease.
Lapses ==
    /\ reign.lease = "held" /\ Mishap /\ reign' = [reign EXCEPT !.lease = "lapsed"]
    /\ UNCHANGED <<project, timers, ctl, run, mainline, accepted, overtaken>>

ProjNext ==
    \/ \E s \in Ctl : \/ Drive(s) \/ Read(s) \/ Persist(s) \/ DisarmStale(s)
                      \/ Arm(s) \/ Merge(s) \/ Authorise(s) \/ Launch(s) \/ Return(s)
                      \/ MeasureClosure(s) \/ Closing(s) \/ Ended(s) \/ CtlDies(s)
    \/ \E s \in Ctl, n \in Node : Evaluate(s, n) \/ Round(s, n) \/ Obstructed(s, n) \/ Wake(s, n)
    \/ \E s \in Ctl, v \in {"UNDETERMINED", "STORAGE_UNAVAILABLE"} : Refused(s, v)
    \/ \E s \in Ctl, g \in {"GREEN", "RED", "NOT_RUN"} : GatesAnswer(s, g)
    \/ \E n \in Node : RunStops(n) \/ RunVeiled(n) \/ UnblockNode(n) \/ Rearm(n)
    \/ Lapses

ProjSpec == ProjInit /\ [][ProjNext]_projVars

-----------------------------------------------------------------------------
(* Properties                                                              *)

NodeRecord == [life : {"absent", "READY", "RUNNING", "BLOCKED"} \cup Settled,
               kind : {"none", "usage_limit", "storage_pressure"}, due : 0..2,
               rej : 0..MaxRejections + 1, before : 0..MaxCand, open : BOOLEAN]
TimerRecord == [node : Node, kind : {"usage_limit", "storage_pressure"}, due : DueTimes]

\* A node that has used up its rejections is abandoned; a node that waits has a time.
ProjTypeOK ==
    /\ project.node \in [Node -> NodeRecord] /\ project.seq \in 0..MaxWrites
    /\ \A n \in Node : LET r == project.node[n] IN
          /\ r.rej > MaxRejections => r.life = "ABANDONED"
          /\ r.due # 0 <=> r.kind # "none"
          /\ r.kind # "none" => r.life = "BLOCKED"
    /\ reign.number \in 0..MaxReign
    /\ timers \subseteq TimerRecord

\* The file agrees with what happened, whoever died or was replaced between two writes: its
\* log of dispatches and its lifecycles name the same nodes in flight, so that no drive halts
\* over it, and a node is MERGED on file only when a candidate of it is on the mainline.
FileIsTrue ==
    /\ ~Disagrees(project)
    /\ \A n \in Node : project.node[n].life = "MERGED" =>
                          \E c \in 1..MaxCand : <<n, c>> \in mainline

\* Only what a run accepted reaches the mainline.
OnlyAcceptedMerged == mainline \subseteq accepted

\* A project that reads as closed is closed over everything: the subject its gates were
\* green on holds what was merged, whichever nodes were unblocked and merged since.
ClosureCovers == RcClosed(project) => mainline \subseteq project.subject

\* The mainline holds what was accepted, and a closed project holds all of it.
MainlineIsEarned == OnlyAcceptedMerged /\ ClosureCovers

\* A node that waits on storage has a timer that wakes it; one that waits on its provider
\* has the one it names, unless a session was replaced while it withdrew timers.
TimedWaitHasTimer ==
    \A n \in Node : LET r == project.node[n] IN
       /\ r.kind = "storage_pressure" => \E due \in DueTimes : Timer(n, r.kind, due) \in timers
       /\ r.kind = "usage_limit" /\ ~overtaken => Timer(n, r.kind, r.due) \in timers

\* What is settled stays settled: no write of a session that was replaced, or that read
\* the state before somebody else wrote it, takes it back.
SettledIsFinal ==
    [][\A n \in Node : project.node[n].life \in Settled
                          => project'.node[n].life = project.node[n].life]_projVars

-----------------------------------------------------------------------------
(* What holds at every place of a drive                                    *)

ProjPlaces == {"off", "start", "round", "persist", "disarming", "arming", "merging", "launch",
               "starting", "waiting", "measuring", "closing", "ended"}
Nexts == {"none", "round", "halt", "launch", "closing", "ended"}
Candidates == Node \X (1..MaxCand)
StateRecord ==
    [node : [Node -> NodeRecord], seq : 0..MaxWrites, gates : {"none", "GREEN", "RED"},
     subject : SUBSET Candidates]
DriveRecord ==
    [at : ProjPlaces, reign : 0..MaxReign, mem : StateRecord, node : Node \cup {"none"},
     verdict : Parked \cup {"none", "ACCEPTED"}, then : Nexts, subject : SUBSET Candidates]
RunRecord ==
    [made : BOOLEAN, live : BOOLEAN, cand : 0..MaxCand, moved : BOOLEAN,
     end : RunReturns \cup {"new"}, veiled : BOOLEAN]
DriveTypeOK ==
    /\ project \in StateRecord /\ ctl \in [Ctl -> DriveRecord] /\ run \in [Node -> RunRecord]
    /\ reign \in [number : 0..MaxReign, who : Ctl \cup {"none", "operator"},
                  lease : {"held", "released", "lapsed"}]
    /\ timers \subseteq TimerRecord
    /\ mainline \subseteq Candidates /\ overtaken \in BOOLEAN

\* A run's candidate was accepted, and so was what was merged.
RunsInv ==
    /\ \A n \in Node : run[n].cand # 0 => <<n, run[n].cand>> \in accepted
    /\ OnlyAcceptedMerged

\* One session drives under the number of the present reign.
Current(s) == ctl[s].at # "off" /\ ctl[s].reign = reign.number
ReignInv ==
    /\ reign.lease = "held" => reign.number # 0
    /\ \A s \in Ctl : /\ ctl[s].at = "off" => ctl[s].reign = 0
                      /\ ctl[s].reign <= reign.number
                      /\ Current(s) => reign.who = s
                      /\ CtlAt(s, "disarming") /\ ~overtaken => Current(s)

\* What a state says of a node fits together, and of the gates and the nodes.
NodeOK(r) == /\ r.rej > MaxRejections => r.life = "ABANDONED"
             /\ r.due # 0 <=> r.kind # "none"
             /\ r.kind # "none" => r.life = "BLOCKED"
MergedIsThere(m) ==
    \A n \in Node : m.node[n].life = "MERGED" => \E c \in 1..MaxCand : <<n, c>> \in mainline
StateOK(m) ==
    /\ \A n \in Node : NodeOK(m.node[n])
    /\ m.gates = "GREEN" => Terminal(m)
    /\ MergedIsThere(m)
Waits(m) ==
    \A n \in Node : LET r == m.node[n] IN
       /\ r.kind = "storage_pressure" => \E due \in DueTimes : Timer(n, r.kind, due) \in timers
       /\ r.kind = "usage_limit" /\ ~overtaken => Timer(n, r.kind, r.due) \in timers
Covered(m) == m.gates = "GREEN" => mainline \subseteq m.subject
FileInv == StateOK(project) /\ ~Disagrees(project) /\ Waits(project) /\ Covered(project)

\* What a session has in memory, whether it is still the master or not.
Settling == {"merging", "arming"}
Launching == {"launch", "starting", "waiting"}
MemIs(c) ==
    /\ StateOK(c.mem)
    /\ \A n \in Node : (c.at \in Settling /\ n = c.node)
                         \/ c.mem.node[n].open = (c.mem.node[n].life = "RUNNING")
    /\ c.at \in Settling \cup Launching \/ c.then = "launch" => c.node \in Node
    /\ c.at \in Launching \/ c.then = "launch" => c.mem.node[c.node].life = "RUNNING"
    /\ c.at \in Settling => c.then = "round" /\ ~c.mem.node[c.node].open
    /\ c.at \in Settling => c.mem.node[c.node].life \in {"READY", "RUNNING"}
    /\ c.at = "merging" => run[c.node].cand # 0
    /\ c.at = "arming" => c.verdict \in Parked
    /\ c.at \in {"measuring", "ended"} \/ c.then = "ended" => Terminal(c.mem)
    /\ c.at \in {"persist", "disarming"} => c.then # "none"
MemInv ==
    \A s \in Ctl : /\ ctl[s].at = "start" => ctl[s].then = "none"
                   /\ ctl[s].at \notin {"off", "start"} => MemIs(ctl[s])

\* What the present master has in memory is the file, but for the change it is about to write.
\* The change takes nothing back that is settled.
Mirrors(c) ==
    /\ c.mem.seq = project.seq
    /\ c.at \notin Settling \cup {"persist"} => c.mem = project
    /\ c.at \in Settling =>
          /\ c.mem.gates = project.gates /\ c.mem.subject = project.subject
          /\ \A n \in Node \ {c.node} : c.mem.node[n] = project.node[n]
          /\ c.mem.node[c.node].life = project.node[c.node].life
    /\ c.at = "persist" =>
          /\ \A n \in Node : project.node[n].life \in Settled =>
                               c.mem.node[n].life = project.node[n].life
          /\ Waits(c.mem) /\ Covered(c.mem)
    /\ c.at = "measuring" => mainline \subseteq c.subject
MasterInv ==
    \A s \in Ctl : Current(s) /\ ctl[s].at # "start" => Mirrors(ctl[s])

ProjInv == DriveTypeOK /\ RunsInv /\ ReignInv /\ FileInv /\ MemInv /\ MasterInv
=============================================================================
