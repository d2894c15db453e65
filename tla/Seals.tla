-------------------------------- MODULE Seals --------------------------------
(***************************************************************************)
(* The seal of QA's candidate arena.  The controller clears the write bits *)
(* of the copy QA judges, keeps a ledger of it (runs/<id>/seals.jsonl),    *)
(* compares the arena when QA's dispatch ends and lifts the seal, or keeps *)
(* it while QA's pane may still act (controller.py, _verify to             *)
(* release_open_seals).  The end of `hoh run` closes the panes and lifts   *)
(* what was kept (cli.py), and a delivery reads the ledger (cli.py,        *)
(* launcher.py).  The agent may change any arena while it lives: the seal  *)
(* detects, it does not prevent.                                           *)
(***************************************************************************)
EXTENDS Integers, FiniteSets

CONSTANTS MaxAttempts, MaxTouches,
          MaxMishaps    \* bound on appends that fail, seals that fail and crashes

ASSUME SealAssumption == MaxAttempts \in Nat /\ MaxTouches \in Nat /\ MaxMishaps \in Nat

VARIABLES
    arenas,     \* one arena per attempt: its write bits and what it holds
    seals,      \* what the ledger says of each
    run,        \* state.json: is it active, held for a violation, how far
    ctrl,       \* the process of `hoh run`
    qa,         \* is QA's agent in Herdr?
    hits,       \* history: arenas changed between their seal and the comparison
    lost, pardoned,     \* history: hits that a crash lost, and that a person unblocked
    mishaps

sealVars == <<arenas, seals, run, ctrl, qa, hits, lost, pardoned, mishaps>>

Arena == 1 .. MaxAttempts
NoDigest == -1
OtherMode == -2
NoLine == [planned |-> FALSE, frozen |-> NoDigest, touched |-> NoDigest,
           releasing |-> FALSE, released |-> FALSE, kept |-> FALSE]
NoProcess == [pc |-> "off", digest |-> NoDigest, witness |-> NoDigest, bad |-> FALSE,
              keep |-> "no", waiting |-> FALSE, left |-> {}, hit |-> {}, at |-> 0]

SealInit ==
    /\ arenas = [a \in Arena |-> [mode |-> "none", version |-> 0]]
    /\ seals = [a \in Arena |-> NoLine]
    /\ run = [active |-> TRUE, held |-> FALSE, stage |-> "working", attempt |-> 0]
    /\ ctrl = NoProcess /\ qa = FALSE
    /\ hits = {} /\ lost = {} /\ pardoned = {} /\ mishaps = 0

In(pc) == ctrl.pc = pc
GoOn(pc) == ctrl' = [ctrl EXCEPT !.pc = pc]
A == run.attempt
Mishap == mishaps < MaxMishaps /\ mishaps' = mishaps + 1
Fine == UNCHANGED mishaps
NoHistory == UNCHANGED <<lost, pardoned>>

\* frozen_digest: contents, and the change times a chmod moves.
FrozenDigest(a) == IF arenas[a].mode = "sealed" THEN arenas[a].version ELSE OtherMode
\* open_seal_arenas, _open_seals.
OpenSeals == {a \in Arena : seals[a].planned /\ ~seals[a].released}
\* A line that is appended, or whose append fails and is only noted.
NoteLine(a, line) ==
    \/ seals' = [seals EXCEPT ![a] = line] /\ Fine
    \/ UNCHANGED seals /\ Mishap
\* _compare_open
Comparable == {a \in OpenSeals : ~seals[a].releasing /\ seals[a].frozen # NoDigest}
Touched == {a \in Comparable : FrozenDigest(a) # seals[a].frozen}
RecordTouched ==
    \/ /\ seals' = [a \in Arena |-> IF a \in Touched
                                    THEN [seals[a] EXCEPT !.touched = FrozenDigest(a)]
                                    ELSE seals[a]]
       /\ Fine
    \/ Touched # {} /\ UNCHANGED seals /\ Mishap
\* unseal, entry by entry: an inode that is not the planned one is left as it is.
Unseal(a) == \E missed \in BOOLEAN :
    /\ IF missed THEN Mishap ELSE Fine
    /\ arenas' = [arenas EXCEPT ![a].mode = IF missed THEN "part" ELSE "open"]
Hold == run' = [run EXCEPT !.active = FALSE, !.held = TRUE]

-----------------------------------------------------------------------------
(* A verification                                                          *)

RunStarts ==
    /\ In("off") /\ run.active /\ run.stage \in {"working", "checkpointed"}
    /\ ctrl' = [NoProcess EXCEPT !.pc = "idle"]
    /\ Fine /\ NoHistory /\ UNCHANGED <<arenas, seals, run, qa, hits>>

Verify ==
    /\ In("idle") /\ A < MaxAttempts
    /\ run' = [run EXCEPT !.attempt = @ + 1]
    /\ ctrl' = [ctrl EXCEPT !.pc = "check", !.bad = FALSE, !.keep = "no",
                            !.left = {a \in OpenSeals : seals[a].releasing}]
    /\ Fine /\ NoHistory /\ UNCHANGED <<arenas, seals, qa, hits>>

\* _check_open_seals: a release that was cut short is finished, uncompared.
FinishRelease(a) ==
    /\ In("check") /\ a \in ctrl.left /\ ctrl' = [ctrl EXCEPT !.left = @ \ {a}]
    /\ \/ /\ arenas' = [arenas EXCEPT ![a].mode = "open"]
          /\ NoteLine(a, [seals[a] EXCEPT !.released = TRUE])
       \/ /\ Mishap /\ arenas' = [arenas EXCEPT ![a].mode = "part"]
          /\ seals' = [seals EXCEPT ![a].released = TRUE]
    /\ NoHistory /\ UNCHANGED <<run, qa, hits>>

\* The others stay sealed and are compared.
CheckOpenSeals ==
    /\ In("check") /\ ctrl.left = {}
    /\ RecordTouched
    /\ GoOn(IF Touched # {} THEN "violation" ELSE "plan")
    /\ NoHistory /\ UNCHANGED <<arenas, run, qa, hits>>

\* Mutant: a plan that could not be recorded is applied all the same.
PlanUnrecorded ==
    /\ In("plan") /\ NoHistory /\ UNCHANGED <<run, qa, hits>>
    /\ arenas' = [arenas EXCEPT ![A].mode = "open"]
    /\ NoteLine(A, [seals[A] EXCEPT !.planned = TRUE]) /\ GoOn("apply")
\* _seal_candidate: the plan is on file before the first chmod.
PlanSeal ==
    /\ In("plan") /\ NoHistory /\ UNCHANGED <<run, qa, hits>>
    /\ arenas' = [arenas EXCEPT ![A].mode = "open"]
    /\ \/ seals' = [seals EXCEPT ![A].planned = TRUE] /\ GoOn("apply") /\ Fine
       \/ UNCHANGED seals /\ GoOn("sealFailed") /\ Mishap

\* apply_seal: every write bit under the arena, or none.
ApplySeal ==
    /\ In("apply") /\ NoHistory /\ UNCHANGED <<seals, run, qa, hits>>
    /\ \/ arenas' = [arenas EXCEPT ![A].mode = "sealed"] /\ GoOn("record") /\ Fine
       \/ arenas' = [arenas EXCEPT ![A].mode = "part"] /\ GoOn("rollback") /\ Mishap

RecordSealed ==
    /\ In("record") /\ NoHistory /\ UNCHANGED <<arenas, run, qa, hits>>
    /\ \/ /\ seals' = [seals EXCEPT ![A].frozen = FrozenDigest(A)] /\ Fine
          /\ ctrl' = [ctrl EXCEPT !.pc = "ask", !.digest = FrozenDigest(A)]
       \/ UNCHANGED seals /\ GoOn("rollback") /\ Mishap

RollBack ==
    /\ In("rollback") /\ NoHistory /\ UNCHANGED <<run, qa, hits>>
    /\ arenas' = [arenas EXCEPT ![A].mode = "open"]
    /\ NoteLine(A, [seals[A] EXCEPT !.released = TRUE]) /\ GoOn("sealFailed")

\* QA is not started, and the run waits for a person.
SealFailed ==
    /\ In("sealFailed") /\ run' = [run EXCEPT !.active = FALSE] /\ GoOn("closing")
    /\ Fine /\ NoHistory /\ UNCHANGED <<arenas, seals, qa, hits>>

\* The dispatch takes its own witness when it starts.
AskQA ==
    /\ In("ask") /\ qa' = TRUE
    /\ ctrl' = [ctrl EXCEPT !.pc = "asked", !.witness = FrozenDigest(A)]
    /\ Fine /\ NoHistory /\ UNCHANGED <<arenas, seals, run, hits>>

\* The dispatch returns: an answer or a plain error, a pane that is kept open, an interrupt.
\* What its witness saw is a violation, whatever else it raised; an interrupt reads none.
QAReturns(how) ==
    /\ In("asked") /\ Fine
    /\ LET seen == how # "interrupt" /\ FrozenDigest(A) # ctrl.witness IN
       ctrl' = [ctrl EXCEPT !.bad = seen,
                            !.keep = IF seen \/ how \in {"answer", "error"} THEN "no" ELSE how,
                            !.pc = IF seen \/ how \in {"answer", "error"}
                                   THEN "compare" ELSE "keep",
                            !.waiting = @ \/ (how = "approval" /\ ~seen)]
    /\ NoHistory /\ UNCHANGED <<arenas, seals, run, qa, hits>>

\* _release_seal with a reason to keep: the seal stays under the pane.
KeepSeal ==
    /\ In("keep") /\ NoHistory /\ UNCHANGED <<arenas, qa, hits>>
    /\ seals' = [seals EXCEPT ![A].kept = TRUE] /\ Fine
    /\ ctrl' = CASE ctrl.keep = "interrupt" -> NoProcess
                 [] ctrl.keep = "approval" -> [ctrl EXCEPT !.pc = "idle"]
                 [] OTHER -> [ctrl EXCEPT !.pc = "closing", !.waiting = TRUE]
    /\ run' = [run EXCEPT !.active = @ /\ ctrl.keep # "unclean"]

\* _release_seal: what no witness saw is found by one more comparison.
CompareSealed ==
    /\ In("compare") /\ NoHistory /\ UNCHANGED <<arenas, run, qa, hits>>
    /\ LET hit == ~ctrl.bad /\ FrozenDigest(A) # ctrl.digest IN
       /\ ctrl' = [ctrl EXCEPT !.bad = @ \/ hit, !.pc = "releasing", !.digest = NoDigest]
       /\ IF hit THEN NoteLine(A, [seals[A] EXCEPT !.touched = FrozenDigest(A)])
                 ELSE UNCHANGED seals /\ Fine

Releasing ==
    /\ In("releasing") /\ GoOn("unseal")
    /\ NoteLine(A, [seals[A] EXCEPT !.releasing = TRUE])
    /\ NoHistory /\ UNCHANGED <<arenas, run, qa, hits>>

UnsealArena == In("unseal") /\ Unseal(A) /\ GoOn("released")
               /\ NoHistory /\ UNCHANGED <<seals, run, qa, hits>>

SealReleased ==
    /\ In("released") /\ NoteLine(A, [seals[A] EXCEPT !.released = TRUE])
    /\ GoOn(IF ctrl.bad THEN "violation" ELSE "verdict")
    /\ NoHistory /\ UNCHANGED <<arenas, run, qa, hits>>

\* _run_iteration_guarded: the run is blocked with the kind only a person lifts.
Violation ==
    /\ In("violation") /\ Hold /\ GoOn("closing")
    /\ Fine /\ NoHistory /\ UNCHANGED <<arenas, seals, qa, hits>>

Verdict ==
    /\ In("verdict") /\ Fine
    /\ \E accepted \in BOOLEAN :
          run' = [run EXCEPT !.stage = IF accepted THEN "checkpointed" ELSE @]
    /\ \E pc \in {"idle", "closing"} : GoOn(pc)
    /\ NoHistory /\ UNCHANGED <<arenas, seals, qa, hits>>

-----------------------------------------------------------------------------
(* The end of `hoh run`: _end_of_run, _close_own_and_release               *)

LastIteration ==
    /\ In("idle") /\ GoOn("closing")
    /\ Fine /\ NoHistory /\ UNCHANGED <<arenas, seals, run, qa, hits>>

\* close_own: a pane that waits for an operator, or is not confirmed closed, stays.
CloseTabs ==
    /\ In("closing") /\ NoHistory /\ UNCHANGED <<arenas, seals, run, hits>>
    /\ \/ ctrl.waiting /\ GoOn("compareKept") /\ UNCHANGED qa /\ Fine
       \/ ~ctrl.waiting /\ qa' \in {qa, FALSE} /\ GoOn("lift") /\ Fine
       \/ ~ctrl.waiting /\ UNCHANGED qa /\ GoOn("compareKept") /\ Mishap

\* compare_open_seals: nothing is lifted, and a touch blocks the run.
CompareAndHold == RecordTouched /\ (IF Touched # {} THEN Hold ELSE UNCHANGED run)
CompareKept ==
    /\ In("compareKept") /\ CompareAndHold /\ ctrl' = NoProcess
    /\ NoHistory /\ UNCHANGED <<arenas, qa, hits>>

\* Mutant: once the tabs are closed nobody asks for the agent.
LiftUnasked ==
    /\ In("lift") /\ NoHistory /\ UNCHANGED <<arenas, qa, hits>>
    /\ ctrl' = [ctrl EXCEPT !.pc = "lifting", !.left = OpenSeals]
    /\ Fine /\ UNCHANGED <<seals, run>>
\* release_open_seals: while QA's agent is not provably gone nothing is lifted.
LiftOrKeep ==
    /\ In("lift") /\ NoHistory /\ UNCHANGED <<arenas, qa, hits>>
    /\ \/ qa /\ CompareAndHold /\ ctrl' = NoProcess
       \/ ~qa /\ ctrl' = [ctrl EXCEPT !.pc = "lifting", !.left = OpenSeals]
          /\ Fine /\ UNCHANGED <<seals, run>>

LiftReleasing(a) ==
    /\ In("lifting") /\ a \in ctrl.left
    /\ ctrl' = [ctrl EXCEPT !.pc = "liftUnseal", !.at = a,
                            !.hit = IF a \in Touched THEN @ \cup {a} ELSE @]
    /\ NoteLine(a, [seals[a] EXCEPT !.releasing = TRUE])
    /\ NoHistory /\ UNCHANGED <<arenas, run, qa, hits>>
LiftUnseal == In("liftUnseal") /\ Unseal(ctrl.at) /\ GoOn("liftReleased")
              /\ NoHistory /\ UNCHANGED <<seals, run, qa, hits>>
LiftReleased ==
    /\ In("liftReleased") /\ ctrl' = [ctrl EXCEPT !.pc = "lifting", !.left = @ \ {ctrl.at}]
    /\ NoteLine(ctrl.at, [seals[ctrl.at] EXCEPT !.released = TRUE])
    /\ NoHistory /\ UNCHANGED <<arenas, run, qa, hits>>
LiftDone ==
    /\ In("lifting") /\ ctrl.left = {} /\ ctrl' = NoProcess
    /\ IF ctrl.hit # {} THEN Hold ELSE UNCHANGED run
    /\ Fine /\ NoHistory /\ UNCHANGED <<arenas, seals, qa, hits>>

\* What the process knew and no file says: the violation is gone with it.
Forgotten == {a \in hits : (seals[a].releasing \/ seals[a].released) /\ ~run.held}
\* An arena that cannot be read ends the release; what is left is compared.
LiftFails ==
    /\ In("lifting") /\ ctrl.left # {} /\ Mishap /\ GoOn("compareKept")
    /\ lost' = lost \cup Forgotten
    /\ UNCHANGED <<arenas, seals, run, qa, hits, pardoned>>
ProcessDies ==
    /\ ~In("off") /\ Mishap /\ ctrl' = NoProcess
    /\ lost' = lost \cup Forgotten
    /\ UNCHANGED <<arenas, seals, run, qa, hits, pardoned>>

-----------------------------------------------------------------------------
(* QA's agent, and people                                                  *)

\* The comparison at the release is made: a later change is seen by nobody.
Compared(a) ==
    \/ ctrl.pc \in {"releasing", "unseal", "released"} /\ a = A
    \/ ctrl.pc = "liftUnseal" /\ a = ctrl.at
    \/ seals[a].releasing
AgentTouches(a) ==
    /\ qa /\ arenas[a].mode = "sealed" /\ arenas[a].version < MaxTouches
    /\ arenas' = [arenas EXCEPT ![a].version = @ + 1]
    /\ hits' = IF seals[a].frozen # NoDigest /\ ~Compared(a) THEN hits \cup {a} ELSE hits
    /\ Fine /\ NoHistory /\ UNCHANGED <<seals, run, ctrl, qa>>

AgentLeaves == qa /\ qa' = FALSE /\ Fine /\ NoHistory
               /\ UNCHANGED <<arenas, seals, run, ctrl, hits>>

\* `hoh unblock` lifts the hold: a person has looked.
UnblockRun ==
    /\ In("off") /\ ~run.active /\ run.stage \in {"working", "checkpointed"}
    /\ run' = [run EXCEPT !.active = TRUE, !.held = FALSE]
    /\ pardoned' = IF run.held THEN pardoned \cup hits ELSE pardoned
    /\ Fine /\ UNCHANGED <<arenas, seals, ctrl, qa, hits, lost>>

\* cmd_deliver, and the launcher's verdict before a merge.
MayGoOut == run.stage = "checkpointed" /\ ~run.held /\ OpenSeals = {}
GoesOut ==
    /\ In("off") /\ MayGoOut /\ run' = [run EXCEPT !.stage = "delivered"]
    /\ Fine /\ NoHistory /\ UNCHANGED <<arenas, seals, ctrl, qa, hits>>

-----------------------------------------------------------------------------
SealNext ==
    \/ RunStarts \/ Verify \/ CheckOpenSeals \/ PlanSeal \/ ApplySeal \/ RecordSealed
    \/ RollBack \/ SealFailed \/ AskQA \/ KeepSeal \/ CompareSealed \/ Releasing
    \/ UnsealArena \/ SealReleased \/ Violation \/ Verdict \/ LastIteration \/ CloseTabs
    \/ CompareKept \/ LiftOrKeep \/ LiftUnseal \/ LiftReleased \/ LiftDone \/ LiftFails
    \/ ProcessDies \/ AgentLeaves \/ UnblockRun \/ GoesOut
    \/ \E how \in {"answer", "error", "approval", "unclean", "interrupt"} : QAReturns(how)
    \/ \E a \in Arena : FinishRelease(a) \/ LiftReleasing(a) \/ AgentTouches(a)
SealSpec == SealInit /\ [][SealNext]_sealVars

-----------------------------------------------------------------------------
(* Properties                                                              *)

\* A change QA makes to the arena it judges holds the run before the seal is off the ledger
\* and nothing of it goes out (_release_seal, release_open_seals, cmd_deliver).  The
\* exception: a process that dies, or fails, after it wrote `releasing` takes what it found
\* along.
InHand(a) == (ctrl.bad /\ a = A) \/ a \in ctrl.hit
Settled(a) == a \in lost \cup pardoned
TouchIsSeen ==
    \A a \in hits : Settled(a) \/ (run.stage # "delivered"
                                   /\ (a \in OpenSeals \/ run.held \/ InHand(a)))

\* A write bit that is cleared is on the ledger, so that somebody can restore it; after the
\* release only entries that are no longer the planned ones are left (_seal_candidate).
PlannedIsFirst ==
    \A a \in Arena : /\ arenas[a].mode \in {"sealed", "part"} => seals[a].planned
                     /\ arenas[a].mode = "sealed" => ~seals[a].released

\* The ledger of seals tells what was cleared, and what was touched.
SealsTell == TouchIsSeen /\ PlannedIsFirst

\* Under a pane that was kept open, or after an interrupt, the seal is lifted only when QA's
\* agent is gone (docs/LIMITATIONS.md, limit 12d).
KeptIsSealed ==
    [][\A a \in Arena : seals[a].kept /\ arenas[a].mode = "sealed"
          /\ arenas'[a].mode # "sealed" => ~qa]_sealVars

-----------------------------------------------------------------------------
(* Why it is so: an invariant that every step keeps                        *)

Digest == Nat \cup {NoDigest, OtherMode}
SealLine == [planned : BOOLEAN, frozen : Digest, touched : Digest, releasing : BOOLEAN,
             released : BOOLEAN, kept : BOOLEAN]
Asking == {"ask", "asked", "keep", "compare"}
AfterCompare == {"releasing", "unseal", "released"}
Lifting == {"lifting", "liftUnseal", "liftReleased"}
Pcs == {"off", "idle", "check", "plan", "apply", "record", "rollback", "sealFailed", "violation",
        "verdict", "closing", "compareKept", "lift"} \cup Asking \cup AfterCompare \cup Lifting
SealProcess == [pc : Pcs, digest : Digest, witness : Digest, bad : BOOLEAN,
                keep : {"no", "approval", "unclean", "interrupt"}, waiting : BOOLEAN,
                left : SUBSET Arena, hit : SUBSET Arena, at : Nat]
Modes == {"none", "open", "part", "sealed"}
ArenaRecord == [mode : Modes, version : Nat]
SealRun == [active : BOOLEAN, held : BOOLEAN, attempt : 0 .. MaxAttempts,
            stage : {"working", "checkpointed", "delivered"}]
SealTypeOK ==
    /\ arenas \in [Arena -> ArenaRecord] /\ seals \in [Arena -> SealLine] /\ run \in SealRun
    /\ ctrl \in SealProcess /\ qa \in BOOLEAN
    /\ hits \subseteq Arena /\ lost \subseteq Arena /\ pardoned \subseteq Arena

\* An attempt's arena and its line are untouched until its plan.
FreshInv ==
    /\ \A a \in Arena : a > A \/ (a = A /\ ctrl.pc \in {"check", "plan"})
                           => seals[a] = NoLine /\ arenas[a].mode = "none"
    /\ ctrl.pc \notin {"off", "idle", "closing", "compareKept", "lift"} \cup Lifting =>
          A \in Arena
\* The arena of the attempt under way: what the ledger says of it by then.
AttemptInv ==
    LET l == seals[A] IN
    /\ ctrl.pc \in {"apply", "record", "rollback"} =>
          l.planned /\ ~l.released /\ ~l.kept /\ ~l.releasing /\ l.frozen = NoDigest
    /\ ctrl.pc \in Asking =>
          /\ l.planned /\ ~l.released /\ ~l.kept /\ ~l.releasing
          /\ l.frozen = ctrl.digest /\ l.frozen \in Nat /\ arenas[A].mode = "sealed"
    /\ ctrl.pc = "record" => arenas[A].mode = "sealed"
    /\ ctrl.pc \in AfterCompare => l.planned /\ ~l.released /\ ~l.kept
    /\ ctrl.pc = "released" => arenas[A].mode # "sealed"
\* A line that says `releasing` under a sealed arena is finished before QA is asked again.
ReleasingInv ==
    /\ ctrl.pc = "check" => /\ \A a \in ctrl.left : seals[a].planned /\ seals[a].releasing
                           /\ \A a \in Arena : seals[a].releasing /\ arenas[a].mode = "sealed"
                                                 => a \in ctrl.left
    /\ ctrl.pc \in {"plan", "apply", "record", "ask"} =>
          \A a \in Arena : seals[a].releasing => arenas[a].mode # "sealed"
    /\ \A a \in Arena : seals[a].kept /\ seals[a].releasing /\ arenas[a].mode = "sealed" => ~qa
\* Whatever is lifted at the end is lifted after QA is gone.
LiftInv ==
    /\ ctrl.pc \in Lifting => ~qa /\ \A a \in ctrl.left : seals[a].planned
    /\ ctrl.pc \in {"liftUnseal", "liftReleased"} => ctrl.at \in ctrl.left
    /\ ctrl.pc = "liftReleased" => arenas[ctrl.at].mode # "sealed"
\* A change counts from the recorded digest on; afterwards it is on the ledger, held for a
\* person, or in the hands of the process that compared.
HitInv ==
    \A a \in Arena :
       /\ seals[a].frozen # NoDigest =>
             seals[a].frozen \in Nat /\ seals[a].frozen <= arenas[a].version
       /\ a \in hits =>
             /\ seals[a].planned /\ seals[a].frozen # NoDigest
             /\ seals[a].frozen < arenas[a].version
             /\ \/ Settled(a) \/ run.held \/ InHand(a)
                \/ ~seals[a].releasing /\ ~seals[a].released
\* What is about to be taken off the ledger was compared, and what was found is in hand.
FoundInv ==
    /\ ctrl.pc \in AfterCompare => (A \in hits => Settled(A) \/ run.held \/ ctrl.bad)
    /\ ctrl.pc \in {"liftUnseal", "liftReleased"} =>
          (ctrl.at \in hits => Settled(ctrl.at) \/ run.held \/ ctrl.at \in ctrl.hit)
\* What is in hand is not dropped before the run is held.
HandInv ==
    /\ ctrl.bad => ctrl.pc \in {"compare", "violation"} \cup AfterCompare \/ run.held
    /\ ctrl.hit # {} =>
          \/ ctrl.pc \in Lifting
          \/ /\ ctrl.pc = "compareKept"
             /\ \A a \in hits : \/ Settled(a) \/ run.held
                                \/ ~seals[a].releasing /\ ~seals[a].released
    /\ ctrl.pc = "off" => ctrl = NoProcess
    /\ run.stage = "delivered" => OpenSeals = {} /\ ctrl.pc = "off" /\ \A a \in hits : Settled(a)
SealInv ==
    /\ SealTypeOK /\ PlannedIsFirst /\ FreshInv /\ AttemptInv /\ ReleasingInv /\ LiftInv
    /\ HitInv /\ FoundInv /\ HandInv
=============================================================================
