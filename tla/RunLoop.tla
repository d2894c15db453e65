------------------------------- MODULE RunLoop -------------------------------
(***************************************************************************)
(* One run, from `hoh run` to `hoh deliver`: the process that drives the   *)
(* iterations (src/hoh/cli.py cmd_run, src/hoh/controller.py), the files it*)
(* leaves behind, and the operator's commands that interleave with it.     *)
(*                                                                         *)
(* The driver's control points (pc) lie between two durable effects, so a  *)
(* crash, an exception or another process's command can come between any   *)
(* two of them.  The driver holds the run lock from TakeLock to the end of *)
(* the iteration; a command that takes the lock is one step.               *)
(*                                                                         *)
(* state.json's write_seq is abstracted to what the fence compares: behind *)
(* says that state.json has been written since the driver's own object was *)
(* read or written, i.e. mem.write_seq < disk.write_seq.                   *)
(***************************************************************************)
EXTENDS Stages, FiniteSets

CONSTANTS InitTree,      \* the tree of the branch when the run starts
          MaxEvents,     \* bound: commands, crashes, exceptions, stray writes
          MaxResumes,    \* quota.MAX_RESUME_ATTEMPTS
          Contract       \* what the run's autonomy contract makes of a block

ASSUME InitTreeAssumption == InitTree \in Tree
ASSUME ContractAssumption == Contract \subseteq Handling /\ Contract # {}
ASSUME BoundAssumption == MaxEvents \in Nat /\ MaxResumes \in Nat

VARIABLES
    disk,       \* state.json
    results,    \* results/: plan-i<n>-a<m> and qa-i<n>-a<m>, never overwritten
    evid,       \* digest of evidence.json, 0 = absent
    checks,     \* checks.json, the preservation suite
    stop,       \* stop-request.json
    lock,       \* who holds the run lock
    tree,       \* content of the worktree
    head,       \* tree of the run's branch
    target,     \* tree of the branch delivered into
    delivery,   \* the `hoh deliver` under way, and what the last one sent
    pc,         \* the driver's control point
    mem,        \* the driver's RunState object
    behind,     \* mem is older than state.json
    plan,       \* criteria of the plan in hand
    cand,       \* the candidate in hand
    res,        \* QA's RoleResult in hand
    honor,      \* the stop request the driver has read and not yet acted on
    asked,      \* the halt of an operator who found the lock held
    events      \* how many bounded events have happened

files == <<results, evid, checks>>
git   == <<tree, head, target, delivery>>
hand  == <<plan, cand, res, honor>>
vars  == <<disk, results, evid, checks, stop, lock, tree, head, target, delivery, pc,
           mem, behind, plan, cand, res, honor, asked, events>>

StopKind == {"none", "pause", "cancel"}

\* Inside an iteration, under the run lock, in the order the code passes them.
IterationPC == {"gates", "stop_start", "hold", "begin", "base", "plan", "planned",
                "enter", "stop_plan", "develop", "freeze", "stop_freeze", "verify", "qa",
                "judged", "evidence", "point", "decide", "preserve", "commit",
                "accept", "clear", "halt"}
PC == IterationPC \cup {"off", "ready", "between", "abort", "closing"}

\* A RoleResult: the criteria asked, those that PASS on a receipt, those that
\* demonstrate the increment; unverified: QA never answered.
Result == [checks : SUBSET Criteria, pass : SUBSET Criteria,
           disc : SUBSET Criteria, unverified : BOOLEAN]
NoResult == [checks |-> {}, pass |-> {}, disc |-> {}, unverified |-> FALSE]

\* An immutable file under results/; a plan carries no result.
File == [role : {"plan", "qa"}, iteration : Nat, attempt : Nat,
         tree : OptTree, res : Result]

Named(role, i, a) == {f \in results : f.role = role /\ f.iteration = i /\ f.attempt = a}

\* A delivery: the git call it is at; moved: somebody committed on the run's branch since
\* its tree was compared.  sent outlives it: what the target branch last got is what had
\* been compared ("checked"), or what the branch had become by then ("moved").
Delivery == [at : {"none", "tree", "status", "push", "record"}, moved : BOOLEAN,
             sent : {"nothing", "checked", "moved"}]
NoDelivery == [at |-> "none", moved |-> FALSE, sent |-> "nothing"]

Init ==
    /\ disk = NewState /\ results = {} /\ evid = 0 /\ checks = {}
    /\ stop = "none" /\ lock = "free"
    /\ tree = InitTree /\ head = InitTree /\ target = InitTree
    /\ delivery = NoDelivery
    /\ pc = "off" /\ mem = NewState /\ behind = FALSE
    /\ plan = {} /\ cand = NoTree /\ res = NoResult /\ honor = "none"
    /\ asked = "none" /\ events = 0

Event == events < MaxEvents /\ events' = events + 1

-----------------------------------------------------------------------------
(* What every step of the driver is made of.                               *)

EmptyHand == plan' = {} /\ cand' = NoTree /\ res' = NoResult /\ honor' = "none"

\* Mutant: the loop swallows the exception and goes on.
RaiseSwallowed == /\ pc' = "between" /\ lock' = "free" /\ EmptyHand
                  /\ UNCHANGED <<disk, mem, behind>>

\* An exception leaves run_iteration: the lock is released, nothing is written.
Raise == /\ pc' = "abort" /\ lock' = "free" /\ EmptyHand
         /\ UNCHANGED <<disk, mem, behind>>

\* Mutant: no fence.
WriteStateUnfenced(s, next) ==
    /\ disk' = s /\ mem' = s /\ pc' = next
    /\ UNCHANGED <<lock, behind>> /\ UNCHANGED hand

\* RunStore.write_state: refused when state.json has been advanced meanwhile.
WriteState(s, next) ==
    \/ /\ ~behind
       /\ disk' = s /\ mem' = s /\ pc' = next
       /\ UNCHANGED <<lock, behind>> /\ UNCHANGED hand
    \/ behind /\ Raise

\* write_state as the last act of an iteration; back in cmd_run's loop, the
\* counter of unsuccessful resumes is cleared in memory only.
EndIteration(s) ==
    \/ /\ ~behind
       /\ disk' = s /\ mem' = [s EXCEPT !.resumes = 0]
       /\ pc' = "between" /\ lock' = "free" /\ EmptyHand /\ UNCHANGED behind
    \/ behind /\ Raise

Goto(next) == pc' = next /\ UNCHANGED <<disk, mem, behind, lock>>

-----------------------------------------------------------------------------
(* `hoh run`: the process around the iterations.                           *)

\* The process marker admits one driver; the state is read without the lock.
StartRun ==
    /\ pc = "off"
    /\ pc' = "ready" /\ mem' = disk /\ behind' = FALSE
    /\ UNCHANGED <<disk, stop, lock, asked, events>>
    /\ UNCHANGED <<files, git, hand>>

\* A changed --isolation is recorded before the first iteration.  A stale
\* object or a held lock ends the process here, with nothing written.
RecordIsolation ==
    /\ pc = "ready"
    /\ \/ lock = "free" /\ ~behind /\ disk' = mem /\ UNCHANGED pc
       \/ (lock # "free" \/ behind) /\ pc' = "off" /\ UNCHANGED disk
    /\ UNCHANGED <<mem, behind, stop, lock, asked, events>>
    /\ UNCHANGED <<files, git, hand>>

\* run_iteration: a first iteration is always tried, a further one only while
\* the object in memory says ACTIVE.
TakeLock ==
    /\ pc = "ready" \/ (pc = "between" /\ mem.condition = "ACTIVE")
    /\ \/ lock = "free" /\ lock' = "driver" /\ pc' = "gates"
       \/ lock # "free" /\ pc' = "off" /\ UNCHANGED lock
    /\ UNCHANGED <<disk, mem, behind, stop, asked, events>>
    /\ UNCHANGED <<files, git, hand>>

\* The requested number of iterations is done, or the run is halted.
LeaveLoop ==
    /\ pc = "between"
    /\ pc' = "closing"
    /\ UNCHANGED <<disk, mem, behind, stop, lock, asked, events>>
    /\ UNCHANGED <<files, git, hand>>

\* cmd_run's handler of an exception: the state is read afresh and blocked.
AbortIteration ==
    /\ pc = "abort"
    /\ \/ /\ lock = "free"
          /\ \E h \in Contract : disk' = BlockUnderContract(disk, FALSE, h)
          /\ pc' = "closing"
       \/ lock # "free" /\ pc' = "off" /\ UNCHANGED disk
    /\ UNCHANGED <<mem, behind, stop, lock, asked, events>>
    /\ UNCHANGED <<files, git, hand>>

\* The end of the process: the integrity of the repository is compared and the
\* sealed arenas are released; a breach fails the run, a touched arena holds it.
CloseRun ==
    /\ pc = "closing"
    /\ pc' = "off" /\ behind' = FALSE /\ mem' = NewState
    /\ \/ UNCHANGED disk
       \/ lock = "free" /\ disk' = Fail(disk)
       \/ lock = "free" /\ \E h \in Contract : disk' = BlockViolation(disk, h)
    /\ UNCHANGED <<stop, lock, asked, events>>
    /\ UNCHANGED <<files, git, hand>>

-----------------------------------------------------------------------------
(* One iteration: _run_iteration_locked, gate by gate.                     *)

\* Budget, the evidence the state points at, the specification: an amendment on
\* file is recorded, a silent change or a shortened amendment chain blocks.
Gates ==
    /\ pc = "gates"
    /\ \/ /\ BudgetExhausted(mem)
          /\ \E h \in Contract : EndIteration(BlockUnderContract(mem, FALSE, h))
       \/ /\ ~BudgetExhausted(mem)
          /\ IF mem.evidence \notin {0, evid} THEN Raise
             ELSE \/ Goto("stop_start") /\ UNCHANGED hand
                  \/ WriteState(mem, "stop_start")
                  \/ \E h \in Contract : EndIteration(BlockUnderContract(mem, FALSE, h))
    /\ UNCHANGED <<stop, asked, events>> /\ UNCHANGED <<files, git>>

\* _honor_stop_request at the three boundaries: read ...
Boundary == [stop_start |-> "hold", stop_plan |-> "develop", stop_freeze |-> "verify"]

ReadStop ==
    /\ pc \in {"stop_start", "stop_plan", "stop_freeze"}
    /\ honor' = stop
    /\ Goto(IF stop = "none"
              THEN IF pc = "stop_start" /\ mem.condition \in HALTED THEN "begin"
                   ELSE Boundary[pc]
              ELSE "clear")
    /\ UNCHANGED <<plan, cand, res, stop, asked, events>> /\ UNCHANGED <<files, git>>

\* ... park and unlink whatever request is on file by now ...
ClearStop ==
    /\ pc = "clear"
    /\ stop' = "none"
    /\ Goto("halt")
    /\ UNCHANGED <<asked, events>> /\ UNCHANGED <<files, git, hand>>

\* ... and halt on the one that was read.
HaltRun ==
    /\ pc = "halt"
    /\ IF honor = "cancel" THEN EndIteration(Cancel(mem))
       ELSE IF CanPause(mem) THEN EndIteration(Pause(mem)) ELSE Raise
    /\ UNCHANGED <<stop, asked, events>> /\ UNCHANGED <<files, git>>

\* The lease of the worktree (module WorkspaceLease) is free, or it is a wait.
\* Taking it drops the kind of a wait a person has lifted, unless a reason (not
\* modelled) is still recorded.
HoldWorkspace ==
    /\ pc = "hold"
    /\ \/ /\ mem' \in {mem} \cup (IF mem.kind = "human" THEN {[mem EXCEPT !.kind = "none"]}
                                                      ELSE {})
          /\ pc' = "begin" /\ UNCHANGED <<disk, behind, lock>> /\ UNCHANGED hand
       \/ EndIteration(WorkspaceBlocked(mem))
    /\ UNCHANGED <<stop, asked, events>> /\ UNCHANGED <<files, git>>

Begin ==
    /\ pc = "begin"
    /\ IF CanBeginIteration(mem)
         THEN WriteState(BeginIteration(mem), IF mem.base = NoTree THEN "base" ELSE "plan")
         ELSE Raise
    /\ UNCHANGED <<stop, asked, events>> /\ UNCHANGED <<files, git>>

\* The first iteration snapshots what it starts from.
SnapshotBase ==
    /\ pc = "base"
    /\ WriteState([mem EXCEPT !.base = tree], "plan")
    /\ UNCHANGED <<stop, asked, events>> /\ UNCHANGED <<files, git>>

\* _budget_or_refusal asks the same bounds again before the provider is called.
DispatchRefused == BudgetExhausted(mem)

\* The planner answers with a plan that asks at least one criterion.
Plan ==
    /\ pc = "plan"
    /\ IF DispatchRefused THEN Raise
       ELSE \E p \in SUBSET Criteria \ {{}} :
              plan' = p /\ Goto("planned") /\ UNCHANGED <<cand, res, honor>>
    /\ UNCHANGED <<stop, asked, events>> /\ UNCHANGED <<files, git>>

\* write_result(plan-i-a+1): refused when that name exists ...
PlanFile == [role |-> "plan", iteration |-> mem.iteration, attempt |-> mem.attempt + 1,
             tree |-> NoTree, res |-> NoResult]

WritePlan ==
    /\ pc = "planned"
    /\ IF Named("plan", mem.iteration, mem.attempt + 1) # {}
         THEN Raise /\ UNCHANGED results
         ELSE Goto("enter") /\ results' = results \cup {PlanFile} /\ UNCHANGED hand
    /\ UNCHANGED <<evid, checks, stop, asked, events>> /\ UNCHANGED git

\* ... and only then does the state name the attempt.
EnterDeveloping ==
    /\ pc = "enter"
    /\ WriteState([Transition(mem, "DEVELOPING") EXCEPT !.attempt = @ + 1], "stop_plan")
    /\ UNCHANGED <<stop, asked, events>> /\ UNCHANGED <<files, git>>

\* The developer leaves any tree behind, committed or not.
Develop ==
    /\ pc = "develop"
    /\ tree' \in Tree /\ head' \in {head, tree'}
    /\ Goto("freeze")
    /\ UNCHANGED <<target, delivery, stop, asked, events>> /\ UNCHANGED <<files, hand>>

FreezeCandidate ==
    /\ pc = "freeze"
    /\ \/ /\ ~behind
          /\ cand' = tree
          /\ disk' = Freeze(mem, tree) /\ mem' = Freeze(mem, tree)
          /\ pc' = "stop_freeze"
          /\ UNCHANGED <<lock, behind, plan, res, honor>>
       \/ behind /\ Raise
    /\ UNCHANGED <<stop, asked, events>> /\ UNCHANGED <<files, git>>

EnterVerifying ==
    /\ pc = "verify"
    /\ WriteState(Transition(mem, "VERIFYING"), "qa")
    /\ UNCHANGED <<stop, asked, events>> /\ UNCHANGED <<files, git>>

\* Mutant: only the plan's own criteria are checked.
ChecksForPlanOnly == plan

\* _checks_for: the plan's criteria and the preservation suite.
ChecksFor == plan \cup checks

Baseline == IF mem.accepted # NoTree THEN mem.accepted ELSE mem.base

\* The receipts a runner and QA can produce for the frozen candidate: a PASS
\* needs a receipt of a green run on it (a check that did not run, and one QA
\* did not confirm, is no PASS); a criterion demonstrates the increment when it
\* is fresh and was red on the predecessor state.
Verdicts ==
    {r \in Result :
        /\ r.checks = ChecksFor
        /\ r.pass \subseteq ChecksFor \cap cand
        /\ r.disc \subseteq (ChecksFor \ checks) \ Baseline
        /\ r.unverified => r.pass = {}}

\* _verify: the verdict holds for the frozen tree only; a worktree that moved
\* during QA, and an arena that cannot be sealed, block the run.
Verify ==
    /\ pc = "qa"
    /\ \/ /\ tree = cand
          /\ res' \in Verdicts
          /\ Goto("judged") /\ UNCHANGED <<plan, cand, honor>>
       \/ \E h \in Contract : EndIteration(BlockUnderContract(mem, FALSE, h))
    /\ UNCHANGED <<stop, asked, events>> /\ UNCHANGED <<files, git>>

QaFile == [role |-> "qa", iteration |-> mem.iteration, attempt |-> mem.attempt,
           tree |-> cand, res |-> res]

WriteQa ==
    /\ pc = "judged"
    /\ IF Named("qa", mem.iteration, mem.attempt) # {}
         THEN Raise /\ UNCHANGED results
         ELSE Goto("evidence") /\ results' = results \cup {QaFile} /\ UNCHANGED hand
    /\ UNCHANGED <<evid, checks, stop, asked, events>> /\ UNCHANGED git

\* The evidence first ...
WriteEvidence ==
    /\ pc = "evidence"
    /\ evid' = evid + 1
    /\ Goto("point")
    /\ UNCHANGED <<results, checks, stop, asked, events>> /\ UNCHANGED <<git, hand>>

\* ... then the pointer to it.
PointAtEvidence ==
    /\ pc = "point"
    /\ WriteState([mem EXCEPT !.evidence = evid], "decide")
    /\ UNCHANGED <<stop, asked, events>> /\ UNCHANGED <<files, git>>

\* RoleResult.accepted
Accepted(r) == r.checks # {} /\ r.pass = r.checks /\ r.disc # {}

\* A green candidate may still be withheld (a criterion an amendment reopened,
\* a weaker route, a pinned test that moved): withheld is that answer.
Decide ==
    /\ pc = "decide"
    /\ \E withheld \in BOOLEAN :
         IF Accepted(res) /\ ~withheld
           THEN Goto("preserve") /\ UNCHANGED hand
           ELSE EndIteration(RejectCandidate(mem, res.unverified))
    /\ UNCHANGED <<stop, asked, events>> /\ UNCHANGED <<files, git>>

\* _record_preserved: what passed becomes the preservation suite ...
RecordPreserved ==
    /\ pc = "preserve"
    /\ checks' = checks \cup res.pass
    /\ Goto("commit")
    /\ UNCHANGED <<results, evid, stop, asked, events>> /\ UNCHANGED <<git, hand>>

\* ... the candidate is committed, if the worktree still carries it; a commit
\* that is refused is noted and overturns nothing ...
CommitCandidate ==
    /\ pc = "commit"
    /\ head' \in {head} \cup (IF tree = cand THEN {cand} ELSE {})
    /\ Goto("accept")
    /\ UNCHANGED <<tree, target, delivery, stop, asked, events>>
    /\ UNCHANGED <<files, hand>>

\* ... and the state records the acceptance.
AcceptCandidate ==
    /\ pc = "accept"
    /\ EndIteration(AcceptCheckpoint(mem, cand))
    /\ UNCHANGED <<stop, asked, events>> /\ UNCHANGED <<files, git>>

-----------------------------------------------------------------------------
(* The ways an iteration ends early (_run_iteration_guarded).              *)

\* A role's dispatch ends in a provider or runtime failure.
RoleFails ==
    /\ pc \in {"plan", "develop", "qa"} /\ ~DispatchRefused
    /\ \E automatic \in BOOLEAN, recorded \in BOOLEAN, h \in Contract :
         EndIteration(FailureWait(mem, automatic, recorded, h))
    /\ UNCHANGED <<stop, asked, events>> /\ UNCHANGED <<files, git>>

\* The witness finds that a role wrote what it may only read.
RoleViolates ==
    /\ pc \in {"plan", "develop", "qa"} /\ ~DispatchRefused
    /\ \E h \in Contract : EndIteration(BlockViolation(mem, h))
    /\ UNCHANGED <<stop, asked, events>> /\ UNCHANGED <<files, git>>

\* Storage admission refuses the dispatch before it is charged.
StorageRefuses ==
    /\ pc \in {"plan", "develop", "qa"}
    /\ \E armed \in BOOLEAN : EndIteration(StoragePark(mem, armed))
    /\ UNCHANGED <<stop, asked, events>> /\ UNCHANGED <<files, git>>

\* Any step may raise before its effect: a full disk, a role that answers
\* nothing usable, an unreadable file.
StepRaises ==
    /\ pc \in IterationPC
    /\ Event /\ Raise
    /\ UNCHANGED <<stop, asked>> /\ UNCHANGED <<files, git>>

\* The driver's process dies; the kernel releases its locks.
Crash ==
    /\ pc # "off"
    /\ Event
    /\ pc' = "off" /\ lock' = (IF pc \in IterationPC THEN "free" ELSE lock)
    /\ mem' = NewState /\ behind' = FALSE /\ EmptyHand
    /\ UNCHANGED <<disk, stop, asked>> /\ UNCHANGED <<files, git>>

\* A process a role left behind, or a person, changes the worktree and may commit it, also
\* while a delivery is under way.
StrayWrite ==
    /\ Event
    /\ tree' \in Tree /\ head' \in {head, tree'}
    /\ delivery' = [delivery EXCEPT
         !.moved = @ \/ (delivery.at \in {"status", "push"} /\ head' # head)]
    /\ UNCHANGED <<target, disk, stop, lock, pc, mem, behind, asked>>
    /\ UNCHANGED <<files, hand>>

-----------------------------------------------------------------------------
(* The operator's commands and the timer's (src/hoh/cli.py, resumeloop.py).*)

\* Mutant: the command does not take the lock.
CommandIgnoresLock(s) ==
    /\ Event
    /\ disk' = s /\ behind' = (pc # "off")
    /\ UNCHANGED <<stop, lock, pc, mem, asked>> /\ UNCHANGED <<files, git, hand>>

\* read_state, a verb, write_state, all under the lock.
Command(s) ==
    /\ lock = "free" /\ Event
    /\ disk' = s /\ behind' = (pc # "off")
    /\ UNCHANGED <<stop, lock, pc, mem, asked>> /\ UNCHANGED <<files, git, hand>>

OpPause == CanPause(disk) /\ Command(Pause(disk))
OpCancel == Command(Cancel(disk))
OpUnblock == CanUnblock(disk) /\ Command(Unblock(disk))

\* hoh resume does not touch a run a driver holds.  Whether the start intents
\* on file can be reconciled is Herdr's answer; an unclear one blocks.
OpResume ==
    /\ pc = "off"
    /\ IF ViolationUnresolved(disk) THEN CanResume(disk) /\ Command(Resume(disk))
       ELSE \/ \E h \in Contract : Command(BlockUnderContract(disk, TRUE, h))
            \/ CanResume(disk) /\ Command(Resume(disk))
            \/ CanUnblock(disk) /\ Command(Unblock(disk))

\* hoh resume-quota: a due provider wait, at most MaxResumes times in a row.
ResumeQuota ==
    /\ disk.condition = "BLOCKED" /\ disk.kind = "automatic"
    /\ disk.resumes < MaxResumes
    /\ Command([Unblock(disk) EXCEPT !.resumes = @ + 1])

\* hoh resume-storage: capacity has returned.
ResumeStorage ==
    /\ disk.condition = "BLOCKED" /\ disk.kind = "storage_pressure"
    /\ Command([Unblock(disk) EXCEPT !.kind = "none"])

\* _halt with the lock held: the operator is told the lock is busy ...
OpFindsLocked ==
    /\ lock # "free" /\ asked = "none" /\ Event
    /\ asked' \in {"pause", "cancel"}
    /\ UNCHANGED <<disk, stop, lock, pc, mem, behind>> /\ UNCHANGED <<files, git, hand>>

\* ... and the request is filed without it.
OpFilesStop ==
    /\ asked # "none"
    /\ stop' = asked /\ asked' = "none"
    /\ UNCHANGED <<disk, lock, pc, mem, behind, events>> /\ UNCHANGED <<files, git, hand>>

\* cmd_deliver takes the lock and reads the state; the modes that push nothing (direct-PR,
\* no-mistakes) go straight to the record.  An override of the contract is written first.
DeliverStart ==
    /\ lock = "free" /\ Event
    /\ ~ViolationUnresolved(disk)
    /\ disk.stage = "CHECKPOINTED"
    /\ disk.accepted # NoTree
    /\ lock' = "deliver"
    /\ \E at \in {"tree", "record"} :
         delivery' = [delivery EXCEPT !.at = at]
    /\ behind' \in {behind, pc # "off"}
    /\ UNCHANGED <<tree, head, target, disk, stop, pc, mem, asked>>
    /\ UNCHANGED <<files, hand>>

\* One git call of deliver(): it answers what the repository is at that moment.
DeliverGoesTo(next) ==
    /\ lock = "deliver"
    /\ delivery' = [delivery EXCEPT !.at = next]
    /\ UNCHANGED <<tree, head, target, disk, stop, lock, pc, mem, behind, asked, events>>
    /\ UNCHANGED <<files, hand>>

\* Mutant: any branch will do, the tree is not compared.
DeliverUncompared ==
    delivery.at = "tree" /\ DeliverGoesTo("status")

\* The branch carries the accepted tree ...
DeliverTree ==
    /\ delivery.at = "tree"
    /\ head = disk.accepted
    /\ DeliverGoesTo("status")

\* ... nothing is uncommitted, the target can be fast-forwarded and nobody has it checked
\* out (the last two may refuse: DeliverStops) ...
DeliverStatus ==
    /\ delivery.at = "status"
    /\ tree = head
    /\ DeliverGoesTo("push")

\* ... and the branch is pushed by its name, whatever it carries by then.
DeliverPush ==
    /\ lock = "deliver" /\ delivery.at = "push"
    /\ target' = head
    /\ delivery' = [delivery EXCEPT !.at = "record",
                                   !.sent = IF delivery.moved THEN "moved" ELSE "checked"]
    /\ UNCHANGED <<tree, head, disk, stop, lock, pc, mem, behind, asked, events>>
    /\ UNCHANGED <<files, hand>>

\* The transition comes after the push.
DeliverRecord ==
    /\ lock = "deliver" /\ delivery.at = "record"
    /\ CanTransition(disk, "READY_FOR_DELIVERY")
    /\ disk' = Transition(disk, "READY_FOR_DELIVERY") /\ behind' = (pc # "off")
    /\ lock' = "free" /\ delivery' = [delivery EXCEPT !.at = "none", !.moved = FALSE]
    /\ UNCHANGED <<tree, head, target, stop, pc, mem, asked, events>>
    /\ UNCHANGED <<files, hand>>

\* A check, the push or the transition refuses, or the process dies: the lock is released.
DeliverStops ==
    /\ lock = "deliver"
    /\ lock' = "free" /\ delivery' = [delivery EXCEPT !.at = "none", !.moved = FALSE]
    /\ UNCHANGED <<tree, head, target, disk, stop, pc, mem, behind, asked, events>>
    /\ UNCHANGED <<files, hand>>

\* A delivery that holds the lock.
Deliver == DeliverTree \/ DeliverStatus \/ DeliverPush \/ DeliverRecord \/ DeliverStops

-----------------------------------------------------------------------------

Driver == \/ RecordIsolation \/ TakeLock \/ LeaveLoop \/ AbortIteration \/ CloseRun
          \/ Gates \/ ReadStop \/ ClearStop \/ HaltRun \/ HoldWorkspace \/ Begin
          \/ SnapshotBase \/ Plan \/ WritePlan \/ EnterDeveloping \/ Develop
          \/ FreezeCandidate \/ EnterVerifying \/ Verify \/ WriteQa \/ WriteEvidence
          \/ PointAtEvidence \/ Decide \/ RecordPreserved \/ CommitCandidate
          \/ AcceptCandidate \/ RoleFails \/ RoleViolates \/ StorageRefuses

Environment == \/ StartRun \/ StepRaises \/ Crash \/ StrayWrite \/ OpPause \/ OpCancel
               \/ OpUnblock \/ OpResume \/ ResumeQuota \/ ResumeStorage
               \/ OpFindsLocked \/ OpFilesStop \/ DeliverStart \/ Deliver

Next == Driver \/ Environment

Spec == Init /\ [][Next]_vars

\* A live driver goes on: every role is bounded by --role-timeout and every
\* check by its own timeout, and a command that holds the lock finishes.
Fairness == WF_vars(Driver) /\ WF_vars(Deliver)
FairSpec == Spec /\ Fairness
-----------------------------------------------------------------------------
(* Properties.                                                             *)

DriverOK == /\ disk \in RunState /\ mem \in RunState /\ behind \in BOOLEAN
            /\ pc \in PC /\ lock \in {"free", "driver", "deliver"}
HandOK == /\ plan \subseteq Criteria /\ cand \in OptTree /\ res \in Result
          /\ honor \in StopKind
FilesOK == results \subseteq File /\ evid \in Nat /\ checks \subseteq Criteria
GitOK == tree \in Tree /\ head \in Tree /\ target \in Tree /\ delivery \in Delivery
OperatorOK == stop \in StopKind /\ asked \in StopKind /\ events \in 0..MaxEvents

\* Every variable keeps to its type.
TypeOK == DriverOK /\ HandOK /\ FilesOK /\ GitOK /\ OperatorOK

\* t has a verdict on file in which every check asked for passed on t itself,
\* and at least one of them demonstrates the increment.
Proven(fs, t) ==
    \E f \in fs : /\ f.role = "qa" /\ f.tree = t
                      /\ f.res.checks # {} /\ f.res.pass = f.res.checks
                      /\ f.res.checks \subseteq t /\ f.res.disc # {}

\* The tree the state calls accepted has a full, discriminating PASS on file,
\* whatever crashed, raised or was commanded on the way (controller.py, the
\* decision after QA, and RoleResult.accepted).
AcceptedIsProven == disk.accepted # NoTree => Proven(results, disk.accepted)

\* What a delivery pushes is a proven tree, although the loop and its roles commit on the
\* run's branch and the checks come several git calls before a push that goes by the branch's
\* name (delivery.py compares HEAD^{tree}, and the run lock keeps the loop off the branch).
\* Not claimed: that a commit somebody else makes after the comparison is kept back ("moved").
DeliveredIsProven == delivery.sent = "checked" => Proven(results, target)

\* Nothing is accepted, or delivered as compared, without its proof on file.
OnlyProven == AcceptedIsProven /\ DeliveredIsProven

\* An acceptance never gives up a criterion an earlier acceptance recorded in the
\* preservation suite, in this or in an earlier process (_checks_for).
NoRegression == [][disk'.accepted # disk.accepted => checks \subseteq disk'.accepted]_vars

\* What becomes accepted is the tree the state had frozen before QA, not what the
\* worktree holds by then (freeze, _verify, accept_checkpoint).
AcceptedWasFrozen ==
    [][disk'.accepted # disk.accepted => disk'.accepted = disk.frozen]_vars

\* The driver never reactivates a run somebody halted behind its back: a halt is
\* lifted by a command only (write_state's fence against a stale object).
HaltLiftedByCommand ==
    [][disk.condition \in HALTED /\ disk'.condition = "ACTIVE" => UNCHANGED <<pc, mem>>]_vars

\* While a role can be dispatched the run is ACTIVE on disk: no command slips a
\* halt in between the fence at begin_iteration and the end of the iteration.
NoDispatchWhileHalted ==
    pc \in {"plan", "develop", "qa"} => disk.condition = "ACTIVE"

\* A run held for a capability violation is never ACTIVE, through any sequence of
\* pauses, resumes, waits, parks and contract outcomes (violation_unresolved).
HeldIsHalted == ViolationUnresolved(disk) => disk.condition \in HALTED

\* A halt holds: against a driver that is about to dispatch, and for a violation.
HaltIsKept == NoDispatchWhileHalted /\ HeldIsHalted

\* The hold is released by unblocking a BLOCKED run and by nothing else: no later
\* block, wait or park relabels it, and no timer counts a resume on it.
HoldIsSticky ==
    [][ViolationUnresolved(disk) /\ ~ViolationUnresolved(disk')
         => /\ disk.condition = "BLOCKED" /\ UNCHANGED <<pc, mem>>
            /\ disk' = Unblock(disk)]_vars

\* Neither a halt nor a hold is lifted by anything but its own command.
OnlyCommandsLift == HaltLiftedByCommand /\ HoldIsSticky

\* Refunds and uncharged replanning never let a run judge more iterations than it
\* was charged for: at a QA dispatch, this iteration and those with a verdict on
\* file are within the count (begin_iteration, _failure_wait).
JudgedIsCharged ==
    pc = "qa" => Cardinality({f.iteration : f \in {g \in results : g.role = "qa"}}
                               \cup {mem.iteration}) <= mem.used

\* No driver loops for ever: every process of `hoh run` ends.
RunTerminates == pc # "off" ~> pc = "off"

\* The run lock is never kept for good.
LockIsReleased == lock # "free" ~> lock = "free"

\* A run ends and leaves its lock to the next.
RunEnds == RunTerminates /\ LockIsReleased

-----------------------------------------------------------------------------
(* The inductive invariant behind AcceptedIsProven: a verdict is on file    *)
(* from the moment it is filed until its candidate is accepted, it speaks of*)
(* the candidate in hand, and the object in memory is as proven as the file.*)

JudgedPC == {"evidence", "point", "decide", "preserve", "commit", "accept"}
DecidedPC == {"preserve", "commit", "accept"}

MemIsProven == mem.accepted # NoTree => Proven(results, mem.accepted)
VerdictOnFile ==
    pc \in JudgedPC => \E f \in results : f.role = "qa" /\ f.tree = cand /\ f.res = res
VerdictIsSound == pc \in JudgedPC \cup {"judged"} => cand \in Tree /\ res.pass \subseteq cand
DecidedIsAccepted == pc \in DecidedPC => Accepted(res)

ProvenInv == /\ AcceptedIsProven /\ MemIsProven
             /\ VerdictOnFile /\ VerdictIsSound /\ DecidedIsAccepted

\* The inductive invariant behind DeliveredIsProven: a delivery holds the lock at every git
\* call, and from the comparison to the push the branch is proven unless somebody else
\* committed on it.
DeliverHoldsLock == delivery.at # "none" <=> lock = "deliver"
ComparedIsProven ==
    delivery.at \in {"status", "push"} /\ ~delivery.moved => Proven(results, head)
DeliveryInv == DeliveredIsProven /\ DeliverHoldsLock /\ ComparedIsProven

-----------------------------------------------------------------------------
(* The inductive invariants behind HaltIsKept, OnlyCommandsLift,            *)
(* AcceptedWasFrozen, NoRegression and JudgedIsCharged.                     *)

\* From the fence at begin_iteration to the last write of an iteration, and from the freeze
\* to the acceptance.
BegunPC == {"base", "plan", "planned", "enter", "stop_plan", "develop", "freeze",
            "stop_freeze", "verify", "qa", "judged"} \cup JudgedPC
FrozenPC == {"stop_freeze", "verify", "qa", "judged"} \cup JudgedPC

\* An object that is not behind says of the run what the file says, until the process closes.
Agree(s, t) == /\ s.condition = t.condition /\ s.stage = t.stage
               /\ s.iteration = t.iteration /\ s.used = t.used
               /\ s.accepted = t.accepted /\ s.frozen = t.frozen
               /\ ViolationUnresolved(s) <=> ViolationUnresolved(t)
InStep == pc \notin {"off", "closing"} /\ ~behind => Agree(mem, disk)
LockIsDrivers == pc \in IterationPC <=> lock = "driver"
BegunIsActive == pc \in BegunPC => ~behind /\ disk.condition = "ACTIVE"
FrozenIsInHand == pc \in FrozenPC => disk.frozen = cand
HaltInv == InStep /\ LockIsDrivers /\ BegunIsActive /\ FrozenIsInHand /\ HeldIsHalted

\* What QA judged covers the preservation suite; once the suite has grown by what passed,
\* the candidate satisfies it.
PreservedInv ==
    /\ pc \in {"judged", "evidence", "point", "decide", "preserve"} => checks \subseteq res.checks
    /\ pc \in {"commit", "accept"} => checks \subseteq cand

\* The iterations with a verdict on file, and those of them a run has been charged for when
\* it stands at a stage: a charge in PLANNING may still be refunded.
Judged == {f.iteration : f \in {g \in results : g.role = "qa"}}
Due(judged, s) ==
    CASE s.stage = "PLANNING" -> judged \ {s.iteration}
      [] s.stage \in {"DEVELOPING", "VERIFYING"} -> judged \cup {s.iteration}
      [] OTHER -> judged
Charged(judged, s) == /\ \A i \in judged : i <= s.iteration
                      /\ Cardinality(Due(judged, s)) <= s.used
FullyCharged(judged, s) == Cardinality(judged \cup {s.iteration}) <= s.used
ChargedInv == /\ IsFiniteSet(Judged) /\ Charged(Judged, disk)
              /\ pc \in BegunPC => FullyCharged(Judged, disk)

-----------------------------------------------------------------------------
(* What a comment says of the run that the code does not keep, refuted by a *)
(* run of its own.                                                         *)

\* An iteration that is repeated finds the name of its plan free (the comment
\* at write_result in _run_iteration_locked).
PlanNameIsFree == pc = "planned" => Named("plan", mem.iteration, mem.attempt + 1) = {}
=============================================================================
