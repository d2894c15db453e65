---------------------------- MODULE Loops_proofs ----------------------------
(***************************************************************************)
(* Proofs about the two loops: the one of a run (RunLoop) and the one of   *)
(* the project (ProjectLoop).                                              *)
(*                                                                         *)
(* The run.  For every set of criteria, every budget, every contract and   *)
(* every number of crashes, commands and stray writes: what is accepted was *)
(* proven (ProvenInv), what halts a run and what lifts a halt (HaltInv),   *)
(* what an acceptance keeps of the earlier ones (PreservedInv), and what a *)
(* run is charged for what it judges (ChargedInv).                         *)
(*                                                                         *)
(* The project.  ProjInv has the file (FileInv), what every session has in *)
(* memory at its place in the drive, master or not (MemInv), and how the   *)
(* present master's memory stands to the file it is about to write         *)
(* (MasterInv); the numbers of the reigns (ReignInv) make sure that there  *)
(* is one such session.  A step of a session is shown to keep it from what *)
(* the step does to that session and from what the others rely on          *)
(* (SessionStep); a step of the world around the sessions (WorldStep) and a *)
(* new reign (NewReign) likewise.                                          *)
(***************************************************************************)
EXTENDS RunLoop, ProjectLoop, FiniteSetTheorems, TLAPS

-----------------------------------------------------------------------------
(* The verbs of Stages keep a RunState a RunState.                         *)

\* Thawing touches the frozen binding only.
LEMMA ThawType ==
    ASSUME NEW s \in RunState
    PROVE  /\ Thaw(s) \in RunState
           /\ Thaw(s).accepted = s.accepted
BY DEF Thaw, RunState, OptTree

\* A transition of stages.py yields a RunState.
LEMMA TransitionType ==
    ASSUME NEW s \in RunState, NEW t \in Stage
    PROVE  /\ Transition(s, t) \in RunState
           /\ Transition(s, t).accepted = s.accepted
<1>1. CASE t = "PLANNING"
  <2>. DEFINE n == s.iteration + 1
              u == [s EXCEPT !.stage = t, !.iteration = n, !.attempt = 0]
  <2>1. u \in RunState /\ u.accepted = s.accepted
    <3>1. n \in Nat
      BY DEF RunState
    <3>. HIDE DEF n
    <3>. QED  BY <3>1 DEF RunState
  <2>2. Transition(s, t) = Thaw(u)
    BY <1>1 DEF Transition
  <2>. QED  BY <2>1, <2>2, ThawType
<1>2. CASE t # "PLANNING"
  BY <1>2 DEF Transition, RunState
<1>. QED  BY <1>1, <1>2

\* begin_iteration yields a RunState and leaves the accepted tree alone.
LEMMA BeginType ==
    ASSUME NEW s \in RunState
    PROVE  BeginIteration(s) \in RunState /\ BeginIteration(s).accepted = s.accepted
<1>1. "PLANNING" \in Stage
  BY DEF Stage
<1>2. CASE s.stage = "PLANNING"
  BY <1>2 DEF BeginIteration, RunState
<1>3. CASE s.stage \in {"DEVELOPING", "VERIFYING"}
  <2>. DEFINE u == [s EXCEPT !.stage = "PLANNING"]
  <2>1. u \in RunState /\ u.accepted = s.accepted
    BY <1>1 DEF RunState
  <2>2. BeginIteration(s) = Thaw(u)
    BY <1>3 DEF BeginIteration
  <2>. QED  BY <2>1, <2>2, ThawType
<1>4. CASE s.stage \notin {"PLANNING", "DEVELOPING", "VERIFYING"}
  <2>1. BeginIteration(s) = [Transition(s, "PLANNING") EXCEPT !.used = @ + 1]
    BY <1>4 DEF BeginIteration
  <2>. QED  BY <2>1, <1>1, TransitionType DEF RunState
<1>. QED  BY <1>2, <1>3, <1>4

\* Relabelling a block yields a RunState.
LEMMA LabelType ==
    ASSUME NEW s \in RunState, NEW k \in Kind
    PROVE  /\ [s EXCEPT !.kind = k] \in RunState
           /\ [s EXCEPT !.kind = k].accepted = s.accepted
BY DEF RunState

\* So does cancelling with a label.
LEMMA CancelType ==
    ASSUME NEW s \in RunState, NEW k \in Kind, NEW x,
           x = [s EXCEPT !.condition = "CANCELLED", !.kind = k]
    PROVE  x \in RunState /\ x.accepted = s.accepted
BY DEF RunState, Condition

\* pause, resume, cancel and fail: the condition, and nothing else.
LEMMA ConditionType ==
    ASSUME NEW s \in RunState
    PROVE  /\ Pause(s) \in RunState /\ Pause(s).accepted = s.accepted
           /\ Resume(s) \in RunState /\ Resume(s).accepted = s.accepted
           /\ Cancel(s) \in RunState /\ Cancel(s).accepted = s.accepted
           /\ Fail(s) \in RunState /\ Fail(s).accepted = s.accepted
           /\ Unblock(s) \in RunState /\ Unblock(s).accepted = s.accepted
BY DEF Pause, Resume, Cancel, Fail, Unblock, RunState, Condition, Kind

\* A block yields a BLOCKED RunState.
LEMMA BlockType ==
    ASSUME NEW s \in RunState, NEW quota \in BOOLEAN
    PROVE  Block(s, quota) \in RunState /\ Block(s, quota).accepted = s.accepted
<1>1. PICK k \in Kind : Block(s, quota) = [s EXCEPT !.condition = "BLOCKED", !.kind = k]
  BY DEF Block, Kind
<1>. QED  BY <1>1 DEF RunState, Condition

\* The same under a contract, whatever it makes of the block.
LEMMA ContractType ==
    ASSUME NEW s \in RunState, NEW quota \in BOOLEAN, NEW h \in Handling
    PROVE  /\ BlockUnderContract(s, quota, h) \in RunState
           /\ BlockUnderContract(s, quota, h).accepted = s.accepted
           /\ BlockViolation(s, h) \in RunState
           /\ BlockViolation(s, h).accepted = s.accepted
<1>1. ASSUME NEW t \in RunState, NEW q \in BOOLEAN
      PROVE  /\ BlockUnderContract(t, q, h) \in RunState
             /\ BlockUnderContract(t, q, h).accepted = t.accepted
  <2>. DEFINE b == Block(t, q)
  <2>1. b \in RunState /\ b.accepted = t.accepted
    BY <1>1, BlockType
  <2>2. b.kind \in Kind /\ "CANCELLED" \in Condition
    <3>. HIDE DEF b
    <3>. QED  BY <2>1 DEF RunState, Condition
  <2>3. CASE h = "none"
    BY <2>1, <2>3 DEF BlockUnderContract
  <2>4. CASE h = "stop"
    <3>1. PICK k \in Kind : BlockUnderContract(t, q, h)
                              = [b EXCEPT !.condition = "CANCELLED", !.kind = k]
      BY <2>2, <2>4 DEF BlockUnderContract, Kind
    <3>. HIDE DEF b
    <3>. QED  BY <2>1, <2>2, <3>1, CancelType, Zenon
  <2>5. CASE h \in {"ask", "park"}
    <3>1. PICK k \in Kind : BlockUnderContract(t, q, h) = [b EXCEPT !.kind = k]
      BY <2>2, <2>5 DEF BlockUnderContract, Kind
    <3>. HIDE DEF b
    <3>. QED  BY <2>1, <2>2, <3>1, LabelType, Zenon
  <2>. QED  BY <2>3, <2>4, <2>5 DEF Handling
<1>2. [s EXCEPT !.kind = "capability_violation"] \in RunState
  BY DEF RunState, Kind
<1>3. [s EXCEPT !.kind = "capability_violation"].accepted = s.accepted
  BY DEF RunState
<1>. QED  BY <1>1, <1>2, <1>3 DEF BlockViolation

\* freeze records the binding, accept_checkpoint the accepted tree.
LEMMA CandidateType ==
    ASSUME NEW s \in RunState, NEW t \in OptTree
    PROVE  /\ Freeze(s, t) \in RunState /\ Freeze(s, t).accepted = s.accepted
           /\ AcceptCheckpoint(s, t) \in RunState
           /\ AcceptCheckpoint(s, t).accepted = t
<1>1. Freeze(s, t) \in RunState /\ Freeze(s, t).accepted = s.accepted
  BY DEF Freeze, RunState
<1>. DEFINE u == Transition(s, "CHECKPOINTED")
            v == [u EXCEPT !.accepted = t, !.loops = 0]
<1>2. u \in RunState
  BY TransitionType DEF Stage
<1>3. v \in RunState /\ v.accepted = t
  <2>. HIDE DEF u
  <2>. QED  BY <1>2 DEF RunState
<1>4. AcceptCheckpoint(s, t) = Thaw(v)
  BY DEF AcceptCheckpoint
<1>. QED
  <2>. HIDE DEF v
  <2>. QED  BY <1>1, <1>3, <1>4, ThawType

\* reject_candidate yields a RunState and leaves the accepted tree alone.
LEMMA RejectType ==
    ASSUME NEW s \in RunState, NEW unverified \in BOOLEAN
    PROVE  /\ RejectCandidate(s, unverified) \in RunState
           /\ RejectCandidate(s, unverified).accepted = s.accepted
<1>. DEFINE u == [s EXCEPT !.loops = IF unverified THEN @ ELSE @ + 1]
<1>1. u \in RunState /\ u.accepted = s.accepted
  BY DEF RunState
<1>2. RejectCandidate(s, unverified) = Transition(u, "PLANNING")
  BY DEF RejectCandidate
<1>3. "PLANNING" \in Stage
  BY DEF Stage
<1>. QED
  <2>. HIDE DEF u
  <2>. QED  BY <1>1, <1>2, <1>3, TransitionType

\* The three waits: a failed role, a worktree held by another, storage pressure.
LEMMA WaitType ==
    ASSUME NEW s \in RunState, NEW a \in BOOLEAN, NEW r \in BOOLEAN, NEW h \in Handling
    PROVE  /\ FailureWait(s, a, r, h) \in RunState
           /\ FailureWait(s, a, r, h).accepted = s.accepted
           /\ WorkspaceBlocked(s) \in RunState
           /\ WorkspaceBlocked(s).accepted = s.accepted
           /\ StoragePark(s, a) \in RunState
           /\ StoragePark(s, a).accepted = s.accepted
<1>1. /\ FailureWait(s, a, r, h) \in RunState
      /\ FailureWait(s, a, r, h).accepted = s.accepted
  <2>. DEFINE u == IF s.stage = "PLANNING" /\ s.used > 0
                     THEN [s EXCEPT !.used = @ - 1] ELSE s
              w == [u EXCEPT !.condition = "BLOCKED", !.kind = "automatic"]
  <2>1. u \in RunState /\ u.accepted = s.accepted
    <3>1. CASE s.stage = "PLANNING" /\ s.used > 0
      <4>1. s.used - 1 \in Nat
        BY <3>1 DEF RunState
      <4>. QED  BY <3>1, <4>1 DEF RunState
    <3>2. CASE ~(s.stage = "PLANNING" /\ s.used > 0)
      BY <3>2
    <3>. QED  BY <3>1, <3>2
  <2>2. FailureWait(s, a, r, h) \in {w, BlockUnderContract(u, FALSE, h)}
    BY DEF FailureWait
  <2>3. w \in RunState /\ w.accepted = u.accepted
    <3>. HIDE DEF u
    <3>. QED  BY <2>1 DEF RunState, Kind, Condition
  <2>. HIDE DEF u, w
  <2>4. /\ BlockUnderContract(u, FALSE, h) \in RunState
        /\ BlockUnderContract(u, FALSE, h).accepted = u.accepted
    BY <2>1, ContractType
  <2>. QED  BY <2>1, <2>2, <2>3, <2>4
<1>2. WorkspaceBlocked(s) \in RunState /\ WorkspaceBlocked(s).accepted = s.accepted
  <2>. DEFINE b == Block(s, FALSE)
  <2>1. b \in RunState /\ b.accepted = s.accepted
    BY BlockType
  <2>2. PICK k \in Kind : WorkspaceBlocked(s) = [b EXCEPT !.kind = k]
    <3>1. b.kind \in Kind
      <4>. HIDE DEF b
      <4>. QED  BY <2>1 DEF RunState
    <3>. QED  BY <3>1 DEF WorkspaceBlocked, Kind
  <2>. HIDE DEF b
  <2>. QED  BY <2>1, <2>2, LabelType, Zenon
<1>3. StoragePark(s, a) \in RunState /\ StoragePark(s, a).accepted = s.accepted
  <2>. DEFINE w == [s EXCEPT !.condition = "BLOCKED", !.kind = "storage_pressure"]
              v == [s EXCEPT !.condition = "PAUSED"]
  <2>1. StoragePark(s, a) \in {Block(s, FALSE), w, v}
    BY DEF StoragePark
  <2>2. w \in RunState /\ w.accepted = s.accepted
    BY DEF RunState, Kind, Condition
  <2>3. v \in RunState /\ v.accepted = s.accepted
    BY DEF RunState, Condition
  <2>4. Block(s, FALSE) \in RunState /\ Block(s, FALSE).accepted = s.accepted
    BY BlockType
  <2>. HIDE DEF v, w
  <2>. QED  BY <2>1, <2>2, <2>3, <2>4
<1>. QED  BY <1>1, <1>2, <1>3

-----------------------------------------------------------------------------
(* The steps every action of the driver is made of.                        *)

\* The state a run starts with is a RunState.
LEMMA NewStateType == NewState \in RunState
BY DEF NewState, RunState, Stage, Condition, Kind, OptTree

\* A dropped hand is typed.
LEMMA EmptyHandType == ASSUME EmptyHand PROVE HandOK'
BY DEF EmptyHand, HandOK, NoResult, Result, OptTree, StopKind

\* An exception leaves everything typed.
LEMMA RaiseType == ASSUME DriverOK, Raise PROVE DriverOK' /\ HandOK'
<1>1. HandOK'
  BY EmptyHandType DEF Raise
<1>2. DriverOK'
  BY DEF DriverOK, Raise, PC
<1>. QED  BY <1>1, <1>2

\* A write of a RunState, refused or not, leaves everything typed.
LEMMA WriteStateType ==
    ASSUME DriverOK, HandOK, NEW s \in RunState, NEW next \in PC, WriteState(s, next)
    PROVE  DriverOK' /\ HandOK'
<1>1. CASE Raise
  BY <1>1, RaiseType
<1>2. CASE ~Raise
  BY <1>2 DEF WriteState, DriverOK, HandOK, hand
<1>. QED  BY <1>1, <1>2

\* The last write of an iteration leaves everything typed.
LEMMA EndIterationType ==
    ASSUME DriverOK, NEW s \in RunState, EndIteration(s)
    PROVE  DriverOK' /\ HandOK'
<1>1. CASE Raise
  BY <1>1, RaiseType
<1>2. CASE ~Raise
  <2>1. HandOK'
    BY <1>2, EmptyHandType DEF EndIteration
  <2>2. [s EXCEPT !.resumes = 0] \in RunState
    BY DEF RunState
  <2>3. DriverOK'
    BY <1>2, <2>2 DEF EndIteration, DriverOK, PC
  <2>. QED  BY <2>1, <2>3
<1>. QED  BY <1>1, <1>2

\* A move of the control point leaves the driver typed.
LEMMA GotoType == ASSUME DriverOK, NEW next \in PC, Goto(next) PROVE DriverOK'
BY DEF Goto, DriverOK

-----------------------------------------------------------------------------
(* Type correctness.                                                       *)

\* What a step leaves alone stays typed.
LEMMA Frames ==
    /\ FilesOK /\ UNCHANGED files => FilesOK'
    /\ GitOK /\ UNCHANGED git => GitOK'
    /\ HandOK /\ UNCHANGED hand => HandOK'
    /\ OperatorOK /\ UNCHANGED <<stop, asked, events>> => OperatorOK'
BY DEF FilesOK, GitOK, HandOK, OperatorOK, files, git, hand

\* A bounded event is counted.
LEMMA EventType == ASSUME OperatorOK, Event PROVE events' \in 0..MaxEvents
BY BoundAssumption DEF OperatorOK, Event

\* A command writes a RunState and nothing else.
LEMMA CommandType ==
    ASSUME TypeOK, NEW s \in RunState, Command(s)
    PROVE  TypeOK'
<1>1. DriverOK'
  BY DEF Command, TypeOK, DriverOK
<1>2. OperatorOK'
  BY EventType DEF Command, TypeOK, OperatorOK
<1>. QED  BY <1>1, <1>2, Frames DEF Command, TypeOK

\* The process around the iterations keeps the types (cli._run_in).
LEMMA ProcessType ==
    ASSUME TypeOK,
           StartRun \/ RecordIsolation \/ TakeLock \/ LeaveLoop \/ AbortIteration \/ CloseRun
    PROVE  TypeOK'
<1>. USE DEF TypeOK
<1>1. CASE StartRun
  <2>1. DriverOK'
    BY <1>1 DEF StartRun, DriverOK, PC
  <2>. QED  BY <1>1, <2>1, Frames DEF StartRun
<1>2. CASE RecordIsolation
  <2>1. DriverOK'
    BY <1>2 DEF RecordIsolation, DriverOK, PC
  <2>. QED  BY <1>2, <2>1, Frames DEF RecordIsolation
<1>3. CASE TakeLock
  <2>1. DriverOK'
    BY <1>3 DEF TakeLock, DriverOK, PC, IterationPC
  <2>. QED  BY <1>3, <2>1, Frames DEF TakeLock
<1>4. CASE LeaveLoop
  <2>1. DriverOK'
    BY <1>4 DEF LeaveLoop, DriverOK, PC
  <2>. QED  BY <1>4, <2>1, Frames DEF LeaveLoop
<1>5. CASE AbortIteration
  <2>1. disk' \in RunState
    BY <1>5, ContractType, ContractAssumption DEF AbortIteration, DriverOK
  <2>2. DriverOK'
    BY <1>5, <2>1 DEF AbortIteration, DriverOK, PC
  <2>. QED  BY <1>5, <2>2, Frames DEF AbortIteration
<1>6. CASE CloseRun
  <2>1. disk' \in RunState
    BY <1>6, ContractType, ConditionType, ContractAssumption DEF CloseRun, DriverOK
  <2>2. DriverOK'
    BY <1>6, <2>1, NewStateType DEF CloseRun, DriverOK, PC
  <2>. QED  BY <1>6, <2>2, Frames DEF CloseRun
<1>. QED  BY <1>1, <1>2, <1>3, <1>4, <1>5, <1>6

\* So does the iteration up to the developer's answer.
LEMMA PlanningType ==
    ASSUME TypeOK,
           \/ Gates \/ ReadStop \/ ClearStop \/ HaltRun \/ HoldWorkspace \/ Begin
           \/ SnapshotBase \/ Plan \/ WritePlan \/ EnterDeveloping \/ Develop
    PROVE  TypeOK'
<1>. USE DEF TypeOK
<1>0. mem \in RunState /\ IterationPC \subseteq PC
  BY DEF DriverOK, PC
<1>1. CASE Gates
  <2>1. CASE Raise
    BY <1>1, <2>1, RaiseType, Frames DEF Gates
  <2>2. CASE UNCHANGED hand /\ Goto("stop_start")
    BY <1>0, <1>1, <2>2, GotoType, Frames DEF Gates, IterationPC
  <2>3. CASE \E h \in Contract : EndIteration(BlockUnderContract(mem, FALSE, h))
    <3>1. DriverOK' /\ HandOK'
      BY <1>0, <2>3, EndIterationType, ContractType, ContractAssumption
    <3>. QED  BY <1>1, <3>1, Frames DEF Gates
  <2>4. CASE WriteState(mem, "stop_start")
    <3>1. DriverOK' /\ HandOK'
      BY <1>0, <2>4, WriteStateType DEF IterationPC
    <3>. QED  BY <1>1, <3>1, Frames DEF Gates
  <2>. QED  BY <1>1, <2>1, <2>2, <2>3, <2>4 DEF Gates
<1>2. CASE ReadStop
  <2>1. DriverOK'
    BY <1>2 DEF ReadStop, Goto, Boundary, DriverOK, PC, IterationPC
  <2>2. HandOK'
    BY <1>2 DEF ReadStop, HandOK, OperatorOK
  <2>. QED  BY <1>2, <2>1, <2>2, Frames DEF ReadStop
<1>3. CASE ClearStop
  <2>1. DriverOK'
    BY <1>0, <1>3, GotoType DEF ClearStop, IterationPC
  <2>2. OperatorOK'
    BY <1>3 DEF ClearStop, OperatorOK, StopKind
  <2>. QED  BY <1>3, <2>1, <2>2, Frames DEF ClearStop
<1>4. CASE HaltRun
  <2>1. DriverOK' /\ HandOK'
    BY <1>0, <1>4, EndIterationType, RaiseType, ConditionType DEF HaltRun
  <2>. QED  BY <1>4, <2>1, Frames DEF HaltRun
<1>5. CASE HoldWorkspace
  <2>1. WorkspaceBlocked(mem) \in RunState
    BY <1>0, WaitType DEF Handling
  <2>2. CASE EndIteration(WorkspaceBlocked(mem))
    <3>1. DriverOK' /\ HandOK'
      BY <1>0, <1>5, <2>1, <2>2, EndIterationType DEF HoldWorkspace
    <3>. QED  BY <1>5, <3>1, Frames DEF HoldWorkspace
  <2>3. CASE ~EndIteration(WorkspaceBlocked(mem))
    <3>1. [mem EXCEPT !.kind = "none"] \in RunState
      BY <1>0, LabelType DEF Kind
    <3>2. mem' \in RunState
      BY <1>0, <1>5, <2>3, <3>1 DEF HoldWorkspace
    <3>3. DriverOK'
      BY <1>0, <1>5, <2>3, <3>2 DEF HoldWorkspace, DriverOK, PC, IterationPC
    <3>. QED  BY <1>5, <2>3, <3>3, Frames DEF HoldWorkspace
  <2>. QED  BY <2>2, <2>3
<1>6. CASE Begin
  <2>1. DriverOK' /\ HandOK'
    BY <1>0, <1>6, WriteStateType, RaiseType, BeginType DEF Begin, IterationPC
  <2>. QED  BY <1>6, <2>1, Frames DEF Begin
<1>7. CASE SnapshotBase
  <2>1. [mem EXCEPT !.base = tree] \in RunState
    BY <1>0 DEF RunState, GitOK, OptTree
  <2>2. DriverOK' /\ HandOK'
    BY <1>0, <1>7, <2>1, WriteStateType DEF SnapshotBase, IterationPC
  <2>. QED  BY <1>7, <2>2, Frames DEF SnapshotBase
<1>8. CASE Plan
  <2>1. CASE Raise
    BY <1>8, <2>1, RaiseType, Frames DEF Plan
  <2>2. CASE ~Raise
    <3>1. DriverOK'
      BY <1>0, <1>8, <2>2, GotoType DEF Plan, IterationPC
    <3>2. HandOK'
      BY <1>8, <2>2 DEF Plan, HandOK
    <3>. QED  BY <1>8, <3>1, <3>2, Frames DEF Plan
  <2>. QED  BY <2>1, <2>2
<1>9. CASE WritePlan
  <2>1. PlanFile \in File
    BY <1>0 DEF PlanFile, File, RunState, OptTree, NoResult, Result
  <2>2. FilesOK'
    BY <1>9, <2>1 DEF WritePlan, FilesOK
  <2>3. DriverOK' /\ HandOK'
    BY <1>0, <1>9, RaiseType, GotoType, Frames DEF WritePlan, IterationPC
  <2>. QED  BY <1>9, <2>2, <2>3, Frames DEF WritePlan
<1>10. CASE EnterDeveloping
  <2>. DEFINE u == Transition(mem, "DEVELOPING")
  <2>1. u \in RunState
    BY <1>0, TransitionType DEF Stage
  <2>2. [u EXCEPT !.attempt = @ + 1] \in RunState
    <3>. HIDE DEF u
    <3>. QED  BY <2>1 DEF RunState
  <2>3. DriverOK' /\ HandOK'
    BY <1>0, <1>10, <2>2, WriteStateType DEF EnterDeveloping, IterationPC
  <2>. QED  BY <1>10, <2>3, Frames DEF EnterDeveloping
<1>11. CASE Develop
  <2>1. DriverOK'
    BY <1>0, <1>11, GotoType DEF Develop, IterationPC
  <2>2. GitOK'
    BY <1>11 DEF Develop, GitOK
  <2>. QED  BY <1>11, <2>1, <2>2, Frames DEF Develop
<1>. QED  BY <1>1, <1>2, <1>3, <1>4, <1>5, <1>6, <1>7, <1>8, <1>9, <1>10, <1>11

\* So does the iteration from the freeze to the acceptance.
LEMMA VerifyingType ==
    ASSUME TypeOK,
           \/ FreezeCandidate \/ EnterVerifying \/ Verify \/ WriteQa \/ WriteEvidence
           \/ PointAtEvidence \/ Decide \/ RecordPreserved \/ CommitCandidate
           \/ AcceptCandidate
    PROVE  TypeOK'
<1>. USE DEF TypeOK
<1>0. mem \in RunState /\ IterationPC \subseteq PC
  BY DEF DriverOK, PC
<1>1. CASE FreezeCandidate
  <2>1. CASE Raise
    BY <1>1, <2>1, RaiseType, Frames DEF FreezeCandidate
  <2>2. CASE ~Raise
    <3>1. tree \in OptTree
      BY DEF GitOK, OptTree
    <3>2. Freeze(mem, tree) \in RunState
      BY <1>0, <3>1, CandidateType
    <3>3. DriverOK'
      BY <1>1, <2>2, <3>2 DEF FreezeCandidate, DriverOK, PC, IterationPC
    <3>4. HandOK'
      BY <1>1, <2>2, <3>1 DEF FreezeCandidate, HandOK
    <3>. QED  BY <1>1, <3>3, <3>4, Frames DEF FreezeCandidate
  <2>. QED  BY <2>1, <2>2
<1>2. CASE EnterVerifying
  <2>1. Transition(mem, "VERIFYING") \in RunState
    BY <1>0, TransitionType DEF Stage
  <2>2. DriverOK' /\ HandOK'
    BY <1>0, <1>2, <2>1, WriteStateType DEF EnterVerifying, IterationPC
  <2>. QED  BY <1>2, <2>2, Frames DEF EnterVerifying
<1>3. CASE Verify
  <2>1. CASE /\ tree = cand /\ res' \in Verdicts
             /\ Goto("judged") /\ UNCHANGED <<plan, cand, honor>>
    <3>1. DriverOK'
      BY <1>0, <1>3, <2>1, GotoType DEF Verify, IterationPC
    <3>2. HandOK'
      BY <1>3, <2>1 DEF Verify, Verdicts, HandOK
    <3>. QED  BY <1>3, <3>1, <3>2, Frames DEF Verify
  <2>2. CASE \E h \in Contract : EndIteration(BlockUnderContract(mem, FALSE, h))
    <3>1. DriverOK' /\ HandOK'
      BY <1>0, <1>3, <2>2, EndIterationType, ContractType, ContractAssumption DEF Verify
    <3>. QED  BY <1>3, <3>1, Frames DEF Verify
  <2>. QED  BY <1>3, <2>1, <2>2 DEF Verify
<1>4. CASE WriteQa
  <2>1. QaFile \in File
    BY <1>0 DEF QaFile, File, RunState, HandOK
  <2>2. FilesOK'
    BY <1>4, <2>1 DEF WriteQa, FilesOK
  <2>3. DriverOK' /\ HandOK'
    BY <1>0, <1>4, RaiseType, GotoType, Frames DEF WriteQa, IterationPC
  <2>. QED  BY <1>4, <2>2, <2>3, Frames DEF WriteQa
<1>5. CASE WriteEvidence
  <2>1. DriverOK'
    BY <1>0, <1>5, GotoType DEF WriteEvidence, IterationPC
  <2>2. FilesOK'
    BY <1>5 DEF WriteEvidence, FilesOK
  <2>. QED  BY <1>5, <2>1, <2>2, Frames DEF WriteEvidence
<1>6. CASE PointAtEvidence
  <2>1. [mem EXCEPT !.evidence = evid] \in RunState
    BY <1>0 DEF RunState, FilesOK
  <2>2. DriverOK' /\ HandOK'
    BY <1>0, <1>6, <2>1, WriteStateType DEF PointAtEvidence, IterationPC
  <2>. QED  BY <1>6, <2>2, Frames DEF PointAtEvidence
<1>7. CASE Decide
  <2>1. RejectCandidate(mem, res.unverified) \in RunState
    BY <1>0, RejectType DEF HandOK, Result
  <2>2. DriverOK' /\ HandOK'
    BY <1>0, <1>7, <2>1, EndIterationType, GotoType, Frames DEF Decide, IterationPC
  <2>. QED  BY <1>7, <2>2, Frames DEF Decide
<1>8. CASE RecordPreserved
  <2>1. DriverOK'
    BY <1>0, <1>8, GotoType DEF RecordPreserved, IterationPC
  <2>2. FilesOK'
    BY <1>8 DEF RecordPreserved, FilesOK, HandOK, Result
  <2>. QED  BY <1>8, <2>1, <2>2, Frames DEF RecordPreserved
<1>9. CASE CommitCandidate
  <2>1. DriverOK'
    BY <1>0, <1>9, GotoType DEF CommitCandidate, IterationPC
  <2>2. GitOK'
    BY <1>9 DEF CommitCandidate, GitOK
  <2>. QED  BY <1>9, <2>1, <2>2, Frames DEF CommitCandidate
<1>10. CASE AcceptCandidate
  <2>1. AcceptCheckpoint(mem, cand) \in RunState
    BY <1>0, CandidateType DEF HandOK
  <2>2. DriverOK' /\ HandOK'
    BY <1>10, <2>1, EndIterationType DEF AcceptCandidate
  <2>. QED  BY <1>10, <2>2, Frames DEF AcceptCandidate
<1>. QED  BY <1>1, <1>2, <1>3, <1>4, <1>5, <1>6, <1>7, <1>8, <1>9, <1>10

\* So do the early ends of an iteration, a crash and a stray write.
LEMMA FailureType ==
    ASSUME TypeOK,
           \/ RoleFails \/ RoleViolates \/ StorageRefuses \/ StepRaises \/ Crash
           \/ StrayWrite
    PROVE  TypeOK'
<1>. USE DEF TypeOK
<1>0. mem \in RunState
  BY DEF DriverOK
<1>1. CASE RoleFails
  <2>1. DriverOK' /\ HandOK'
    BY <1>0, <1>1, EndIterationType, WaitType, ContractAssumption DEF RoleFails
  <2>. QED  BY <1>1, <2>1, Frames DEF RoleFails
<1>2. CASE RoleViolates
  <2>1. DriverOK' /\ HandOK'
    BY <1>0, <1>2, EndIterationType, ContractType, ContractAssumption DEF RoleViolates
  <2>. QED  BY <1>2, <2>1, Frames DEF RoleViolates
<1>3. CASE StorageRefuses
  <2>1. \A a \in BOOLEAN : StoragePark(mem, a) \in RunState
    BY <1>0, WaitType DEF Handling
  <2>2. DriverOK' /\ HandOK'
    BY <1>3, <2>1, EndIterationType DEF StorageRefuses
  <2>. QED  BY <1>3, <2>2, Frames DEF StorageRefuses
<1>4. CASE StepRaises
  <2>1. OperatorOK'
    BY <1>4, EventType DEF StepRaises, OperatorOK
  <2>. QED  BY <1>4, <2>1, RaiseType, Frames DEF StepRaises
<1>5. CASE Crash
  <2>1. DriverOK'
    BY <1>5, NewStateType DEF Crash, DriverOK, PC
  <2>2. OperatorOK'
    BY <1>5, EventType DEF Crash, OperatorOK
  <2>. QED  BY <1>5, <2>1, <2>2, EmptyHandType, Frames DEF Crash
<1>6. CASE StrayWrite
  <2>1. DriverOK'
    BY <1>6 DEF StrayWrite, DriverOK
  <2>2. OperatorOK'
    BY <1>6, EventType DEF StrayWrite, OperatorOK
  <2>3. GitOK'
    BY <1>6 DEF StrayWrite, GitOK, Delivery
  <2>. QED  BY <1>6, <2>1, <2>2, <2>3, Frames DEF StrayWrite
<1>. QED  BY <1>1, <1>2, <1>3, <1>4, <1>5, <1>6

\* So do the commands of operator and timer.
LEMMA OperatorType ==
    ASSUME TypeOK,
           \/ OpPause \/ OpCancel \/ OpUnblock \/ OpResume \/ ResumeQuota \/ ResumeStorage
           \/ OpFindsLocked \/ OpFilesStop \/ DeliverStart \/ Deliver
    PROVE  TypeOK'
<1>0. disk \in RunState
  BY DEF TypeOK, DriverOK
<1>1. CASE OpPause \/ OpCancel \/ OpUnblock
  BY <1>0, <1>1, CommandType, ConditionType DEF OpPause, OpCancel, OpUnblock
<1>2. CASE OpResume
  BY <1>0, <1>2, CommandType, ConditionType, ContractType, ContractAssumption DEF OpResume
<1>3. CASE ResumeQuota \/ ResumeStorage
  <2>. DEFINE u == Unblock(disk)
  <2>1. u \in RunState
    BY <1>0, ConditionType
  <2>. HIDE DEF u
  <2>2. /\ [u EXCEPT !.resumes = @ + 1] \in RunState
        /\ [u EXCEPT !.kind = "none"] \in RunState
    BY <2>1 DEF RunState, Kind
  <2>. QED  BY <1>3, <2>2, CommandType DEF ResumeQuota, ResumeStorage, u
<1>4. CASE OpFindsLocked \/ OpFilesStop
  <2>1. DriverOK'
    BY <1>4 DEF OpFindsLocked, OpFilesStop, TypeOK, DriverOK
  <2>2. OperatorOK'
    BY <1>4, EventType DEF OpFindsLocked, OpFilesStop, TypeOK, OperatorOK, StopKind
  <2>. QED  BY <1>4, <2>1, <2>2, Frames DEF OpFindsLocked, OpFilesStop, TypeOK
<1>5. CASE DeliverStart
  <2>1. DriverOK'
    BY <1>5 DEF DeliverStart, TypeOK, DriverOK
  <2>2. OperatorOK'
    BY <1>5, EventType DEF DeliverStart, TypeOK, OperatorOK
  <2>3. GitOK'
    BY <1>5 DEF DeliverStart, TypeOK, GitOK, Delivery
  <2>. QED  BY <1>5, <2>1, <2>2, <2>3, Frames DEF DeliverStart, TypeOK
<1>6. CASE Deliver
  <2>. USE DEF Deliver, DeliverTree, DeliverStatus, DeliverGoesTo, DeliverPush, DeliverRecord,
               DeliverStops
  <2>1. Transition(disk, "READY_FOR_DELIVERY") \in RunState
    BY <1>0, TransitionType DEF Stage
  <2>2. DriverOK'
    BY <1>6, <2>1 DEF TypeOK, DriverOK
  <2>3. GitOK'
    BY <1>6 DEF TypeOK, GitOK, Delivery
  <2>. QED  BY <1>6, <2>2, <2>3, Frames DEF TypeOK
<1>. QED  BY <1>1, <1>2, <1>3, <1>4, <1>5, <1>6

\* One step of the run keeps the types.
LEMMA TypeStep == ASSUME TypeOK, [Next]_vars PROVE TypeOK'
<1>1. CASE Driver
  BY <1>1, ProcessType, PlanningType, VerifyingType, FailureType DEF Driver
<1>2. CASE Environment
  BY <1>2, ProcessType, FailureType, OperatorType DEF Environment
<1>3. CASE UNCHANGED vars
  <2>1. DriverOK'
    BY <1>3 DEF vars, TypeOK, DriverOK
  <2>. QED  BY <1>3, <2>1, Frames DEF vars, files, git, hand, TypeOK
<1>. QED  BY <1>1, <1>2, <1>3 DEF Next

\* Every variable of the run keeps to its type, whatever crashes, raises or is
\* commanded (the whole of RunLoop).
THEOREM Typing == Spec => []TypeOK
<1>1. Init => TypeOK
  <2>. SUFFICES ASSUME Init PROVE TypeOK
    OBVIOUS
  <2>1. DriverOK
    BY NewStateType DEF Init, DriverOK, PC
  <2>2. HandOK
    BY DEF Init, HandOK, NoResult, Result, OptTree, StopKind
  <2>3. FilesOK /\ GitOK
    BY InitTreeAssumption DEF Init, FilesOK, GitOK, NoDelivery, Delivery
  <2>4. OperatorOK
    BY BoundAssumption DEF Init, OperatorOK, StopKind
  <2>. QED  BY <2>1, <2>2, <2>3, <2>4 DEF TypeOK
<1>2. TypeOK /\ [Next]_vars => TypeOK'
  BY TypeStep
<1>. QED  BY <1>1, <1>2, PTL DEF Spec

-----------------------------------------------------------------------------
(* Acceptance is proven.  A step either keeps what is accepted (Kept) or is *)
(* AcceptCandidate; a step either is away from a verdict (Quiet), stays at  *)
(* it (Still), or is one of the steps between the verdict and the decision. *)

Kept == /\ results \subseteq results'
        /\ disk'.accepted \in {disk.accepted, mem.accepted}
        /\ mem'.accepted \in {disk.accepted, mem.accepted, NoTree}

Quiet == pc' \notin JudgedPC \cup {"judged"}
Still == pc' = pc /\ cand' = cand /\ res' = res

\* A verdict on file stays on file.
LEMMA ProvenGrows ==
    ASSUME NEW old, NEW new, old \subseteq new, NEW t, Proven(old, t)
    PROVE  Proven(new, t)
BY DEF Proven

\* Keeping what is accepted keeps it proven.
LEMMA KeptProven ==
    ASSUME ProvenInv, Kept
    PROVE  AcceptedIsProven' /\ MemIsProven'
<1>1. \A t : Proven(results, t) => Proven(results', t)
  BY ProvenGrows DEF Kept
<1>2. AcceptedIsProven'
  BY <1>1 DEF ProvenInv, AcceptedIsProven, MemIsProven, Kept
<1>3. MemIsProven'
  BY <1>1 DEF ProvenInv, AcceptedIsProven, MemIsProven, Kept
<1>. QED  BY <1>2, <1>3

\* Away from a verdict nothing is claimed of it.
LEMMA QuietProven ==
    ASSUME ProvenInv, Kept, Quiet PROVE ProvenInv'
<1>1. VerdictOnFile' /\ VerdictIsSound' /\ DecidedIsAccepted'
  BY DEF Quiet, VerdictOnFile, VerdictIsSound, DecidedIsAccepted, JudgedPC, DecidedPC
<1>. QED  BY <1>1, KeptProven DEF ProvenInv

\* A step of somebody else leaves a verdict as it is.
LEMMA StillProven ==
    ASSUME ProvenInv, Kept, Still PROVE ProvenInv'
<1>1. VerdictOnFile'
  BY DEF ProvenInv, Kept, Still, VerdictOnFile
<1>2. VerdictIsSound' /\ DecidedIsAccepted'
  BY DEF ProvenInv, Still, VerdictIsSound, DecidedIsAccepted, Accepted
<1>. QED  BY <1>1, <1>2, KeptProven DEF ProvenInv

\* An exception keeps what is accepted.
LEMMA RaiseKept ==
    ASSUME Raise, results \subseteq results' PROVE Kept /\ Quiet
BY DEF Raise, Kept, Quiet, JudgedPC

\* So does a write of a state with the accepted tree of the object in memory.
LEMMA WriteKept ==
    ASSUME NEW s \in RunState, s.accepted = mem.accepted, NEW next,
           WriteState(s, next), UNCHANGED results
    PROVE  /\ Kept
           /\ Raise \/ (pc' = next /\ cand' = cand /\ res' = res)
<1>1. CASE Raise
  BY <1>1, RaiseKept
<1>2. CASE ~Raise
  BY <1>2 DEF WriteState, Kept, hand
<1>. QED  BY <1>1, <1>2

\* So does the last write of an iteration.
LEMMA EndKept ==
    ASSUME NEW s \in RunState, s.accepted = mem.accepted,
           EndIteration(s), UNCHANGED results
    PROVE  Kept /\ Quiet
<1>1. CASE Raise
  BY <1>1, RaiseKept
<1>2. CASE ~Raise
  <2>1. [s EXCEPT !.resumes = 0].accepted = s.accepted
    BY DEF RunState
  <2>2. disk' = s /\ mem'.accepted = s.accepted /\ pc' = "between" /\ lock' = "free"
    BY <1>2, <2>1 DEF EndIteration
  <2>. QED  BY <2>2 DEF Kept, Quiet, JudgedPC
<1>. QED  BY <1>1, <1>2

\* A move of the control point, and a command, keep what is accepted.
LEMMA GotoKept ==
    ASSUME NEW next, Goto(next), results \subseteq results' PROVE Kept
BY DEF Goto, Kept

\* A command that leaves the accepted tree alone keeps it.
LEMMA CommandKept ==
    ASSUME NEW s, s.accepted = disk.accepted, Command(s) PROVE Kept /\ Still
BY DEF Command, Kept, Still, files, git, hand
\* The process around the iterations accepts nothing.
LEMMA ProcessProven ==
    ASSUME TypeOK, ProvenInv,
           StartRun \/ RecordIsolation \/ TakeLock \/ LeaveLoop \/ AbortIteration \/ CloseRun
    PROVE  ProvenInv'
<1>0. disk \in RunState
  BY DEF TypeOK, DriverOK
<1>00. \A h \in Contract : /\ BlockUnderContract(disk, FALSE, h).accepted = disk.accepted
                          /\ BlockViolation(disk, h).accepted = disk.accepted
  BY <1>0, ContractType, ContractAssumption
<1>1. CASE StartRun \/ TakeLock \/ LeaveLoop
  <2>1. Kept /\ Quiet
    BY <1>1 DEF StartRun, TakeLock, LeaveLoop, Kept, Quiet, JudgedPC, files, git
  <2>. QED  BY <2>1, QuietProven
<1>2. CASE RecordIsolation
  <2>1. Kept /\ Quiet
    BY <1>2 DEF RecordIsolation, Kept, Quiet, JudgedPC, files, git
  <2>. QED  BY <2>1, QuietProven
<1>3. CASE AbortIteration
  <2>1. disk'.accepted = disk.accepted
    <3>1. \/ UNCHANGED disk
          \/ \E h \in Contract : disk' = BlockUnderContract(disk, FALSE, h)
      BY <1>3 DEF AbortIteration
    <3>2. CASE \E h \in Contract : disk' = BlockUnderContract(disk, FALSE, h)
      <4>1. PICK h \in Contract : disk' = BlockUnderContract(disk, FALSE, h)
        BY <3>2
      <4>2. BlockUnderContract(disk, FALSE, h).accepted = disk.accepted
        BY <1>00
      <4>. QED  BY <4>1, <4>2
    <3>. QED  BY <3>1, <3>2
  <2>2. Kept /\ Quiet
    BY <1>3, <2>1 DEF AbortIteration, Kept, Quiet, JudgedPC, files, git
  <2>. QED  BY <2>2, QuietProven
<1>4. CASE CloseRun
  <2>1. disk'.accepted = disk.accepted
    BY <1>0, <1>00, <1>4, ConditionType DEF CloseRun
  <2>2. mem'.accepted = NoTree
    BY <1>4 DEF CloseRun, NewState
  <2>3. Kept /\ Quiet
    BY <1>4, <2>1, <2>2 DEF CloseRun, Kept, Quiet, JudgedPC, files, git
  <2>. QED  BY <2>3, QuietProven
<1>. QED  BY <1>1, <1>2, <1>3, <1>4

\* Nothing is accepted up to the verdict.
LEMMA PlanningProven ==
    ASSUME TypeOK, ProvenInv,
           \/ Gates \/ ReadStop \/ ClearStop \/ HaltRun \/ HoldWorkspace \/ Begin
           \/ SnapshotBase \/ Plan \/ WritePlan \/ EnterDeveloping \/ Develop
           \/ FreezeCandidate \/ EnterVerifying
    PROVE  ProvenInv'
<1>0. mem \in RunState
  BY DEF TypeOK, DriverOK
<1>. SUFFICES Kept /\ Quiet
  BY QuietProven
<1>. USE DEF files, git
<1>1. CASE Gates
  <2>1. CASE Raise
    BY <1>1, <2>1, RaiseKept DEF Gates
  <2>2. CASE Goto("stop_start")
    BY <1>1, <2>2, GotoKept DEF Gates, Goto, Quiet, JudgedPC
  <2>3. CASE \E h \in Contract : EndIteration(BlockUnderContract(mem, FALSE, h))
    BY <1>0, <1>1, <2>3, EndKept, ContractType, ContractAssumption DEF Gates
  <2>4. CASE WriteState(mem, "stop_start")
    <3>1. Kept /\ (Raise \/ pc' = "stop_start")
      BY <1>0, <1>1, <2>4, WriteKept DEF Gates
    <3>. QED  BY <3>1 DEF Raise, Quiet, JudgedPC
  <2>. QED  BY <1>1, <2>1, <2>2, <2>3, <2>4 DEF Gates
<1>2. CASE ReadStop
  BY <1>2 DEF ReadStop, Goto, Boundary, Kept, Quiet, JudgedPC
<1>3. CASE ClearStop
  BY <1>3 DEF ClearStop, Goto, Kept, Quiet, JudgedPC
<1>4. CASE HaltRun
  BY <1>0, <1>4, EndKept, RaiseKept, ConditionType DEF HaltRun
<1>5. CASE HoldWorkspace
  <2>1. WorkspaceBlocked(mem) \in RunState /\ WorkspaceBlocked(mem).accepted = mem.accepted
    BY <1>0, WaitType DEF Handling
  <2>2. CASE EndIteration(WorkspaceBlocked(mem))
    BY <1>5, <2>1, <2>2, EndKept DEF HoldWorkspace
  <2>3. CASE ~EndIteration(WorkspaceBlocked(mem))
    <3>1. [mem EXCEPT !.kind = "none"].accepted = mem.accepted
      BY <1>0, LabelType DEF Kind
    <3>2. mem'.accepted = mem.accepted
      BY <1>5, <2>3, <3>1 DEF HoldWorkspace
    <3>. QED  BY <1>5, <2>3, <3>2 DEF HoldWorkspace, Kept, Quiet, JudgedPC
  <2>. QED  BY <2>2, <2>3
<1>6. CASE Begin
  <2>1. CASE Raise
    BY <1>6, <2>1, RaiseKept DEF Begin
  <2>2. CASE ~Raise
    BY <1>0, <1>6, <2>2, WriteKept, BeginType DEF Begin, Quiet, JudgedPC
  <2>. QED  BY <2>1, <2>2
<1>7. CASE SnapshotBase
  <2>1. [mem EXCEPT !.base = tree] \in RunState
    BY <1>0 DEF RunState, TypeOK, GitOK, OptTree
  <2>2. [mem EXCEPT !.base = tree].accepted = mem.accepted
    BY <1>0 DEF RunState
  <2>3. Kept /\ (Raise \/ pc' = "plan")
    BY <1>7, <2>1, <2>2, WriteKept DEF SnapshotBase
  <2>. QED  BY <2>3 DEF Raise, Quiet, JudgedPC
<1>8. CASE Plan
  <2>1. CASE Raise
    BY <1>8, <2>1, RaiseKept DEF Plan
  <2>2. CASE ~Raise
    BY <1>8, <2>2 DEF Plan, Goto, Kept, Quiet, JudgedPC
  <2>. QED  BY <2>1, <2>2
<1>9. CASE WritePlan
  <2>1. CASE Raise
    BY <1>9, <2>1, RaiseKept DEF WritePlan
  <2>2. CASE ~Raise
    BY <1>9, <2>2 DEF WritePlan, Goto, Kept, Quiet, JudgedPC
  <2>. QED  BY <2>1, <2>2
<1>10. CASE EnterDeveloping
  <2>. DEFINE u == Transition(mem, "DEVELOPING")
              v == [u EXCEPT !.attempt = @ + 1]
  <2>1. u \in RunState /\ u.accepted = mem.accepted
    BY <1>0, TransitionType DEF Stage
  <2>2. v \in RunState /\ v.accepted = mem.accepted
    <3>. HIDE DEF u
    <3>. QED  BY <2>1 DEF RunState
  <2>3. WriteState(v, "stop_plan") /\ UNCHANGED results
    BY <1>10 DEF EnterDeveloping
  <2>4. Kept /\ (Raise \/ pc' = "stop_plan")
    <3>. HIDE DEF v
    <3>. QED  BY <2>2, <2>3, WriteKept
  <2>. QED  BY <2>4 DEF Raise, Quiet, JudgedPC
<1>11. CASE Develop
  BY <1>11 DEF Develop, Goto, Kept, Quiet, JudgedPC
<1>12. CASE FreezeCandidate
  <2>1. CASE Raise
    BY <1>12, <2>1, RaiseKept DEF FreezeCandidate
  <2>2. CASE ~Raise
    <3>1. Freeze(mem, tree).accepted = mem.accepted
      BY <1>0, CandidateType DEF TypeOK, GitOK, OptTree
    <3>. QED  BY <1>12, <2>2, <3>1 DEF FreezeCandidate, Kept, Quiet, JudgedPC
  <2>. QED  BY <2>1, <2>2
<1>13. CASE EnterVerifying
  <2>1. /\ Transition(mem, "VERIFYING") \in RunState
        /\ Transition(mem, "VERIFYING").accepted = mem.accepted
    BY <1>0, TransitionType DEF Stage
  <2>2. Kept /\ (Raise \/ pc' = "qa")
    BY <1>13, <2>1, WriteKept DEF EnterVerifying
  <2>. QED  BY <2>2 DEF Raise, Quiet, JudgedPC
<1>. QED  BY <1>1, <1>2, <1>3, <1>4, <1>5, <1>6, <1>7, <1>8, <1>9, <1>10, <1>11, <1>12, <1>13

\* From the verdict to the decision: the verdict is filed and stays the candidate's.
LEMMA VerdictProven ==
    ASSUME TypeOK, ProvenInv,
           \/ Verify \/ WriteQa \/ WriteEvidence \/ PointAtEvidence \/ Decide
           \/ RecordPreserved \/ CommitCandidate
    PROVE  ProvenInv'
<1>0. mem \in RunState /\ res \in Result
  BY DEF TypeOK, DriverOK, HandOK
<1>. USE DEF files, git, hand
<1>1. CASE Verify
  <2>1. CASE /\ tree = cand /\ res' \in Verdicts
             /\ Goto("judged") /\ UNCHANGED <<plan, cand, honor>>
    <3>1. Kept
      BY <1>1, <2>1 DEF Verify, Goto, Kept
    <3>2. VerdictIsSound'
      BY <1>1, <2>1 DEF Verify, Verdicts, VerdictIsSound, TypeOK, GitOK
    <3>3. VerdictOnFile' /\ DecidedIsAccepted'
      BY <1>1, <2>1 DEF Verify, Goto, VerdictOnFile, DecidedIsAccepted, JudgedPC, DecidedPC
    <3>. QED  BY <3>1, <3>2, <3>3, KeptProven DEF ProvenInv
  <2>2. CASE \E h \in Contract : EndIteration(BlockUnderContract(mem, FALSE, h))
    <3>1. Kept /\ Quiet
      BY <1>0, <1>1, <2>2, EndKept, ContractType, ContractAssumption DEF Verify
    <3>. QED  BY <3>1, QuietProven
  <2>. QED  BY <1>1, <2>1, <2>2 DEF Verify
<1>2. CASE WriteQa
  <2>1. CASE Raise
    BY <1>2, <2>1, RaiseKept, QuietProven DEF WriteQa
  <2>2. CASE ~Raise
    <3>1. Kept
      BY <1>2, <2>2 DEF WriteQa, Goto, Kept
    <3>2. VerdictOnFile'
      <4>1. QaFile \in results' /\ cand' = cand /\ res' = res
        BY <1>2, <2>2 DEF WriteQa
      <4>2. QaFile.role = "qa" /\ QaFile.tree = cand /\ QaFile.res = res
        BY DEF QaFile
      <4>. QED  BY <4>1, <4>2 DEF VerdictOnFile
    <3>3. VerdictIsSound' /\ DecidedIsAccepted'
      BY <1>2, <2>2 DEF WriteQa, Goto, ProvenInv, VerdictIsSound, DecidedIsAccepted, DecidedPC
    <3>. QED  BY <3>1, <3>2, <3>3, KeptProven DEF ProvenInv
  <2>. QED  BY <2>1, <2>2
<1>3. CASE WriteEvidence
  <2>1. Kept
    BY <1>3 DEF WriteEvidence, Goto, Kept
  <2>2. VerdictOnFile' /\ VerdictIsSound' /\ DecidedIsAccepted'
    BY <1>3 DEF WriteEvidence, Goto, ProvenInv, VerdictOnFile, VerdictIsSound,
                DecidedIsAccepted, JudgedPC, DecidedPC
  <2>. QED  BY <2>1, <2>2, KeptProven DEF ProvenInv
<1>4. CASE PointAtEvidence
  <2>. DEFINE u == [mem EXCEPT !.evidence = evid]
  <2>1. u \in RunState /\ u.accepted = mem.accepted
    BY <1>0 DEF RunState, TypeOK, FilesOK
  <2>2. WriteState(u, "decide") /\ UNCHANGED results /\ pc = "point"
    BY <1>4 DEF PointAtEvidence
  <2>3. Kept /\ (Raise \/ (pc' = "decide" /\ cand' = cand /\ res' = res))
    <3>. HIDE DEF u
    <3>. QED  BY <2>1, <2>2, WriteKept
  <2>4. CASE Raise
    BY <2>2, <2>4, RaiseKept, QuietProven
  <2>5. CASE ~Raise
    <3>1. VerdictOnFile' /\ VerdictIsSound' /\ DecidedIsAccepted'
      BY <2>2, <2>3, <2>5 DEF ProvenInv, VerdictOnFile, VerdictIsSound, DecidedIsAccepted,
                              JudgedPC, DecidedPC
    <3>. QED  BY <2>3, <3>1, KeptProven DEF ProvenInv
  <2>. QED  BY <2>4, <2>5
<1>5. CASE Decide
  <2>1. CASE EndIteration(RejectCandidate(mem, res.unverified))
    <3>1. /\ RejectCandidate(mem, res.unverified) \in RunState
          /\ RejectCandidate(mem, res.unverified).accepted = mem.accepted
      BY <1>0, RejectType DEF Result
    <3>2. Kept /\ Quiet
      BY <1>5, <2>1, <3>1, EndKept DEF Decide
    <3>. QED  BY <3>2, QuietProven
  <2>2. CASE Accepted(res) /\ Goto("preserve") /\ UNCHANGED hand
    <3>1. Kept
      BY <1>5, <2>2 DEF Decide, Goto, Kept
    <3>2. VerdictOnFile' /\ VerdictIsSound' /\ DecidedIsAccepted'
      BY <1>5, <2>2 DEF Decide, Goto, ProvenInv, VerdictOnFile, VerdictIsSound,
                        DecidedIsAccepted, JudgedPC, Accepted
    <3>. QED  BY <3>1, <3>2, KeptProven DEF ProvenInv
  <2>. QED  BY <1>5, <2>1, <2>2 DEF Decide
<1>6. CASE RecordPreserved \/ CommitCandidate
  <2>1. Kept
    BY <1>6 DEF RecordPreserved, CommitCandidate, Goto, Kept
  <2>2. VerdictOnFile' /\ VerdictIsSound' /\ DecidedIsAccepted'
    BY <1>6 DEF RecordPreserved, CommitCandidate, Goto, ProvenInv, VerdictOnFile,
                VerdictIsSound, DecidedIsAccepted, JudgedPC, DecidedPC, Accepted
  <2>. QED  BY <2>1, <2>2, KeptProven DEF ProvenInv
<1>. QED  BY <1>1, <1>2, <1>3, <1>4, <1>5, <1>6

\* The one step that accepts: what it records has its verdict on file.
LEMMA AcceptProven ==
    ASSUME TypeOK, ProvenInv, AcceptCandidate
    PROVE  ProvenInv'
<1>0. mem \in RunState /\ cand \in OptTree
  BY DEF TypeOK, DriverOK, HandOK
<1>1. Proven(results, cand)
  <2>1. PICK f \in results : f.role = "qa" /\ f.tree = cand /\ f.res = res
    BY DEF AcceptCandidate, ProvenInv, VerdictOnFile, JudgedPC
  <2>2. Accepted(res) /\ res.pass \subseteq cand
    BY DEF AcceptCandidate, ProvenInv, VerdictIsSound, DecidedIsAccepted, JudgedPC, DecidedPC
  <2>. QED  BY <2>1, <2>2 DEF Proven, Accepted
<1>2. CASE Raise
  BY <1>2, RaiseKept, QuietProven DEF AcceptCandidate, files, git
<1>3. CASE ~Raise
  <2>. DEFINE s == AcceptCheckpoint(mem, cand)
  <2>1. s \in RunState /\ s.accepted = cand
    BY <1>0, CandidateType
  <2>2. disk' = s /\ mem' = [s EXCEPT !.resumes = 0] /\ pc' = "between" /\ lock' = "free"
    BY <1>3 DEF AcceptCandidate, EndIteration
  <2>. HIDE DEF s
  <2>3. disk'.accepted = cand /\ mem'.accepted = cand
    BY <2>1, <2>2 DEF RunState
  <2>4. AcceptedIsProven' /\ MemIsProven'
    BY <1>1, <2>2, <2>3 DEF AcceptCandidate, files, AcceptedIsProven, MemIsProven
  <2>5. VerdictOnFile' /\ VerdictIsSound' /\ DecidedIsAccepted'
    BY <2>2 DEF VerdictOnFile, VerdictIsSound, DecidedIsAccepted, JudgedPC, DecidedPC
  <2>. QED  BY <2>4, <2>5 DEF ProvenInv
<1>. QED  BY <1>2, <1>3

\* The early ends of an iteration, a crash and a stray write accept nothing.
LEMMA FailureProven ==
    ASSUME TypeOK, ProvenInv,
           \/ RoleFails \/ RoleViolates \/ StorageRefuses \/ StepRaises \/ Crash
           \/ StrayWrite
    PROVE  ProvenInv'
<1>0. mem \in RunState
  BY DEF TypeOK, DriverOK
<1>. USE DEF files, git, hand
<1>1. CASE RoleFails
  <2>1. Kept /\ Quiet
    BY <1>0, <1>1, EndKept, WaitType, ContractAssumption DEF RoleFails
  <2>. QED  BY <2>1, QuietProven
<1>2. CASE RoleViolates
  <2>1. Kept /\ Quiet
    BY <1>0, <1>2, EndKept, ContractType, ContractAssumption DEF RoleViolates
  <2>. QED  BY <2>1, QuietProven
<1>3. CASE StorageRefuses
  <2>1. \A a \in BOOLEAN : /\ StoragePark(mem, a) \in RunState
                           /\ StoragePark(mem, a).accepted = mem.accepted
    BY <1>0, WaitType DEF Handling
  <2>2. Kept /\ Quiet
    BY <1>3, <2>1, EndKept DEF StorageRefuses
  <2>. QED  BY <2>2, QuietProven
<1>4. CASE StepRaises
  BY <1>4, RaiseKept, QuietProven DEF StepRaises
<1>5. CASE Crash
  <2>1. Kept /\ Quiet
    BY <1>5 DEF Crash, NewState, Kept, Quiet, JudgedPC
  <2>. QED  BY <2>1, QuietProven
<1>6. CASE StrayWrite
  <2>1. Kept /\ Still
    BY <1>6 DEF StrayWrite, Kept, Still
  <2>. QED  BY <2>1, StillProven
<1>. QED  BY <1>1, <1>2, <1>3, <1>4, <1>5, <1>6

\* No command accepts anything, nor does a delivery.
LEMMA OperatorProven ==
    ASSUME TypeOK, ProvenInv,
           \/ OpPause \/ OpCancel \/ OpUnblock \/ OpResume \/ ResumeQuota \/ ResumeStorage
           \/ OpFindsLocked \/ OpFilesStop \/ DeliverStart \/ Deliver
    PROVE  ProvenInv'
<1>0. disk \in RunState
  BY DEF TypeOK, DriverOK
<1>1. CASE OpPause \/ OpCancel \/ OpUnblock
  <2>1. Kept /\ Still
    BY <1>0, <1>1, CommandKept, ConditionType DEF OpPause, OpCancel, OpUnblock
  <2>. QED  BY <2>1, StillProven
<1>2. CASE OpResume
  <2>1. Kept /\ Still
    BY <1>0, <1>2, CommandKept, ConditionType, ContractType, ContractAssumption DEF OpResume
  <2>. QED  BY <2>1, StillProven
<1>3. CASE ResumeQuota \/ ResumeStorage
  <2>. DEFINE u == Unblock(disk)
  <2>1. u \in RunState /\ u.accepted = disk.accepted
    BY <1>0, ConditionType
  <2>. HIDE DEF u
  <2>2. /\ [u EXCEPT !.resumes = @ + 1].accepted = disk.accepted
        /\ [u EXCEPT !.kind = "none"].accepted = disk.accepted
    BY <2>1 DEF RunState
  <2>3. Kept /\ Still
    BY <1>3, <2>2, CommandKept DEF ResumeQuota, ResumeStorage, u
  <2>. QED  BY <2>3, StillProven
<1>4. CASE OpFindsLocked \/ OpFilesStop
  <2>1. Kept /\ Still
    BY <1>4 DEF OpFindsLocked, OpFilesStop, Kept, Still, files, git, hand
  <2>. QED  BY <2>1, StillProven
<1>5. CASE DeliverStart
  <2>1. Kept /\ Still
    BY <1>5 DEF DeliverStart, Kept, Still, files, hand
  <2>. QED  BY <2>1, StillProven
<1>6. CASE Deliver
  <2>1. disk' \in {disk, Transition(disk, "READY_FOR_DELIVERY")}
    BY <1>6 DEF Deliver, DeliverTree, DeliverStatus, DeliverGoesTo, DeliverPush, DeliverRecord,
                DeliverStops
  <2>2. disk'.accepted = disk.accepted
    BY <1>0, <2>1, TransitionType DEF Stage
  <2>3. Kept /\ Still
    BY <1>6, <2>2 DEF Deliver, DeliverTree, DeliverStatus, DeliverGoesTo, DeliverPush,
                      DeliverRecord, DeliverStops, Kept, Still, files, hand
  <2>. QED  BY <2>3, StillProven
<1>. QED  BY <1>1, <1>2, <1>3, <1>4, <1>5, <1>6

\* One step keeps the inductive invariant.
LEMMA ProvenStep == ASSUME TypeOK, ProvenInv, [Next]_vars PROVE ProvenInv'
<1>1. CASE Driver
  BY <1>1, ProcessProven, PlanningProven, VerdictProven, AcceptProven, FailureProven DEF Driver
<1>2. CASE Environment
  BY <1>2, ProcessProven, FailureProven, OperatorProven DEF Environment
<1>3. CASE UNCHANGED vars
  <2>1. Kept /\ Still
    BY <1>3 DEF vars, Kept, Still
  <2>. QED  BY <2>1, StillProven
<1>. QED  BY <1>1, <1>2, <1>3 DEF Next

\* The inductive invariant holds of every behaviour of the run.
LEMMA ProvenAlways == Spec => []ProvenInv
<1>1. Init => ProvenInv
  BY DEF Init, NewState, ProvenInv, AcceptedIsProven, MemIsProven,
         VerdictOnFile, VerdictIsSound, DecidedIsAccepted, JudgedPC, DecidedPC
<1>2. TypeOK /\ ProvenInv /\ [Next]_vars => ProvenInv'
  BY ProvenStep
<1>. QED  BY <1>1, <1>2, Typing, PTL DEF Spec

-----------------------------------------------------------------------------
(* What a verb of Stages does to the fields the invariants speak of.       *)

Held(s) == ViolationUnresolved(s)

\* Where the run stands, what it was charged, what it froze and accepted.
Place(s) == <<s.stage, s.iteration, s.used, s.frozen, s.accepted>>

\* t goes on with s or halts it, and keeps the hold of a capability violation.
Follows(s, t) == /\ t.condition = s.condition \/ t.condition \in HALTED
                 /\ Held(s) => Held(t)
                 /\ Held(t) => Held(s) \/ t.condition \in HALTED

\* A verb that only halts: the place is kept, the hold too.
Halts(s, t) == /\ Place(t) = Place(s) /\ t.condition \in HALTED
               /\ Held(s) => Held(t)

\* pause, cancel and fail halt; resume never makes a held run ACTIVE; unblock does and
\* releases the hold.
LEMMA ConditionDoes ==
    ASSUME NEW s \in RunState
    PROVE  /\ Halts(s, Pause(s)) /\ Halts(s, Cancel(s)) /\ Halts(s, Fail(s))
           /\ Place(Resume(s)) = Place(s) /\ (Held(Resume(s)) <=> Held(s))
           /\ Held(s) => Resume(s).condition = "BLOCKED"
           /\ Place(Unblock(s)) = Place(s) /\ ~Held(Unblock(s))
BY DEF Pause, Cancel, Fail, Resume, Unblock, Halts, Place, Held, HALTED, RunState,
       ViolationUnresolved

\* block: BLOCKED, with the hold it had.
LEMMA BlockDoes ==
    ASSUME NEW s \in RunState, NEW quota \in BOOLEAN
    PROVE  Halts(s, Block(s, quota)) /\ Block(s, quota).condition = "BLOCKED"
<1>1. PICK k \in Kind : /\ Block(s, quota) = [s EXCEPT !.condition = "BLOCKED", !.kind = k]
                        /\ Held(s) => k = "capability_violation"
  BY DEF Block, Kind, Held
<1>. DEFINE t == [s EXCEPT !.condition = "BLOCKED", !.kind = k]
<1>2. Place(t) = Place(s) /\ t.condition = "BLOCKED" /\ t.kind = k
  BY DEF Place, RunState
<1>. QED  BY <1>1, <1>2 DEF Halts, HALTED, Held, ViolationUnresolved

\* Relabelling and cancelling, as the contract does.
LEMMA LabelDoes ==
    ASSUME NEW s \in RunState, NEW k \in Kind, s.condition \in HALTED,
           Held(s) => k = "capability_violation"
    PROVE  /\ Halts(s, [s EXCEPT !.kind = k])
           /\ Halts(s, [s EXCEPT !.condition = "CANCELLED", !.kind = k])
<1>. DEFINE t == [s EXCEPT !.kind = k]
            u == [s EXCEPT !.condition = "CANCELLED", !.kind = k]
<1>1. Place(t) = Place(s) /\ t.condition = s.condition /\ t.kind = k
  BY DEF Place, RunState
<1>2. Place(u) = Place(s) /\ u.condition = "CANCELLED" /\ u.kind = k
  BY DEF Place, RunState
<1>. QED  BY <1>1, <1>2 DEF Halts, HALTED, Held, ViolationUnresolved

\* Two halts, one after the other, are a halt.
LEMMA HaltsTwice == ASSUME NEW s, NEW t, NEW u, Halts(s, t), Halts(t, u) PROVE Halts(s, u)
BY DEF Halts

\* A block under any contract halts and keeps the hold; that of a violation holds.
LEMMA ContractDoes ==
    ASSUME NEW s \in RunState, NEW quota \in BOOLEAN, NEW h \in Handling
    PROVE  /\ Halts(s, BlockUnderContract(s, quota, h))
           /\ Halts(s, BlockViolation(s, h)) /\ Held(BlockViolation(s, h))
<1>1. ASSUME NEW t \in RunState, NEW q \in BOOLEAN
      PROVE  Halts(t, BlockUnderContract(t, q, h))
  <2>. DEFINE b == Block(t, q)
  <2>1. b \in RunState /\ Halts(t, b) /\ b.condition \in HALTED
    BY <1>1, BlockType, BlockDoes DEF HALTED
  <2>2. b.kind \in Kind
    <3>. HIDE DEF b
    <3>. QED  BY <2>1 DEF RunState
  <2>3. CASE h = "none"
    BY <2>1, <2>3 DEF BlockUnderContract
  <2>4. CASE h = "stop"
    <3>1. PICK k \in Kind :
            /\ BlockUnderContract(t, q, h) = [b EXCEPT !.condition = "CANCELLED", !.kind = k]
            /\ Held(b) => k = "capability_violation"
      BY <2>2, <2>4 DEF BlockUnderContract, Kind, Held, ViolationUnresolved
    <3>. HIDE DEF b
    <3>2. Halts(b, [b EXCEPT !.condition = "CANCELLED", !.kind = k])
      BY <2>1, <3>1, LabelDoes
    <3>. QED  BY <2>1, <3>1, <3>2, HaltsTwice
  <2>5. CASE h \in {"ask", "park"}
    <3>1. PICK k \in Kind : /\ BlockUnderContract(t, q, h) = [b EXCEPT !.kind = k]
                            /\ Held(b) => k = "capability_violation"
      BY <2>2, <2>5 DEF BlockUnderContract, Kind, Held, ViolationUnresolved
    <3>. HIDE DEF b
    <3>2. Halts(b, [b EXCEPT !.kind = k])
      BY <2>1, <3>1, LabelDoes
    <3>. QED  BY <2>1, <3>1, <3>2, HaltsTwice
  <2>. QED  BY <2>3, <2>4, <2>5 DEF Handling
<1>. DEFINE v == [s EXCEPT !.kind = "capability_violation"]
<1>2. v \in RunState /\ Place(v) = Place(s) /\ Held(v)
  BY DEF RunState, Kind, Place, Held, ViolationUnresolved
<1>3. BlockViolation(s, h) = BlockUnderContract(v, FALSE, h)
  BY DEF BlockViolation
<1>4. Halts(v, BlockUnderContract(v, FALSE, h))
  <2>. HIDE DEF v
  <2>. QED  BY <1>1, <1>2
<1>. HIDE DEF v
<1>5. Halts(s, BlockViolation(s, h)) /\ Held(BlockViolation(s, h))
  BY <1>2, <1>3, <1>4 DEF Halts
<1>. QED  BY <1>1, <1>5

\* The waits that keep their charge: a worktree held by another, storage pressure.
LEMMA ParkDoes ==
    ASSUME NEW s \in RunState, NEW a \in BOOLEAN
    PROVE  Halts(s, WorkspaceBlocked(s)) /\ Halts(s, StoragePark(s, a))
<1>1. Halts(s, WorkspaceBlocked(s))
  <2>. DEFINE b == Block(s, FALSE)
  <2>1. b \in RunState /\ Halts(s, b) /\ b.condition \in HALTED
    BY BlockType, BlockDoes DEF HALTED
  <2>2. PICK k \in Kind : /\ WorkspaceBlocked(s) = [b EXCEPT !.kind = k]
                          /\ Held(b) => k = "capability_violation"
    <3>1. b.kind \in Kind
      <4>. HIDE DEF b
      <4>. QED  BY <2>1 DEF RunState
    <3>. QED  BY <3>1 DEF WorkspaceBlocked, Held, ViolationUnresolved, Kind
  <2>. HIDE DEF b
  <2>3. Halts(b, [b EXCEPT !.kind = k])
    BY <2>1, <2>2, LabelDoes
  <2>. QED  BY <2>1, <2>2, <2>3, HaltsTwice
<1>2. Halts(s, StoragePark(s, a))
  <2>1. CASE Held(s)
    BY <2>1, BlockDoes DEF StoragePark, Held
  <2>2. CASE ~Held(s) /\ a
    <3>. DEFINE t == [s EXCEPT !.condition = "BLOCKED", !.kind = "storage_pressure"]
    <3>1. StoragePark(s, a) = t
      BY <2>2 DEF StoragePark, Held
    <3>2. Place(t) = Place(s) /\ t.condition = "BLOCKED"
      BY DEF Place, RunState
    <3>. HIDE DEF t
    <3>. QED  BY <2>2, <3>1, <3>2 DEF Halts, HALTED
  <2>3. CASE ~Held(s) /\ ~a
    <3>1. StoragePark(s, a) = Pause(s)
      BY <2>3 DEF StoragePark, Held, Pause
    <3>. QED  BY <3>1, ConditionDoes
  <2>. QED  BY <2>1, <2>2, <2>3
<1>. QED  BY <1>1, <1>2

\* A failed role halts the run; in PLANNING its charge is given back.
LEMMA FailureDoes ==
    ASSUME NEW s \in RunState, NEW a \in BOOLEAN, NEW r \in BOOLEAN, NEW h \in Handling
    PROVE  LET t == FailureWait(s, a, r, h) IN
           /\ t.condition \in HALTED /\ (Held(s) => Held(t))
           /\ t.stage = s.stage /\ t.iteration = s.iteration
           /\ t.frozen = s.frozen /\ t.accepted = s.accepted
           /\ t.used = IF s.stage = "PLANNING" /\ s.used > 0 THEN s.used - 1 ELSE s.used
<1>. DEFINE n == IF s.stage = "PLANNING" /\ s.used > 0 THEN s.used - 1 ELSE s.used
            u == IF s.stage = "PLANNING" /\ s.used > 0 THEN [s EXCEPT !.used = @ - 1] ELSE s
            w == [u EXCEPT !.condition = "BLOCKED", !.kind = "automatic"]
<1>1. n \in Nat
  BY DEF RunState
<1>2. /\ u \in RunState /\ u.used = n /\ u.kind = s.kind
      /\ u.stage = s.stage /\ u.iteration = s.iteration
      /\ u.frozen = s.frozen /\ u.accepted = s.accepted
  BY <1>1 DEF RunState
<1>3. \/ FailureWait(s, a, r, h) = w /\ ~Held(s)
      \/ FailureWait(s, a, r, h) = BlockUnderContract(u, FALSE, h)
  BY DEF FailureWait, Held
<1>4. Place(w) = Place(u) /\ w.condition = "BLOCKED"
  <2>. HIDE DEF u
  <2>. QED  BY <1>2 DEF Place, RunState
<1>5. Halts(u, BlockUnderContract(u, FALSE, h))
  <2>. HIDE DEF u
  <2>. QED  BY <1>2, ContractDoes
<1>. HIDE DEF u, w, n
<1>. SUFFICES LET t == FailureWait(s, a, r, h) IN
              /\ t.condition \in HALTED /\ (Held(s) => Held(t))
              /\ t.stage = s.stage /\ t.iteration = s.iteration
              /\ t.frozen = s.frozen /\ t.accepted = s.accepted /\ t.used = n
  BY DEF n
<1>. QED  BY <1>2, <1>3, <1>4, <1>5 DEF Halts, Place, HALTED, Held, ViolationUnresolved

\* A transition out of PLANNING moves the stage only.
LEMMA TransitionDoes ==
    ASSUME NEW s \in RunState, NEW t \in Stage \ {"PLANNING"}
    PROVE  LET u == Transition(s, t) IN
           /\ u.stage = t /\ u.iteration = s.iteration /\ u.used = s.used
           /\ u.frozen = s.frozen /\ u.accepted = s.accepted
           /\ u.condition = s.condition /\ u.kind = s.kind
BY DEF Transition, RunState

\* A transition to PLANNING begins the next iteration.
LEMMA ReplanDoes ==
    ASSUME NEW s \in RunState
    PROVE  LET u == Transition(s, "PLANNING") IN
           /\ u.stage = "PLANNING" /\ u.iteration = s.iteration + 1 /\ u.used = s.used
           /\ u.accepted = s.accepted
           /\ u.condition = s.condition /\ u.kind = s.kind
<1>. DEFINE n == s.iteration + 1
            v == [s EXCEPT !.stage = "PLANNING", !.iteration = n, !.attempt = 0]
<1>1. Transition(s, "PLANNING") = [v EXCEPT !.frozen = NoTree]
  BY DEF Transition, Thaw
<1>2. n \in Nat /\ "PLANNING" \in Stage
  BY DEF RunState, Stage
<1>3. /\ v \in RunState /\ v.stage = "PLANNING" /\ v.iteration = n /\ v.used = s.used
      /\ v.accepted = s.accepted /\ v.condition = s.condition /\ v.kind = s.kind
  <2>. HIDE DEF n
  <2>. QED  BY <1>2 DEF RunState
<1>. HIDE DEF v
<1>4. [v EXCEPT !.frozen = NoTree] =
        [f \in DOMAIN v |-> IF f = "frozen" THEN NoTree ELSE v[f]]
  BY <1>3 DEF RunState
<1>. QED  BY <1>1, <1>3 DEF RunState

\* begin_iteration charges, but for an iteration that was aborted after it was planned.
LEMMA BeginDoes ==
    ASSUME NEW s \in RunState
    PROVE  LET u == BeginIteration(s) IN
           /\ u.stage = "PLANNING"
           /\ u.condition = s.condition /\ u.kind = s.kind
           /\ s.stage = "PLANNING" => u.iteration = s.iteration /\ u.used = s.used + 1
           /\ s.stage \in {"DEVELOPING", "VERIFYING"} =>
                u.iteration = s.iteration /\ u.used = s.used
           /\ s.stage \notin {"PLANNING", "DEVELOPING", "VERIFYING"} =>
                u.iteration = s.iteration + 1 /\ u.used = s.used + 1
<1>1. s.used + 1 \in Nat /\ "PLANNING" \in Stage
  BY DEF RunState, Stage
<1>2. CASE s.stage = "PLANNING"
  BY <1>1, <1>2 DEF BeginIteration, RunState
<1>3. CASE s.stage \in {"DEVELOPING", "VERIFYING"}
  BY <1>1, <1>3 DEF BeginIteration, Thaw, RunState
<1>4. CASE s.stage \notin {"PLANNING", "DEVELOPING", "VERIFYING"}
  <2>. DEFINE t == Transition(s, "PLANNING")
  <2>1. /\ t \in RunState /\ t.stage = "PLANNING" /\ t.iteration = s.iteration + 1
        /\ t.used = s.used /\ t.condition = s.condition /\ t.kind = s.kind
    BY <1>1, ReplanDoes, TransitionType
  <2>2. BeginIteration(s) = [t EXCEPT !.used = @ + 1]
    BY <1>4 DEF BeginIteration
  <2>. HIDE DEF t
  <2>. QED  BY <1>4, <2>1, <2>2 DEF RunState
<1>. QED  BY <1>2, <1>3, <1>4

\* reject_candidate plans the next iteration, whatever it makes of the lost loop.
LEMMA RejectDoes ==
    ASSUME NEW s \in RunState, NEW unverified \in BOOLEAN
    PROVE  LET u == RejectCandidate(s, unverified) IN
           /\ u.stage = "PLANNING" /\ u.iteration = s.iteration + 1 /\ u.used = s.used
           /\ u.accepted = s.accepted
           /\ u.condition = s.condition /\ u.kind = s.kind
<1>. DEFINE n == IF unverified THEN s.loops ELSE s.loops + 1
            t == [s EXCEPT !.loops = n]
<1>1. n \in Nat
  BY DEF RunState
<1>2. /\ t \in RunState /\ t.iteration = s.iteration /\ t.used = s.used
      /\ t.accepted = s.accepted /\ t.condition = s.condition /\ t.kind = s.kind
  <2>. HIDE DEF n
  <2>. QED  BY <1>1 DEF RunState
<1>3. RejectCandidate(s, unverified) = Transition(t, "PLANNING")
  BY DEF RejectCandidate
<1>. HIDE DEF t
<1>. QED  BY <1>2, <1>3, ReplanDoes

\* accept_checkpoint: the stage, the accepted tree, and nothing the run is charged.
LEMMA AcceptDoes ==
    ASSUME NEW s \in RunState, NEW t \in OptTree
    PROVE  LET u == AcceptCheckpoint(s, t) IN
           /\ u.stage = "CHECKPOINTED" /\ u.iteration = s.iteration /\ u.used = s.used
           /\ u.accepted = t /\ u.condition = s.condition /\ u.kind = s.kind
<1>. DEFINE v == Transition(s, "CHECKPOINTED")
<1>1. /\ v \in RunState /\ v.stage = "CHECKPOINTED" /\ v.iteration = s.iteration
      /\ v.used = s.used /\ v.condition = s.condition /\ v.kind = s.kind
  BY TransitionType, TransitionDoes DEF Stage
<1>2. AcceptCheckpoint(s, t) = [[v EXCEPT !.accepted = t, !.loops = 0] EXCEPT !.frozen = NoTree]
  BY DEF AcceptCheckpoint, Thaw
<1>. HIDE DEF v
<1>. QED  BY <1>1, <1>2 DEF RunState

-----------------------------------------------------------------------------
(* Halts.  A step of the driver either moves its control point, writes a    *)
(* state that follows the one in memory, or raises; a command writes under  *)
(* the free lock.                                                           *)

\* What a step may do to a halt, to a hold and to what is accepted.
LiftsHalt == disk.condition \in HALTED /\ disk'.condition = "ACTIVE" => UNCHANGED <<pc, mem>>
LiftsHold == ViolationUnresolved(disk) /\ ~ViolationUnresolved(disk')
               => /\ disk.condition = "BLOCKED" /\ UNCHANGED <<pc, mem>>
                  /\ disk' = Unblock(disk)
AcceptsFrozenTree ==
    disk'.accepted # disk.accepted => pc = "accept" /\ disk'.accepted = disk.frozen
Guarded == LiftsHalt /\ LiftsHold /\ AcceptsFrozenTree

\* What a halt is follows what it was.
LEMMA FollowsGuarded ==
    ASSUME Follows(disk, disk'),
           disk'.accepted = disk.accepted \/ (pc = "accept" /\ disk'.accepted = disk.frozen)
    PROVE  Guarded
BY DEF Follows, Guarded, LiftsHalt, LiftsHold, AcceptsFrozenTree, HALTED, Held

\* So it is when the file is left alone.
LEMMA SameGuarded == ASSUME UNCHANGED disk PROVE Guarded
BY DEF Guarded, LiftsHalt, LiftsHold, AcceptsFrozenTree, HALTED

\* A halt of the run follows it.
LEMMA HaltsFollow ==
    ASSUME NEW s, NEW t, Halts(s, t) PROVE Follows(s, t) /\ t.accepted = s.accepted
BY DEF Halts, Follows, Place

\* A raised exception ends the iteration and touches neither file nor object.
LEMMA RaiseHalts ==
    ASSUME HaltInv, Raise, pc \in IterationPC PROVE HaltInv' /\ Guarded
<1>1. InStep'
  BY DEF HaltInv, InStep, Raise, Agree, IterationPC
<1>2. LockIsDrivers' /\ BegunIsActive' /\ FrozenIsInHand' /\ HeldIsHalted'
  BY DEF HaltInv, Raise, LockIsDrivers, BegunIsActive, FrozenIsInHand, HeldIsHalted,
         IterationPC, BegunPC, FrozenPC, JudgedPC
<1>. QED  BY <1>1, <1>2, SameGuarded DEF HaltInv, Raise

\* A state the driver may write, seen from the object it has in memory.
Writable(s) ==
    /\ Follows(mem, s)
    /\ s.accepted = mem.accepted \/ (pc = "accept" /\ s.accepted = mem.frozen)

\* What follows the object follows the file, while the object is not behind.
LEMMA WritesGuarded ==
    ASSUME HaltInv, pc \in IterationPC, ~behind, NEW s, Writable(s), disk' = s
    PROVE  HeldIsHalted' /\ Guarded
<1>1. Agree(mem, disk)
  BY DEF HaltInv, InStep, IterationPC
<1>2. /\ Follows(disk, s)
      /\ s.accepted = disk.accepted \/ (pc = "accept" /\ s.accepted = disk.frozen)
  BY <1>1 DEF Writable, Agree, Follows, Held
<1>3. HeldIsHalted'
  BY <1>2 DEF HaltInv, HeldIsHalted, Follows, Held
<1>. QED  BY <1>2, <1>3, FollowsGuarded

\* A write in the middle of an iteration.
LEMMA WriteHalts ==
    ASSUME HaltInv, pc \in IterationPC, NEW s, NEW next \in IterationPC,
           WriteState(s, next), Writable(s),
           next \in BegunPC => s.condition = "ACTIVE",
           next \in FrozenPC => s.frozen = cand
    PROVE  HaltInv' /\ Guarded
<1>1. CASE Raise
  BY <1>1, RaiseHalts
<1>2. CASE ~Raise
  <2>1. /\ ~behind /\ disk' = s /\ mem' = s /\ pc' = next
        /\ UNCHANGED <<lock, behind, cand>>
    BY <1>2 DEF WriteState, hand
  <2>2. HeldIsHalted' /\ Guarded
    BY <2>1, WritesGuarded
  <2>3. InStep' /\ LockIsDrivers' /\ BegunIsActive' /\ FrozenIsInHand'
    BY <2>1 DEF HaltInv, InStep, Agree, LockIsDrivers, BegunIsActive, FrozenIsInHand
  <2>. QED  BY <2>2, <2>3 DEF HaltInv
<1>. QED  BY <1>1, <1>2

\* The write that ends an iteration.
LEMMA EndHalts ==
    ASSUME HaltInv, pc \in IterationPC, NEW s \in RunState, EndIteration(s), Writable(s)
    PROVE  HaltInv' /\ Guarded
<1>1. CASE Raise
  BY <1>1, RaiseHalts
<1>2. CASE ~Raise
  <2>1. /\ ~behind /\ disk' = s /\ mem' = [s EXCEPT !.resumes = 0]
        /\ pc' = "between" /\ lock' = "free"
    BY <1>2 DEF EndIteration
  <2>2. HeldIsHalted' /\ Guarded
    BY <2>1, WritesGuarded
  <2>3. Agree([s EXCEPT !.resumes = 0], s)
    BY DEF Agree, RunState, ViolationUnresolved
  <2>4. InStep' /\ LockIsDrivers' /\ BegunIsActive' /\ FrozenIsInHand'
    BY <2>1, <2>3 DEF HaltInv, InStep, LockIsDrivers, BegunIsActive, FrozenIsInHand,
                      IterationPC, BegunPC, FrozenPC, JudgedPC
  <2>. QED  BY <2>2, <2>4 DEF HaltInv
<1>. QED  BY <1>1, <1>2

\* The usual last write: a halt.
LEMMA EndWithHalt ==
    ASSUME HaltInv, pc \in IterationPC, NEW s \in RunState, EndIteration(s), Halts(mem, s)
    PROVE  HaltInv' /\ Guarded
BY HaltsFollow, EndHalts DEF Writable

\* A move of the control point inside an iteration.
LEMMA GotoHalts ==
    ASSUME HaltInv, pc \in IterationPC, NEW next \in IterationPC, Goto(next),
           next \in BegunPC => pc \in BegunPC,
           next \in FrozenPC => pc \in FrozenPC /\ cand' = cand
    PROVE  HaltInv' /\ Guarded
<1>1. InStep'
  BY DEF HaltInv, InStep, Goto, Agree, IterationPC
<1>2. LockIsDrivers' /\ BegunIsActive' /\ FrozenIsInHand' /\ HeldIsHalted'
  BY DEF HaltInv, Goto, LockIsDrivers, BegunIsActive, FrozenIsInHand, HeldIsHalted
<1>. QED  BY <1>1, <1>2, SameGuarded DEF HaltInv, Goto

\* A command, under the free lock, makes the driver's object old.
LEMMA CommandHalts ==
    ASSUME HaltInv, NEW s, Command(s), Held(s) => s.condition \in HALTED
    PROVE  HaltInv'
<1>1. lock = "free" /\ disk' = s /\ behind' = (pc # "off")
      /\ UNCHANGED <<lock, pc, mem, cand>>
  BY DEF Command, hand
<1>2. pc \notin IterationPC
  BY <1>1 DEF HaltInv, LockIsDrivers
<1>3. InStep' /\ LockIsDrivers' /\ BegunIsActive' /\ FrozenIsInHand' /\ HeldIsHalted'
  BY <1>1, <1>2 DEF HaltInv, InStep, LockIsDrivers, BegunIsActive, FrozenIsInHand, HeldIsHalted,
                    IterationPC, BegunPC, FrozenPC, JudgedPC, Held
<1>. QED  BY <1>3 DEF HaltInv

\* Away from an iteration, a step that leaves no hold on an ACTIVE run.
LEMMA OutsideHalts ==
    ASSUME HaltInv, pc' \notin IterationPC, lock' # "driver", InStep', HeldIsHalted'
    PROVE  HaltInv'
BY DEF HaltInv, LockIsDrivers, BegunIsActive, FrozenIsInHand, IterationPC, BegunPC, FrozenPC,
       JudgedPC

\* The process around the iterations halts a run or leaves it alone.
LEMMA ProcessHalts ==
    ASSUME TypeOK, HaltInv,
           StartRun \/ RecordIsolation \/ TakeLock \/ LeaveLoop \/ AbortIteration \/ CloseRun
    PROVE  HaltInv' /\ Guarded
<1>0. disk \in RunState /\ mem \in RunState
  BY DEF TypeOK, DriverOK
<1>1. CASE StartRun \/ LeaveLoop
  <2>1. UNCHANGED <<disk, lock>> /\ pc' \in {"ready", "closing"}
        /\ lock # "driver" /\ InStep'
    BY <1>1 DEF StartRun, LeaveLoop, HaltInv, LockIsDrivers, IterationPC, InStep, Agree
  <2>2. HeldIsHalted'
    BY <2>1 DEF HaltInv, HeldIsHalted
  <2>. QED  BY <2>1, <2>2, OutsideHalts, SameGuarded DEF IterationPC
<1>2. CASE RecordIsolation
  <2>1. CASE disk' = disk
    <3>1. pc' \in {"ready", "off"} /\ lock' = lock /\ lock # "driver" /\ InStep' /\ HeldIsHalted'
      BY <1>2, <2>1 DEF RecordIsolation, HaltInv, LockIsDrivers, IterationPC, InStep, Agree,
                        HeldIsHalted
    <3>. QED  BY <2>1, <3>1, OutsideHalts, SameGuarded DEF IterationPC
  <2>2. CASE disk' # disk
    <3>1. /\ ~behind /\ disk' = mem /\ mem' = mem /\ pc = "ready" /\ pc' = pc
          /\ lock' = "free"
      BY <1>2, <2>2 DEF RecordIsolation
    <3>2. Agree(mem, disk)
      BY <3>1 DEF HaltInv, InStep
    <3>3. Follows(disk, disk') /\ disk'.accepted = disk.accepted /\ HeldIsHalted'
      BY <3>1, <3>2 DEF Agree, Follows, Held, HaltInv, HeldIsHalted
    <3>4. InStep'
      BY <3>1 DEF InStep, Agree
    <3>. QED  BY <3>1, <3>3, <3>4, FollowsGuarded, OutsideHalts DEF IterationPC
  <2>. QED  BY <2>1, <2>2
<1>3. CASE TakeLock
  <2>1. UNCHANGED <<disk, mem, behind, cand>> /\ InStep' /\ HeldIsHalted'
    BY <1>3 DEF TakeLock, hand, HaltInv, InStep, HeldIsHalted, Agree
  <2>2. LockIsDrivers' /\ BegunIsActive' /\ FrozenIsInHand'
    BY <1>3 DEF TakeLock, HaltInv, LockIsDrivers, BegunIsActive, FrozenIsInHand, IterationPC,
                BegunPC, FrozenPC, JudgedPC
  <2>. QED  BY <2>1, <2>2, SameGuarded DEF HaltInv
<1>4. CASE AbortIteration
  <2>1. disk' = disk \/ Halts(disk, disk')
    BY <1>0, <1>4, ContractDoes, ContractAssumption DEF AbortIteration
  <2>2. Guarded /\ HeldIsHalted'
    BY <2>1, HaltsFollow, FollowsGuarded, SameGuarded DEF HaltInv, HeldIsHalted, Halts
  <2>3. pc' \in {"closing", "off"} /\ lock' = lock /\ lock # "driver" /\ InStep'
    BY <1>4 DEF AbortIteration, HaltInv, LockIsDrivers, IterationPC, InStep
  <2>. QED  BY <2>2, <2>3, OutsideHalts DEF IterationPC
<1>5. CASE CloseRun
  <2>0. Halts(disk, Fail(disk)) /\ \A h \in Contract : Halts(disk, BlockViolation(disk, h))
    BY <1>0, ConditionDoes, ContractDoes, ContractAssumption
  <2>1. disk' = disk \/ Halts(disk, disk')
    BY <1>5, <2>0 DEF CloseRun
  <2>2. Guarded /\ HeldIsHalted'
    BY <2>1, HaltsFollow, FollowsGuarded, SameGuarded DEF HaltInv, HeldIsHalted, Halts
  <2>3. pc' = "off" /\ lock' = lock /\ lock # "driver" /\ InStep'
    BY <1>5 DEF CloseRun, HaltInv, LockIsDrivers, IterationPC, InStep
  <2>. QED  BY <2>2, <2>3, OutsideHalts DEF IterationPC
<1>. QED  BY <1>1, <1>2, <1>3, <1>4, <1>5

\* Up to the verdict: nothing is dispatched but behind the fence of begin_iteration.
LEMMA PlanningHalts ==
    ASSUME TypeOK, HaltInv,
           \/ Gates \/ ReadStop \/ ClearStop \/ HaltRun \/ HoldWorkspace \/ Begin
           \/ SnapshotBase \/ Plan \/ WritePlan \/ EnterDeveloping \/ Develop
           \/ FreezeCandidate \/ EnterVerifying
    PROVE  HaltInv' /\ Guarded
<1>0. mem \in RunState /\ tree \in OptTree /\ evid \in Nat /\ mem.condition \in Condition
  BY DEF TypeOK, DriverOK, GitOK, OptTree, FilesOK, RunState
<1>. USE DEF IterationPC, BegunPC, FrozenPC, JudgedPC
<1>00. pc \in BegunPC => mem.condition = "ACTIVE"
  BY DEF HaltInv, BegunIsActive, InStep, Agree
<1>1. CASE Gates
  <2>1. CASE Raise
    BY <1>1, <2>1, RaiseHalts DEF Gates
  <2>2. CASE Goto("stop_start")
    BY <1>1, <2>2, GotoHalts DEF Gates
  <2>3. CASE \E h \in Contract : EndIteration(BlockUnderContract(mem, FALSE, h))
    BY <1>0, <1>1, <2>3, EndWithHalt, ContractType, ContractDoes, ContractAssumption DEF Gates
  <2>4. CASE WriteState(mem, "stop_start")
    <3>1. Writable(mem)
      BY DEF Writable, Follows
    <3>. QED  BY <1>1, <2>4, <3>1, WriteHalts DEF Gates
  <2>. QED  BY <1>1, <2>1, <2>2, <2>3, <2>4 DEF Gates
<1>2. CASE ReadStop
  <2>1. PICK next \in {"begin", "hold", "develop", "verify", "clear"} :
          /\ Goto(next) /\ cand' = cand
          /\ next = "develop" => pc = "stop_plan"
          /\ next = "verify" => pc = "stop_freeze"
    BY <1>2 DEF ReadStop, Boundary
  <2>2. pc \in IterationPC /\ next \in IterationPC
    BY <1>2 DEF ReadStop
  <2>3. next \in BegunPC => pc \in BegunPC
    BY <1>2, <2>1
  <2>4. next \in FrozenPC => pc \in FrozenPC /\ cand' = cand
    BY <1>2, <2>1
  <2>. QED  BY <2>1, <2>2, <2>3, <2>4, GotoHalts
<1>3. CASE ClearStop
  BY <1>3, GotoHalts DEF ClearStop
<1>4. CASE HaltRun
  BY <1>0, <1>4, EndWithHalt, RaiseHalts, ConditionType, ConditionDoes DEF HaltRun
<1>5. CASE HoldWorkspace
  <2>1. WorkspaceBlocked(mem) \in RunState /\ Halts(mem, WorkspaceBlocked(mem))
    BY <1>0, WaitType, ParkDoes DEF Handling
  <2>2. CASE EndIteration(WorkspaceBlocked(mem))
    BY <1>5, <2>1, <2>2, EndWithHalt DEF HoldWorkspace
  <2>3. CASE ~EndIteration(WorkspaceBlocked(mem))
    <3>1. /\ mem' = mem \/ (mem.kind = "human" /\ mem' = [mem EXCEPT !.kind = "none"])
          /\ pc' = "begin" /\ UNCHANGED <<disk, behind, lock, cand>>
      BY <1>5, <2>3 DEF HoldWorkspace, hand
    <3>2. Agree(mem', mem)
      BY <1>0, <3>1 DEF Agree, RunState, ViolationUnresolved
    <3>3. InStep' /\ HeldIsHalted'
      BY <1>5, <3>1, <3>2 DEF HoldWorkspace, HaltInv, InStep, HeldIsHalted, Agree
    <3>4. LockIsDrivers' /\ BegunIsActive' /\ FrozenIsInHand'
      BY <1>5, <3>1 DEF HoldWorkspace, HaltInv, LockIsDrivers, BegunIsActive, FrozenIsInHand
    <3>. QED  BY <3>1, <3>3, <3>4, SameGuarded DEF HaltInv
  <2>. QED  BY <2>2, <2>3
<1>6. CASE Begin
  <2>1. CASE Raise
    BY <1>6, <2>1, RaiseHalts DEF Begin
  <2>2. CASE ~Raise
    <3>. DEFINE s == BeginIteration(mem)
    <3>1. /\ s.condition = mem.condition /\ s.kind = mem.kind /\ s.accepted = mem.accepted
          /\ mem.condition = "ACTIVE"
      BY <1>0, <1>6, <2>2, BeginDoes, BeginType DEF Begin, CanBeginIteration, HALTED, Condition
    <3>2. PICK next \in {"base", "plan"} : WriteState(s, next)
      BY <1>6, <2>2 DEF Begin
    <3>3. Writable(s)
      BY <3>1 DEF Writable, Follows, Held, ViolationUnresolved
    <3>. HIDE DEF s
    <3>. QED  BY <1>6, <3>1, <3>2, <3>3, WriteHalts DEF Begin
  <2>. QED  BY <2>1, <2>2
<1>7. CASE SnapshotBase
  <2>. DEFINE s == [mem EXCEPT !.base = tree]
  <2>1. /\ s.condition = mem.condition /\ s.kind = mem.kind /\ s.accepted = mem.accepted
    BY <1>0 DEF RunState
  <2>2. WriteState(s, "plan") /\ pc = "base"
    BY <1>7 DEF SnapshotBase
  <2>. HIDE DEF s
  <2>3. Writable(s)
    BY <2>1 DEF Writable, Follows, Held, ViolationUnresolved
  <2>. QED  BY <1>00, <2>1, <2>2, <2>3, WriteHalts
<1>8. CASE Plan
  BY <1>8, RaiseHalts, GotoHalts DEF Plan
<1>9. CASE WritePlan
  BY <1>9, RaiseHalts, GotoHalts DEF WritePlan
<1>10. CASE EnterDeveloping
  <2>. DEFINE u == Transition(mem, "DEVELOPING")
              s == [u EXCEPT !.attempt = @ + 1]
  <2>1. /\ u \in RunState
        /\ u.condition = mem.condition /\ u.kind = mem.kind /\ u.accepted = mem.accepted
    BY <1>0, TransitionType, TransitionDoes DEF Stage
  <2>2. s.condition = mem.condition /\ s.kind = mem.kind /\ s.accepted = mem.accepted
    <3>. HIDE DEF u
    <3>. QED  BY <2>1 DEF RunState
  <2>3. WriteState(s, "stop_plan") /\ pc = "enter"
    BY <1>10 DEF EnterDeveloping
  <2>. HIDE DEF s
  <2>4. Writable(s)
    BY <2>2 DEF Writable, Follows, Held, ViolationUnresolved
  <2>. QED  BY <1>00, <2>2, <2>3, <2>4, WriteHalts
<1>11. CASE Develop
  BY <1>11, GotoHalts DEF Develop
<1>12. CASE FreezeCandidate
  <2>1. CASE Raise
    BY <1>12, <2>1, RaiseHalts DEF FreezeCandidate
  <2>2. CASE ~Raise
    <3>. DEFINE s == Freeze(mem, tree)
    <3>1. /\ s.condition = mem.condition /\ s.kind = mem.kind /\ s.accepted = mem.accepted
          /\ s.frozen = tree
      BY <1>0 DEF Freeze, RunState
    <3>2. /\ ~behind /\ disk' = s /\ mem' = s /\ cand' = tree /\ pc = "freeze"
          /\ pc' = "stop_freeze" /\ UNCHANGED <<lock, behind>>
      BY <1>12, <2>2 DEF FreezeCandidate
    <3>. HIDE DEF s
    <3>3. Writable(s)
      BY <3>1 DEF Writable, Follows, Held, ViolationUnresolved
    <3>4. HeldIsHalted' /\ Guarded
      BY <3>2, <3>3, WritesGuarded
    <3>5. InStep' /\ LockIsDrivers' /\ BegunIsActive' /\ FrozenIsInHand'
      BY <1>00, <3>1, <3>2 DEF HaltInv, InStep, Agree, LockIsDrivers, BegunIsActive,
                               FrozenIsInHand
    <3>. QED  BY <3>4, <3>5 DEF HaltInv
  <2>. QED  BY <2>1, <2>2
<1>13. CASE EnterVerifying
  <2>. DEFINE s == Transition(mem, "VERIFYING")
  <2>1. /\ s.condition = mem.condition /\ s.kind = mem.kind /\ s.accepted = mem.accepted
        /\ s.frozen = mem.frozen
    BY <1>0, TransitionDoes DEF Stage
  <2>2. WriteState(s, "qa") /\ pc = "verify"
    BY <1>13 DEF EnterVerifying
  <2>. HIDE DEF s
  <2>3. Writable(s)
    BY <2>1 DEF Writable, Follows, Held, ViolationUnresolved
  <2>4. mem.frozen = cand
    BY <2>2 DEF HaltInv, InStep, Agree, FrozenIsInHand, BegunIsActive
  <2>. QED  BY <1>00, <2>1, <2>2, <2>3, <2>4, WriteHalts
<1>. QED  BY <1>1, <1>2, <1>3, <1>4, <1>5, <1>6, <1>7, <1>8, <1>9, <1>10, <1>11, <1>12, <1>13

\* From the verdict to the acceptance: what is accepted is what was frozen.
LEMMA VerdictHalts ==
    ASSUME TypeOK, HaltInv,
           \/ Verify \/ WriteQa \/ WriteEvidence \/ PointAtEvidence \/ Decide
           \/ RecordPreserved \/ CommitCandidate \/ AcceptCandidate
    PROVE  HaltInv' /\ Guarded
<1>0. mem \in RunState /\ cand \in OptTree /\ evid \in Nat /\ res \in Result
  BY DEF TypeOK, DriverOK, HandOK, FilesOK
<1>. USE DEF IterationPC, BegunPC, FrozenPC, JudgedPC, hand
<1>00. /\ pc \in BegunPC => mem.condition = "ACTIVE"
       /\ pc \in FrozenPC => mem.frozen = cand
  BY DEF HaltInv, BegunIsActive, InStep, Agree, FrozenIsInHand
<1>1. CASE Verify
  <2>1. CASE \E h \in Contract : EndIteration(BlockUnderContract(mem, FALSE, h))
    BY <1>0, <1>1, <2>1, EndWithHalt, ContractType, ContractDoes, ContractAssumption DEF Verify
  <2>2. CASE ~(\E h \in Contract : EndIteration(BlockUnderContract(mem, FALSE, h)))
    BY <1>1, <2>2, GotoHalts DEF Verify
  <2>. QED  BY <2>1, <2>2
<1>2. CASE WriteQa
  BY <1>2, RaiseHalts, GotoHalts DEF WriteQa
<1>3. CASE WriteEvidence \/ RecordPreserved \/ CommitCandidate
  BY <1>3, GotoHalts DEF WriteEvidence, RecordPreserved, CommitCandidate
<1>4. CASE PointAtEvidence
  <2>. DEFINE s == [mem EXCEPT !.evidence = evid]
  <2>1. /\ s.condition = mem.condition /\ s.kind = mem.kind /\ s.accepted = mem.accepted
        /\ s.frozen = mem.frozen
    BY <1>0 DEF RunState
  <2>2. WriteState(s, "decide") /\ pc = "point"
    BY <1>4 DEF PointAtEvidence
  <2>. HIDE DEF s
  <2>3. Writable(s)
    BY <2>1 DEF Writable, Follows, Held, ViolationUnresolved
  <2>. QED  BY <1>00, <2>1, <2>2, <2>3, WriteHalts
<1>5. CASE Decide
  <2>1. CASE EndIteration(RejectCandidate(mem, res.unverified))
    <3>. DEFINE s == RejectCandidate(mem, res.unverified)
    <3>1. /\ s \in RunState /\ s.condition = mem.condition /\ s.kind = mem.kind
          /\ s.accepted = mem.accepted
      BY <1>0, RejectType, RejectDoes DEF Result
    <3>. HIDE DEF s
    <3>2. Writable(s)
      BY <3>1 DEF Writable, Follows, Held, ViolationUnresolved
    <3>3. EndIteration(s)
      BY <2>1 DEF s
    <3>. QED  BY <1>5, <3>1, <3>2, <3>3, EndHalts DEF Decide
  <2>2. CASE Goto("preserve") /\ UNCHANGED hand
    BY <1>5, <2>2, GotoHalts DEF Decide
  <2>. QED  BY <1>5, <2>1, <2>2 DEF Decide
<1>6. CASE AcceptCandidate
  <2>. DEFINE s == AcceptCheckpoint(mem, cand)
  <2>1. /\ s \in RunState /\ s.condition = mem.condition /\ s.kind = mem.kind
        /\ s.accepted = cand
    BY <1>0, CandidateType, AcceptDoes
  <2>2. EndIteration(s) /\ pc = "accept"
    BY <1>6 DEF AcceptCandidate
  <2>. HIDE DEF s
  <2>3. Writable(s)
    BY <1>00, <2>1, <2>2 DEF Writable, Follows, Held, ViolationUnresolved
  <2>. QED  BY <2>1, <2>2, <2>3, EndHalts
<1>. QED  BY <1>1, <1>2, <1>3, <1>4, <1>5, <1>6

\* The early ends of an iteration, a crash and a stray write.
LEMMA FailureHalts ==
    ASSUME TypeOK, HaltInv,
           \/ RoleFails \/ RoleViolates \/ StorageRefuses \/ StepRaises \/ Crash
           \/ StrayWrite
    PROVE  HaltInv' /\ Guarded
<1>0. mem \in RunState
  BY DEF TypeOK, DriverOK
<1>1. CASE RoleFails
  <2>1. PICK a \in BOOLEAN, r \in BOOLEAN, h \in Contract :
          EndIteration(FailureWait(mem, a, r, h))
    BY <1>1 DEF RoleFails
  <2>. DEFINE s == FailureWait(mem, a, r, h)
  <2>2. /\ s \in RunState /\ s.condition \in HALTED /\ s.accepted = mem.accepted
        /\ Held(mem) => Held(s)
    BY <1>0, WaitType, FailureDoes, ContractAssumption
  <2>3. EndIteration(s) /\ pc \in IterationPC
    BY <1>1, <2>1 DEF RoleFails, IterationPC
  <2>. HIDE DEF s
  <2>4. Writable(s)
    BY <2>2 DEF Writable, Follows
  <2>. QED  BY <2>2, <2>3, <2>4, EndHalts
<1>2. CASE RoleViolates
  <2>1. pc \in IterationPC
    BY <1>2 DEF RoleViolates, IterationPC
  <2>. QED  BY <1>0, <1>2, <2>1, EndWithHalt, ContractType, ContractDoes, ContractAssumption
            DEF RoleViolates
<1>3. CASE StorageRefuses
  <2>1. \A a \in BOOLEAN : StoragePark(mem, a) \in RunState /\ Halts(mem, StoragePark(mem, a))
    BY <1>0, WaitType, ParkDoes DEF Handling
  <2>2. pc \in IterationPC
    BY <1>3 DEF StorageRefuses, IterationPC
  <2>. QED  BY <1>3, <2>1, <2>2, EndWithHalt DEF StorageRefuses
<1>4. CASE StepRaises
  BY <1>4, RaiseHalts DEF StepRaises
<1>5. CASE Crash
  <2>1. pc' = "off" /\ lock' # "driver" /\ UNCHANGED disk
    BY <1>5 DEF Crash, HaltInv, LockIsDrivers
  <2>2. InStep' /\ HeldIsHalted'
    BY <2>1 DEF InStep, HaltInv, HeldIsHalted
  <2>. QED  BY <2>1, <2>2, OutsideHalts, SameGuarded DEF IterationPC
<1>6. CASE StrayWrite
  <2>1. UNCHANGED <<disk, lock, pc, mem, behind, cand>>
    BY <1>6 DEF StrayWrite, hand
  <2>2. HaltInv'
    BY <2>1 DEF HaltInv, InStep, Agree, LockIsDrivers, BegunIsActive, FrozenIsInHand,
                HeldIsHalted
  <2>. QED  BY <2>1, <2>2, SameGuarded
<1>. QED  BY <1>1, <1>2, <1>3, <1>4, <1>5, <1>6

\* The commands: each lifts what it is there to lift, and no hold but by unblocking.
LEMMA OperatorHalts ==
    ASSUME TypeOK, HaltInv,
           \/ OpPause \/ OpCancel \/ OpUnblock \/ OpResume \/ ResumeQuota \/ ResumeStorage
           \/ OpFindsLocked \/ OpFilesStop \/ DeliverStart \/ Deliver
    PROVE  HaltInv' /\ Guarded
<1>0. disk \in RunState
  BY DEF TypeOK, DriverOK
<1>1. ASSUME NEW s, Command(s), Halts(disk, s)
      PROVE  HaltInv' /\ Guarded
  <2>1. disk' = s
    BY <1>1 DEF Command
  <2>2. Held(s) => s.condition \in HALTED
    BY <1>1 DEF Halts
  <2>3. Guarded
    BY <1>1, <2>1, HaltsFollow, FollowsGuarded
  <2>4. HaltInv'
    BY <1>1, <2>2, CommandHalts
  <2>. QED  BY <2>3, <2>4
<1>2. ASSUME Command(Unblock(disk)), CanUnblock(disk)
      PROVE  HaltInv' /\ Guarded
  <2>1. /\ disk' = Unblock(disk) /\ UNCHANGED <<pc, mem>> /\ disk.condition = "BLOCKED"
        /\ disk'.accepted = disk.accepted
    BY <1>0, <1>2, ConditionDoes DEF Command, CanUnblock, Place
  <2>2. Guarded
    BY <2>1 DEF Guarded, LiftsHalt, LiftsHold, AcceptsFrozenTree
  <2>. QED  BY <1>0, <1>2, <2>2, CommandHalts, ConditionDoes
<1>3. ASSUME NEW s, Command(s), ~Held(disk), ~Held(s), s.accepted = disk.accepted
      PROVE  HaltInv' /\ Guarded
  <2>1. disk' = s /\ UNCHANGED <<pc, mem>>
    BY <1>3 DEF Command
  <2>2. Guarded
    BY <1>3, <2>1 DEF Guarded, LiftsHalt, LiftsHold, AcceptsFrozenTree, Held
  <2>. QED  BY <1>3, <2>2, CommandHalts
<1>4. CASE OpPause \/ OpCancel
  BY <1>0, <1>1, <1>4, ConditionDoes DEF OpPause, OpCancel
<1>5. CASE OpUnblock
  BY <1>2, <1>5 DEF OpUnblock
<1>6. CASE OpResume
  <2>1. CASE Held(disk)
    <3>. DEFINE s == Resume(disk)
    <3>1. Command(s) /\ Held(s) /\ s.condition = "BLOCKED" /\ Place(s) = Place(disk)
      BY <1>0, <1>6, <2>1, ConditionDoes DEF OpResume, Held
    <3>. HIDE DEF s
    <3>. QED  BY <1>1, <3>1 DEF Halts, HALTED
  <2>2. CASE ~Held(disk)
    <3>1. CASE \E h \in Contract : Command(BlockUnderContract(disk, TRUE, h))
      <4>1. PICK h \in Contract : Command(BlockUnderContract(disk, TRUE, h))
        BY <3>1
      <4>2. Halts(disk, BlockUnderContract(disk, TRUE, h))
        BY <1>0, ContractDoes, ContractAssumption
      <4>. QED  BY <1>1, <4>1, <4>2
    <3>2. CASE Command(Resume(disk))
      BY <1>0, <1>3, <2>2, <3>2, ConditionDoes DEF Place
    <3>3. CASE CanUnblock(disk) /\ Command(Unblock(disk))
      BY <1>2, <3>3
    <3>. QED  BY <1>6, <2>2, <3>1, <3>2, <3>3 DEF OpResume, Held
  <2>. QED  BY <2>1, <2>2
<1>7. CASE ResumeQuota \/ ResumeStorage
  <2>. DEFINE u == Unblock(disk)
  <2>1. u \in RunState /\ ~Held(u) /\ u.accepted = disk.accepted
    BY <1>0, ConditionType, ConditionDoes DEF Place
  <2>2. ~Held(disk)
    BY <1>7 DEF ResumeQuota, ResumeStorage, Held, ViolationUnresolved
  <2>. HIDE DEF u
  <2>3. /\ ~Held([u EXCEPT !.resumes = @ + 1]) /\ ~Held([u EXCEPT !.kind = "none"])
        /\ [u EXCEPT !.resumes = @ + 1].accepted = disk.accepted
        /\ [u EXCEPT !.kind = "none"].accepted = disk.accepted
    BY <2>1 DEF RunState, Held, ViolationUnresolved
  <2>. QED  BY <1>3, <1>7, <2>2, <2>3 DEF ResumeQuota, ResumeStorage, u
<1>8. CASE OpFindsLocked \/ OpFilesStop
  <2>1. UNCHANGED <<disk, pc, mem, behind, cand>> /\ InStep'
    BY <1>8 DEF OpFindsLocked, OpFilesStop, hand, HaltInv, InStep, Agree
  <2>2. LockIsDrivers' /\ BegunIsActive' /\ FrozenIsInHand' /\ HeldIsHalted'
    BY <1>8, <2>1 DEF OpFindsLocked, OpFilesStop, HaltInv, LockIsDrivers,
                      BegunIsActive, FrozenIsInHand, HeldIsHalted
  <2>. QED  BY <2>1, <2>2, SameGuarded DEF HaltInv
<1>9. CASE DeliverStart \/ DeliverTree \/ DeliverStatus \/ DeliverPush \/ DeliverStops
  <2>. USE DEF DeliverStart, DeliverTree, DeliverStatus, DeliverGoesTo, DeliverPush,
               DeliverStops
  <2>1. /\ UNCHANGED <<disk, pc, mem, cand>> /\ lock' # "driver"
        /\ pc \notin IterationPC
    BY <1>9 DEF hand, HaltInv, LockIsDrivers
  <2>2. behind' = behind \/ behind' = (pc # "off")
    BY <1>9 DEF hand
  <2>3. ~behind' => pc = "off" \/ ~behind
    BY <2>2, Zenon
  <2>4. InStep' /\ HeldIsHalted'
    BY <2>1, <2>3 DEF HaltInv, InStep, HeldIsHalted, Agree
  <2>. QED  BY <2>1, <2>4, OutsideHalts, SameGuarded
<1>10. CASE DeliverRecord
  <2>1. pc \notin IterationPC /\ pc' = pc /\ lock' = "free" /\ UNCHANGED mem
    BY <1>10 DEF DeliverRecord, HaltInv, LockIsDrivers
  <2>2. disk' = Transition(disk, "READY_FOR_DELIVERY") /\ behind' = (pc # "off")
    BY <1>10 DEF DeliverRecord
  <2>3. Follows(disk, disk') /\ disk'.accepted = disk.accepted /\ HeldIsHalted'
    BY <1>0, <2>2, TransitionDoes DEF Stage, Follows, Held, ViolationUnresolved, HaltInv,
                                      HeldIsHalted
  <2>4. InStep'
    BY <2>1, <2>2 DEF InStep
  <2>. QED  BY <2>1, <2>3, <2>4, OutsideHalts, FollowsGuarded
<1>. QED  BY <1>4, <1>5, <1>6, <1>7, <1>8, <1>9, <1>10 DEF Deliver

\* One step keeps the invariant and lifts nothing it may not.
LEMMA HaltStep == ASSUME TypeOK, HaltInv, [Next]_vars PROVE HaltInv' /\ Guarded
<1>1. CASE Driver
  BY <1>1, ProcessHalts, PlanningHalts, VerdictHalts, FailureHalts DEF Driver
<1>2. CASE Environment
  BY <1>2, ProcessHalts, FailureHalts, OperatorHalts DEF Environment
<1>3. CASE UNCHANGED vars
  <2>1. HaltInv'
    BY <1>3 DEF vars, HaltInv, InStep, Agree, LockIsDrivers, BegunIsActive, FrozenIsInHand,
                HeldIsHalted
  <2>. QED  BY <1>3, <2>1, SameGuarded DEF vars
<1>. QED  BY <1>1, <1>2, <1>3 DEF Next

\* The inductive invariant holds of every behaviour of the run.
LEMMA HaltAlways == Spec => []HaltInv
<1>1. Init => HaltInv
  BY DEF Init, NewState, HaltInv, InStep, LockIsDrivers, BegunIsActive, FrozenIsInHand,
         HeldIsHalted, ViolationUnresolved, IterationPC, BegunPC, FrozenPC, JudgedPC
<1>2. TypeOK /\ HaltInv /\ [Next]_vars => HaltInv'
  BY HaltStep
<1>. QED  BY <1>1, <1>2, Typing, PTL DEF Spec

\* A step that leaves target, delivery and the delivery's lock alone, and the branch while a
\* delivery has compared it, keeps what deliveries are promised.
LEMMA DeliveryFrame ==
    ASSUME DeliveryInv, results \subseteq results', UNCHANGED <<target, delivery>>,
           lock' = "deliver" <=> lock = "deliver",
           head' = head \/ lock # "deliver"
    PROVE  DeliveryInv'
<1>1. \A t : Proven(results, t) => Proven(results', t)
  BY ProvenGrows
<1>2. DeliveredIsProven'
  BY <1>1 DEF DeliveryInv, DeliveredIsProven
<1>3. DeliverHoldsLock'
  BY DEF DeliveryInv, DeliverHoldsLock
<1>4. ComparedIsProven'
  BY <1>1 DEF DeliveryInv, DeliverHoldsLock, ComparedIsProven
<1>. QED  BY <1>2, <1>3, <1>4 DEF DeliveryInv

\* While a delivery has the lock the loop is outside every iteration: it files no result over
\* an old one, takes no lock and keeps off the branch.
LEMMA DriverDelivers ==
    ASSUME HaltInv, DeliveryInv, Driver PROVE DeliveryInv'
<1>1. /\ \A s, n : WriteState(s, n) => UNCHANGED lock \/ lock' = "free"
      /\ \A s : EndIteration(s) => lock' = "free"
      /\ \A n : Goto(n) => UNCHANGED lock
      /\ Raise => lock' = "free"
  BY DEF WriteState, EndIteration, Goto, Raise
<1>2. pc \in IterationPC => lock = "driver"
  BY DEF HaltInv, LockIsDrivers
<1>3. CASE RecordIsolation \/ TakeLock \/ LeaveLoop \/ AbortIteration \/ CloseRun
  BY <1>3, DeliveryFrame DEF RecordIsolation, TakeLock, LeaveLoop, AbortIteration, CloseRun,
                             files, git
<1>4. CASE Gates \/ ReadStop \/ ClearStop \/ HaltRun \/ HoldWorkspace \/ Begin
  <2>1. lock = "driver" /\ lock' \in {"free", "driver"}
    BY <1>1, <1>2, <1>4 DEF Gates, ReadStop, ClearStop, HaltRun, HoldWorkspace, Begin, IterationPC
  <2>2. UNCHANGED <<results, target, delivery>>
    BY <1>4 DEF Gates, ReadStop, ClearStop, HaltRun, HoldWorkspace, Begin, files, git
  <2>. QED  BY <2>1, <2>2, DeliveryFrame
<1>5. CASE SnapshotBase \/ Plan \/ WritePlan \/ EnterDeveloping \/ Develop
  <2>1. lock = "driver" /\ lock' \in {"free", "driver"}
    BY <1>1, <1>2, <1>5 DEF SnapshotBase, Plan, WritePlan, EnterDeveloping, Develop, IterationPC
  <2>2. results \subseteq results' /\ UNCHANGED <<target, delivery>>
    BY <1>5 DEF SnapshotBase, Plan, WritePlan, EnterDeveloping, Develop, files, git
  <2>. QED  BY <2>1, <2>2, DeliveryFrame
<1>6. CASE FreezeCandidate \/ EnterVerifying \/ Verify \/ WriteQa \/ WriteEvidence
  <2>1. lock = "driver" /\ lock' \in {"free", "driver"}
    BY <1>1, <1>2, <1>6 DEF FreezeCandidate, EnterVerifying, Verify, WriteQa, WriteEvidence,
                            IterationPC
  <2>2. results \subseteq results' /\ UNCHANGED <<target, delivery>>
    BY <1>6 DEF FreezeCandidate, EnterVerifying, Verify, WriteQa, WriteEvidence, files, git
  <2>. QED  BY <2>1, <2>2, DeliveryFrame
<1>7. CASE \/ PointAtEvidence \/ Decide \/ RecordPreserved \/ CommitCandidate
           \/ AcceptCandidate
  <2>1. lock = "driver" /\ lock' \in {"free", "driver"}
    BY <1>1, <1>2, <1>7 DEF PointAtEvidence, Decide, RecordPreserved, CommitCandidate,
                            AcceptCandidate, IterationPC
  <2>2. results \subseteq results' /\ UNCHANGED <<target, delivery>>
    BY <1>7 DEF PointAtEvidence, Decide, RecordPreserved, CommitCandidate, AcceptCandidate,
                files, git
  <2>. QED  BY <2>1, <2>2, DeliveryFrame
<1>8. CASE RoleFails \/ RoleViolates \/ StorageRefuses
  <2>1. lock = "driver" /\ lock' = "free"
    BY <1>1, <1>2, <1>8 DEF RoleFails, RoleViolates, StorageRefuses, IterationPC
  <2>2. UNCHANGED <<results, target, delivery>>
    BY <1>8 DEF RoleFails, RoleViolates, StorageRefuses, files, git
  <2>. QED  BY <2>1, <2>2, DeliveryFrame
<1>. QED  BY <1>3, <1>4, <1>5, <1>6, <1>7, <1>8 DEF Driver

\* The git calls of a delivery: what is compared is accepted, hence proven, and it is pushed
\* as compared unless somebody else committed.
LEMMA DeliverDelivers ==
    ASSUME TypeOK, ProvenInv, DeliveryInv, DeliverStart \/ Deliver
    PROVE  DeliveryInv'
<1>. USE DEF DeliveryInv, DeliveredIsProven, DeliverHoldsLock, ComparedIsProven, files
<1>0. delivery \in Delivery
  BY DEF TypeOK, GitOK
<1>1. CASE DeliverStart
  BY <1>0, <1>1 DEF DeliverStart, Delivery
<1>2. CASE DeliverTree
  <2>1. Proven(results, head)
    BY <1>2, NoTreeAssumption DEF DeliverTree, ProvenInv, AcceptedIsProven, TypeOK, GitOK, Tree
  <2>. QED  BY <1>0, <1>2, <2>1 DEF DeliverTree, DeliverGoesTo, Delivery
<1>3. CASE DeliverStatus
  BY <1>0, <1>3 DEF DeliverStatus, DeliverGoesTo, Delivery
<1>4. CASE DeliverPush
  BY <1>0, <1>4 DEF DeliverPush, Delivery
<1>5. CASE DeliverRecord
  BY <1>0, <1>5 DEF DeliverRecord, Delivery
<1>6. CASE DeliverStops
  BY <1>0, <1>6 DEF DeliverStops, Delivery
<1>. QED  BY <1>1, <1>2, <1>3, <1>4, <1>5, <1>6 DEF Deliver

\* Everybody else: who commits on a branch that was compared is noted.
LEMMA OthersDeliver ==
    ASSUME TypeOK, HaltInv, ProvenInv, DeliveryInv, Environment
    PROVE  DeliveryInv'
<1>1. CASE StartRun \/ OpFindsLocked \/ OpFilesStop
  BY <1>1, DeliveryFrame DEF StartRun, OpFindsLocked, OpFilesStop, files, git
<1>2. CASE StepRaises \/ Crash
  <2>1. pc \in IterationPC => lock = "driver"
    BY DEF HaltInv, LockIsDrivers
  <2>. QED  BY <1>2, <2>1, DeliveryFrame DEF StepRaises, Crash, Raise, files, git
<1>3. CASE StrayWrite
  <2>1. delivery \in Delivery
    BY DEF TypeOK, GitOK
  <2>. QED  BY <1>3, <2>1 DEF StrayWrite, files, Delivery, DeliveryInv, DeliveredIsProven,
                              DeliverHoldsLock, ComparedIsProven
<1>4. CASE OpPause \/ OpCancel \/ OpUnblock \/ OpResume \/ ResumeQuota \/ ResumeStorage
  <2>1. \E s : Command(s)
    BY <1>4 DEF OpPause, OpCancel, OpUnblock, OpResume, ResumeQuota, ResumeStorage
  <2>. QED  BY <2>1, DeliveryFrame DEF Command, files, git
<1>5. CASE DeliverStart \/ Deliver
  BY <1>5, DeliverDelivers
<1>. QED  BY <1>1, <1>2, <1>3, <1>4, <1>5 DEF Environment

\* The inductive invariant holds of every delivery.
LEMMA DeliveryAlways == Spec => []DeliveryInv
<1>1. Init => DeliveryInv
  BY DEF Init, NoDelivery, DeliveryInv, DeliveredIsProven, DeliverHoldsLock, ComparedIsProven
<1>2. TypeOK /\ HaltInv /\ ProvenInv /\ DeliveryInv /\ [Next]_vars => DeliveryInv'
  <2>. SUFFICES ASSUME TypeOK, HaltInv, ProvenInv, DeliveryInv, [Next]_vars PROVE DeliveryInv'
    OBVIOUS
  <2>1. CASE UNCHANGED vars
    BY <2>1, DeliveryFrame DEF vars
  <2>. QED  BY <2>1, DriverDelivers, OthersDeliver DEF Next
<1>. QED  BY <1>1, <1>2, Typing, HaltAlways, ProvenAlways, PTL DEF Spec

\* For every set of criteria, every budget and every sequence of crashes and commands: what
\* the state calls accepted has a full, discriminating PASS on file, and so has what
\* `hoh deliver` pushes, unless somebody outside the loop committed on the branch between the
\* comparison of its tree and the push by its name (_run_iteration_locked, cmd_deliver,
\* delivery.deliver).
THEOREM AlwaysProven == Spec => []OnlyProven
<1>1. ProvenInv /\ DeliveryInv => OnlyProven
  BY DEF ProvenInv, DeliveryInv, OnlyProven
<1>. QED  BY <1>1, ProvenAlways, DeliveryAlways, PTL

\* However commands, waits, parks, contract outcomes and crashes follow one another: no role
\* is dispatched while the run is halted on disk, and a run held for a capability violation
\* is not ACTIVE (begin_iteration, write_state's fence, violation_unresolved).
THEOREM HaltIsAlwaysKept == Spec => []HaltIsKept
<1>1. HaltInv => HaltIsKept
  BY DEF HaltInv, HaltIsKept, NoDispatchWhileHalted, BegunIsActive, BegunPC
<1>. QED  BY <1>1, HaltAlways, PTL

\* A halt is lifted by a command only, and the hold of a violation by unblocking a BLOCKED
\* run only: no driver with a stale object, no timer and no contract does (write_state).
THEOREM OnlyCommandsLiftHolds == Spec => OnlyCommandsLift
<1>1. TypeOK /\ HaltInv /\ [Next]_vars => [LiftsHalt /\ LiftsHold]_vars
  BY HaltStep DEF Guarded
<1>2. Spec => [][LiftsHalt /\ LiftsHold]_vars
  BY <1>1, HaltAlways, Typing, PTL DEF Spec
<1>. QED  BY <1>2, PTL DEF OnlyCommandsLift, HaltLiftedByCommand, HoldIsSticky,
             LiftsHalt, LiftsHold

\* What a run accepts is the tree its state had frozen before QA (freeze, accept_checkpoint).
THEOREM AcceptedWasFrozenHolds == Spec => AcceptedWasFrozen
<1>. DEFINE TakesFrozen == disk'.accepted # disk.accepted => disk'.accepted = disk.frozen
<1>1. TypeOK /\ HaltInv /\ [Next]_vars => [TakesFrozen]_vars
  BY HaltStep DEF Guarded, AcceptsFrozenTree
<1>2. Spec => [][TakesFrozen]_vars
  BY <1>1, HaltAlways, Typing, PTL DEF Spec
<1>. QED  BY <1>2, PTL DEF AcceptedWasFrozen, TakesFrozen
-----------------------------------------------------------------------------
(* The preservation suite.  A step leaves the suite, the result and the    *)
(* candidate alone or takes the control point out of reach of them.        *)

\* The control points at which PreservedInv says something.
SuitePC == JudgedPC \cup {"judged"}

\* A write, a move and a raise, as far as the suite is concerned.
LEMMA StepsKeepSuite ==
    ASSUME PreservedInv, UNCHANGED <<checks, res, cand>>,
           pc' \in SuitePC => pc' = pc \/ <<pc, pc'>> \in
             {<<"judged", "evidence">>, <<"evidence", "point">>, <<"point", "decide">>,
              <<"decide", "preserve">>, <<"commit", "accept">>}
    PROVE  PreservedInv'
BY DEF PreservedInv, SuitePC, JudgedPC

\* So the suite is left alone by a step that leaves its control points for good.
LEMMA LeavesSuite == ASSUME pc' \notin SuitePC PROVE PreservedInv'
BY DEF PreservedInv, SuitePC, JudgedPC

\* Where the writes lead.
LEMMA WritesGo ==
    /\ \A s, n : WriteState(s, n) => pc' = "abort" \/ (pc' = n /\ UNCHANGED hand)
    /\ \A s : EndIteration(s) => pc' \in {"between", "abort"}
    /\ \A n : Goto(n) => pc' = n
    /\ Raise => pc' = "abort"
BY DEF WriteState, EndIteration, Goto, Raise

\* From the verdict to the acceptance: what QA judged covers the suite, and so does the
\* candidate once the suite has grown by what it passed.
LEMMA VerdictPreserves ==
    ASSUME TypeOK, ProvenInv, PreservedInv,
           \/ Verify \/ WriteQa \/ WriteEvidence \/ PointAtEvidence \/ Decide
           \/ RecordPreserved \/ CommitCandidate \/ AcceptCandidate
    PROVE  PreservedInv'
<1>. USE DEF SuitePC, JudgedPC
<1>1. CASE Verify
  <2>1. CASE Goto("judged") /\ res' \in Verdicts
    <3>1. res'.checks = plan \cup checks /\ checks' = checks /\ pc' = "judged"
      BY <1>1, <2>1 DEF Verify, Verdicts, ChecksFor, Goto, files
    <3>. QED  BY <3>1 DEF PreservedInv
  <2>2. CASE \E h \in Contract : EndIteration(BlockUnderContract(mem, FALSE, h))
    BY <2>2, WritesGo, LeavesSuite
  <2>. QED  BY <1>1, <2>1, <2>2 DEF Verify
<1>2. CASE WriteQa
  <2>1. UNCHANGED checks /\ (pc' = "abort" \/ (pc' = "evidence" /\ UNCHANGED hand))
    BY <1>2, WritesGo DEF WriteQa
  <2>. QED  BY <1>2, <2>1, LeavesSuite, StepsKeepSuite DEF WriteQa, hand
<1>3. CASE WriteEvidence
  BY <1>3, WritesGo, StepsKeepSuite DEF WriteEvidence, hand
<1>4. CASE PointAtEvidence
  <2>1. UNCHANGED checks /\ (pc' = "abort" \/ (pc' = "decide" /\ UNCHANGED hand))
    BY <1>4, WritesGo DEF PointAtEvidence, files
  <2>. QED  BY <1>4, <2>1, LeavesSuite, StepsKeepSuite DEF PointAtEvidence, hand
<1>5. CASE Decide
  <2>1. UNCHANGED checks /\ (pc' \in {"between", "abort"} \/ (pc' = "preserve" /\ UNCHANGED hand))
    BY <1>5, WritesGo DEF Decide, files
  <2>. QED  BY <1>5, <2>1, LeavesSuite, StepsKeepSuite DEF Decide, hand
<1>6. CASE RecordPreserved
  <2>1. /\ checks \subseteq res.checks /\ res.pass = res.checks /\ res.pass \subseteq cand
    BY <1>6 DEF RecordPreserved, PreservedInv, ProvenInv, DecidedIsAccepted, DecidedPC,
                Accepted, VerdictIsSound
  <2>2. checks' = checks \cup res.pass /\ cand' = cand /\ pc' = "commit"
    BY <1>6, WritesGo DEF RecordPreserved, hand
  <2>. QED  BY <2>1, <2>2 DEF PreservedInv
<1>7. CASE CommitCandidate
  BY <1>7, WritesGo, StepsKeepSuite DEF CommitCandidate, files, hand
<1>8. CASE AcceptCandidate
  BY <1>8, WritesGo, LeavesSuite DEF AcceptCandidate
<1>. QED  BY <1>1, <1>2, <1>3, <1>4, <1>5, <1>6, <1>7, <1>8

\* Before the verdict, and where an iteration ends early, nothing of it is in question.
LEMMA DriverPreserves ==
    ASSUME PreservedInv,
           \/ RecordIsolation \/ TakeLock \/ LeaveLoop \/ AbortIteration \/ CloseRun
           \/ Gates \/ ReadStop \/ ClearStop \/ HaltRun \/ HoldWorkspace \/ Begin
           \/ SnapshotBase \/ Plan \/ WritePlan \/ EnterDeveloping \/ Develop
           \/ FreezeCandidate \/ EnterVerifying
           \/ RoleFails \/ RoleViolates \/ StorageRefuses
    PROVE  PreservedInv'
<1>1. CASE RecordIsolation \/ TakeLock \/ LeaveLoop \/ AbortIteration \/ CloseRun
  <2>1. pc' \notin SuitePC
    BY <1>1 DEF RecordIsolation, TakeLock, LeaveLoop, AbortIteration, CloseRun, SuitePC, JudgedPC
  <2>. QED  BY <2>1, LeavesSuite
<1>2. CASE Gates \/ ReadStop \/ ClearStop \/ HaltRun \/ HoldWorkspace \/ Begin
  <2>1. CASE ReadStop
    <3>1. pc' \in {"begin", "hold", "develop", "verify", "clear"}
      BY <2>1, WritesGo DEF ReadStop, Boundary
    <3>. QED  BY <3>1, LeavesSuite DEF SuitePC, JudgedPC
  <2>2. CASE Gates
    <3>1. pc' \in {"stop_start", "between", "abort"}
      BY <2>2, WritesGo DEF Gates
    <3>. QED  BY <3>1, LeavesSuite DEF SuitePC, JudgedPC
  <2>3. CASE ClearStop \/ HaltRun \/ HoldWorkspace \/ Begin
    BY <2>3, WritesGo, LeavesSuite DEF ClearStop, HaltRun, HoldWorkspace, Begin, SuitePC, JudgedPC
  <2>. QED  BY <1>2, <2>1, <2>2, <2>3
<1>3. CASE SnapshotBase \/ Plan \/ WritePlan \/ EnterDeveloping \/ Develop
  <2>1. pc' \notin SuitePC
    BY <1>3, WritesGo DEF SnapshotBase, Plan, WritePlan, EnterDeveloping, Develop,
                          SuitePC, JudgedPC
  <2>. QED  BY <2>1, LeavesSuite
<1>4. CASE FreezeCandidate \/ EnterVerifying
  <2>1. pc' \notin SuitePC
    BY <1>4, WritesGo DEF FreezeCandidate, EnterVerifying, SuitePC, JudgedPC
  <2>. QED  BY <2>1, LeavesSuite
<1>5. CASE RoleFails \/ RoleViolates \/ StorageRefuses
  <2>1. pc' \notin SuitePC
    BY <1>5, WritesGo DEF RoleFails, RoleViolates, StorageRefuses, SuitePC, JudgedPC
  <2>. QED  BY <2>1, LeavesSuite
<1>. QED  BY <1>1, <1>2, <1>3, <1>4, <1>5

\* Nobody else touches the suite, the result or the candidate of a living driver.
LEMMA OthersPreserve ==
    ASSUME PreservedInv, Environment PROVE PreservedInv'
<1>1. CASE StartRun \/ StepRaises \/ Crash
  <2>1. pc' \notin SuitePC
    BY <1>1, WritesGo DEF StartRun, StepRaises, Crash, SuitePC, JudgedPC
  <2>. QED  BY <2>1, LeavesSuite
<1>2. CASE StrayWrite \/ OpFindsLocked \/ OpFilesStop \/ DeliverStart \/ Deliver
  <2>1. UNCHANGED <<pc, checks, res, cand>>
    BY <1>2 DEF StrayWrite, OpFindsLocked, OpFilesStop, DeliverStart, Deliver, DeliverTree,
                DeliverStatus, DeliverGoesTo, DeliverPush, DeliverRecord, DeliverStops, files,
                hand
  <2>. QED  BY <2>1, StepsKeepSuite
<1>3. CASE OpPause \/ OpCancel \/ OpUnblock \/ OpResume \/ ResumeQuota \/ ResumeStorage
  <2>1. \E s : Command(s)
    BY <1>3 DEF OpPause, OpCancel, OpUnblock, OpResume, ResumeQuota, ResumeStorage
  <2>2. UNCHANGED <<pc, checks, res, cand>>
    BY <2>1 DEF Command, files, hand
  <2>. QED  BY <2>2, StepsKeepSuite
<1>. QED  BY <1>1, <1>2, <1>3 DEF Environment

\* The inductive invariant holds of every behaviour of the run.
LEMMA PreservedAlways == Spec => []PreservedInv
<1>1. Init => PreservedInv
  BY DEF Init, PreservedInv
<1>2. TypeOK /\ ProvenInv /\ PreservedInv /\ [Next]_vars => PreservedInv'
  <2>. SUFFICES ASSUME TypeOK, ProvenInv, PreservedInv, [Next]_vars PROVE PreservedInv'
    OBVIOUS
  <2>1. CASE Driver
    BY <2>1, VerdictPreserves, DriverPreserves DEF Driver
  <2>2. CASE Environment
    BY <2>2, OthersPreserve
  <2>3. CASE UNCHANGED vars
    <3>1. UNCHANGED <<pc, checks, res, cand>>
      BY <2>3 DEF vars, files, hand
    <3>. QED  BY <3>1, StepsKeepSuite
  <2>. QED  BY <2>1, <2>2, <2>3 DEF Next
<1>. QED  BY <1>1, <1>2, Typing, ProvenAlways, PTL DEF Spec

\* Whatever number of iterations, processes, crashes and commands lies between two
\* acceptances, the later one gives up no criterion an earlier one recorded in the
\* preservation suite (_checks_for, _record_preserved).
THEOREM NothingRegresses == Spec => NoRegression
<1>. DEFINE Keeps == disk'.accepted # disk.accepted => checks \subseteq disk'.accepted
<1>1. TypeOK /\ HaltInv /\ PreservedInv /\ [Next]_vars => [Keeps]_vars
  <2>. SUFFICES ASSUME TypeOK, HaltInv, PreservedInv, [Next]_vars,
                       disk'.accepted # disk.accepted
                PROVE  checks \subseteq disk'.accepted
    OBVIOUS
  <2>1. pc = "accept" /\ disk'.accepted = disk.frozen
    BY HaltStep DEF Guarded, AcceptsFrozenTree
  <2>2. disk.frozen = cand
    BY <2>1 DEF HaltInv, FrozenIsInHand, FrozenPC, JudgedPC
  <2>. QED  BY <2>1, <2>2 DEF PreservedInv
<1>2. Spec => [][Keeps]_vars
  BY <1>1, HaltAlways, PreservedAlways, Typing, PTL DEF Spec
<1>. QED  BY <1>2, PTL DEF NoRegression, Keeps
-----------------------------------------------------------------------------
(* Charges.  What the judged iterations cost, as a fact about a finite set  *)
(* of iterations and a state.                                               *)

\* What the charge depends on.
Count(s) == <<s.stage, s.iteration, s.used>>

\* t is s, with the charge of its planning given back.
Refunded(s, t) ==
    /\ t.stage = s.stage /\ t.iteration = s.iteration
    /\ t.used = IF s.stage = "PLANNING" /\ s.used > 0 THEN s.used - 1 ELSE s.used

\* The state of a full charge stays charged when it moves within its iteration, plans the
\* next one, or gives back the charge of a planning that came to nothing.
LEMMA FullyCharges ==
    ASSUME NEW J \in SUBSET Nat, IsFiniteSet(J), NEW s \in RunState, NEW t \in RunState,
           \A i \in J : i <= s.iteration, FullyCharged(J, s)
    PROVE  /\ t.iteration = s.iteration /\ t.used = s.used => Charged(J, t)
           /\ t.stage = "PLANNING" /\ t.iteration = s.iteration + 1 /\ t.used = s.used
                => Charged(J, t)
           /\ Refunded(s, t) => Charged(J, t)
<1>. DEFINE n == s.iteration
            K == J \cup {n}
<1>0. n \in Nat /\ s.used \in Nat /\ t.used \in Nat
  BY DEF RunState
<1>1. IsFiniteSet(K) /\ Cardinality(K) <= s.used /\ Cardinality(K) \in Nat
  BY FS_AddElement, FS_CardinalityType DEF FullyCharged
<1>2. \A T \in SUBSET K : Cardinality(T) <= s.used /\ Cardinality(T) \in Nat
  <2>1. \A T \in SUBSET K : IsFiniteSet(T) /\ Cardinality(T) <= Cardinality(K)
    BY <1>1, FS_Subset
  <2>2. \A T \in SUBSET K : Cardinality(T) \in Nat
    BY <2>1, FS_CardinalityType
  <2>. QED  BY <1>0, <1>1, <2>1, <2>2
<1>3. Cardinality(K \ {n}) = Cardinality(K) - 1 /\ K \ {n} = J \ {n}
  BY <1>1, FS_RemoveElement
<1>. HIDE DEF n
<1>4. ASSUME t.iteration = n, t.used = s.used PROVE Charged(J, t)
  <2>1. Due(J, t) \in SUBSET K
    BY <1>4 DEF Due
  <2>. QED  BY <1>2, <1>4, <2>1 DEF Charged, n
<1>5. ASSUME t.stage = "PLANNING", t.iteration = n + 1, t.used = s.used PROVE Charged(J, t)
  <2>1. Due(J, t) \in SUBSET K
    BY <1>5 DEF Due
  <2>2. \A j \in J : j <= n + 1
    BY <1>0 DEF n
  <2>. QED  BY <1>2, <1>5, <2>1, <2>2 DEF Charged
<1>6. ASSUME t.stage = s.stage, t.iteration = n,
             t.used = IF s.stage = "PLANNING" /\ s.used > 0 THEN s.used - 1 ELSE s.used
      PROVE  Charged(J, t)
  <2>1. CASE s.stage = "PLANNING" /\ s.used > 0
    <3>1. Due(J, t) = J \ {n} /\ t.used = s.used - 1
      BY <1>6, <2>1 DEF Due
    <3>2. Cardinality(Due(J, t)) <= t.used
      <4>. HIDE DEF K
      <4>. QED  BY <1>0, <1>1, <1>3, <3>1
    <3>. QED  BY <1>6, <3>2 DEF Charged, n
  <2>2. CASE ~(s.stage = "PLANNING" /\ s.used > 0)
    BY <1>4, <1>6, <2>2
  <2>. QED  BY <2>1, <2>2
<1>7. t.iteration = s.iteration /\ t.used = s.used => Charged(J, t)
  BY <1>4 DEF n
<1>8. t.stage = "PLANNING" /\ t.iteration = s.iteration + 1 /\ t.used = s.used => Charged(J, t)
  BY <1>5 DEF n
<1>9. Refunded(s, t) => Charged(J, t)
  BY <1>6 DEF n, Refunded
<1>. QED  BY <1>7, <1>8, <1>9

\* One element more counts one more at most.
LEMMA OneMore ==
    ASSUME NEW S, NEW x, IsFiniteSet(S)
    PROVE  Cardinality(S \cup {x}) \in Nat /\ Cardinality(S \cup {x}) <= Cardinality(S) + 1
<1>1. /\ IsFiniteSet(S \cup {x})
      /\ Cardinality(S \cup {x}) = IF x \in S THEN Cardinality(S) ELSE Cardinality(S) + 1
  BY FS_AddElement
<1>2. Cardinality(S) \in Nat /\ Cardinality(S \cup {x}) \in Nat
  BY <1>1, FS_CardinalityType
<1>. QED  BY <1>1, <1>2

\* begin_iteration charges what it is about to judge.
LEMMA BeginCharges ==
    ASSUME NEW J \in SUBSET Nat, IsFiniteSet(J), NEW s \in RunState, Charged(J, s)
    PROVE  Charged(J, BeginIteration(s)) /\ FullyCharged(J, BeginIteration(s))
<1>. DEFINE u == BeginIteration(s)
<1>0. s.iteration \in Nat /\ s.used \in Nat /\ u \in RunState /\ u.stage = "PLANNING"
  BY BeginType, BeginDoes DEF RunState
<1>1. \A x : IsFiniteSet(J \cup {x}) /\ IsFiniteSet(J \ {x})
  BY FS_AddElement, FS_RemoveElement
<1>2. FullyCharged(J, u) /\ \A i \in J : i <= u.iteration
  <2>1. CASE s.stage = "PLANNING"
    <3>. DEFINE R == J \ {s.iteration}
    <3>1. u.iteration = s.iteration /\ u.used = s.used + 1
      BY <2>1, BeginDoes
    <3>2. Cardinality(R) <= s.used /\ Cardinality(R) \in Nat
      BY <1>1, <2>1, FS_CardinalityType DEF Charged, Due
    <3>3. Cardinality(R \cup {s.iteration}) <= Cardinality(R) + 1
      BY <1>1, OneMore
    <3>4. R \cup {s.iteration} = J \cup {s.iteration}
      OBVIOUS
    <3>5. Cardinality(J \cup {s.iteration}) \in Nat
      BY <1>1, FS_CardinalityType
    <3>6. Cardinality(J \cup {s.iteration}) <= s.used + 1
      <4>. HIDE DEF R
      <4>. QED  BY <1>0, <3>2, <3>3, <3>4, <3>5
    <3>. QED  BY <3>1, <3>6 DEF FullyCharged, Charged
  <2>2. CASE s.stage \in {"DEVELOPING", "VERIFYING"}
    <3>1. u.iteration = s.iteration /\ u.used = s.used
      BY <2>2, BeginDoes
    <3>2. Due(J, s) = J \cup {s.iteration}
      BY <2>2 DEF Due
    <3>. QED  BY <3>1, <3>2 DEF FullyCharged, Charged
  <2>3. CASE s.stage \notin {"PLANNING", "DEVELOPING", "VERIFYING"}
    <3>1. u.iteration = s.iteration + 1 /\ u.used = s.used + 1
      BY <2>3, BeginDoes
    <3>2. Due(J, s) = J
      BY <2>3 DEF Due
    <3>3. Cardinality(J) <= s.used /\ Cardinality(J) \in Nat
      BY <3>2, FS_CardinalityType DEF Charged
    <3>4. Cardinality(J \cup {u.iteration}) <= Cardinality(J) + 1
      BY OneMore
    <3>5. Cardinality(J \cup {u.iteration}) \in Nat
      BY <1>1, FS_CardinalityType
    <3>6. FullyCharged(J, u)
      BY <1>0, <3>1, <3>3, <3>4, <3>5 DEF FullyCharged
    <3>7. \A i \in J : i <= s.iteration + 1
      BY <1>0 DEF Charged
    <3>. QED  BY <3>1, <3>6, <3>7
  <2>. QED  BY <2>1, <2>2, <2>3
<1>. HIDE DEF u
<1>3. Charged(J, u)
  BY <1>0, <1>2, FullyCharges
<1>. QED  BY <1>2, <1>3 DEF u

\* States of the same count have the same charge.
LEMMA SameCharge ==
    ASSUME NEW J, NEW s, NEW t, Count(s) = Count(t)
    PROVE  (Charged(J, s) <=> Charged(J, t)) /\ (FullyCharged(J, s) <=> FullyCharged(J, t))
BY DEF Count, Charged, FullyCharged, Due

\* The judged iterations are numbers, and only QA's file adds one.
LEMMA JudgedType == ASSUME TypeOK PROVE Judged \in SUBSET Nat
BY DEF TypeOK, FilesOK, File, Judged

LEMMA SameJudged == ASSUME UNCHANGED results PROVE Judged' = Judged
BY DEF Judged

\* A step that neither counts nor judges nor enters an iteration.
LEMMA QuietCharges ==
    ASSUME ChargedInv, UNCHANGED results, Count(disk') = Count(disk),
           pc' \in BegunPC => pc \in BegunPC
    PROVE  ChargedInv'
BY SameJudged, SameCharge DEF ChargedInv, BegunPC, JudgedPC

\* The object in hand has the file's charge.
ChargedMem == /\ Charged(Judged, mem) /\ (pc \in BegunPC => FullyCharged(Judged, mem))

LEMMA MemCharged ==
    ASSUME HaltInv, ChargedInv, pc \in IterationPC, ~behind PROVE ChargedMem
<1>1. Count(mem) = Count(disk)
  BY DEF HaltInv, InStep, IterationPC, Agree, Count
<1>. QED  BY <1>1, SameCharge DEF ChargedInv, ChargedMem

\* A raised exception.
LEMMA RaiseCharges ==
    ASSUME ChargedInv, Raise, UNCHANGED results PROVE ChargedInv'
BY QuietCharges DEF Raise, Count, BegunPC, JudgedPC

\* A write in the middle of an iteration, and the one at its end.
LEMMA WriteCharges ==
    ASSUME HaltInv, ChargedInv, pc \in IterationPC, UNCHANGED results,
           NEW s, NEW next, WriteState(s, next),
           ChargedMem => Charged(Judged, s) /\ (next \in BegunPC => FullyCharged(Judged, s))
    PROVE  ChargedInv'
<1>1. CASE Raise
  BY <1>1, RaiseCharges
<1>2. CASE ~Raise
  BY <1>2, MemCharged, SameJudged DEF WriteState, ChargedInv
<1>. QED  BY <1>1, <1>2

LEMMA EndCharges ==
    ASSUME HaltInv, ChargedInv, pc \in IterationPC, UNCHANGED results,
           NEW s, EndIteration(s), ChargedMem => Charged(Judged, s)
    PROVE  ChargedInv'
<1>1. CASE Raise
  BY <1>1, RaiseCharges
<1>2. CASE ~Raise
  <2>1. ~behind /\ disk' = s /\ pc' = "between"
    BY <1>2 DEF EndIteration
  <2>. QED  BY <2>1, MemCharged, SameJudged DEF ChargedInv, BegunPC, JudgedPC
<1>. QED  BY <1>1, <1>2

\* A halt that keeps the place ends it with the charge it had.
LEMMA EndHaltCharges ==
    ASSUME HaltInv, ChargedInv, pc \in IterationPC, UNCHANGED results,
           NEW s, EndIteration(s), Halts(mem, s)
    PROVE  ChargedInv'
<1>1. Count(mem) = Count(s)
  BY DEF Halts, Place, Count
<1>. QED  BY <1>1, SameCharge, EndCharges DEF ChargedMem

\* The process around the iterations, and the commands, count nothing.
LEMMA ProcessCharges ==
    ASSUME TypeOK, HaltInv, ChargedInv,
           StartRun \/ RecordIsolation \/ TakeLock \/ LeaveLoop \/ AbortIteration \/ CloseRun
    PROVE  ChargedInv'
<1>0. disk \in RunState /\ UNCHANGED results
  BY DEF TypeOK, DriverOK, StartRun, RecordIsolation, TakeLock, LeaveLoop, AbortIteration,
         CloseRun, files
<1>1. pc' \notin BegunPC
  BY DEF StartRun, RecordIsolation, TakeLock, LeaveLoop, AbortIteration, CloseRun, BegunPC,
         JudgedPC
<1>2. CASE StartRun \/ TakeLock \/ LeaveLoop
  BY <1>0, <1>1, <1>2, QuietCharges DEF StartRun, TakeLock, LeaveLoop, Count
<1>3. CASE RecordIsolation
  <2>1. Count(disk') = Count(disk)
    BY <1>3 DEF RecordIsolation, HaltInv, InStep, Agree, Count
  <2>. QED  BY <1>0, <1>1, <2>1, QuietCharges
<1>4. CASE AbortIteration
  <2>1. disk' = disk \/ Halts(disk, disk')
    BY <1>0, <1>4, ContractDoes, ContractAssumption DEF AbortIteration
  <2>. QED  BY <1>0, <1>1, <2>1, QuietCharges DEF Halts, Place, Count
<1>5. CASE CloseRun
  <2>0. Halts(disk, Fail(disk)) /\ \A h \in Contract : Halts(disk, BlockViolation(disk, h))
    BY <1>0, ConditionDoes, ContractDoes, ContractAssumption
  <2>1. disk' = disk \/ Halts(disk, disk')
    BY <1>5, <2>0 DEF CloseRun
  <2>. QED  BY <1>0, <1>1, <2>1, QuietCharges DEF Halts, Place, Count
<1>. QED  BY <1>2, <1>3, <1>4, <1>5

LEMMA OperatorCharges ==
    ASSUME TypeOK, HaltInv, ChargedInv,
           \/ OpPause \/ OpCancel \/ OpUnblock \/ OpResume \/ ResumeQuota \/ ResumeStorage
           \/ OpFindsLocked \/ OpFilesStop \/ DeliverStart \/ Deliver
    PROVE  ChargedInv'
<1>0. disk \in RunState
  BY DEF TypeOK, DriverOK
<1>1. UNCHANGED <<results, pc>>
  BY DEF OpPause, OpCancel, OpUnblock, OpResume, ResumeQuota, ResumeStorage, OpFindsLocked,
         OpFilesStop, DeliverStart, Deliver, DeliverTree, DeliverStatus, DeliverGoesTo,
         DeliverPush, DeliverRecord, DeliverStops, Command, files
<1>2. CASE OpFindsLocked \/ OpFilesStop \/ DeliverStart \/ (Deliver /\ UNCHANGED disk)
  BY <1>1, <1>2, QuietCharges DEF OpFindsLocked, OpFilesStop, DeliverStart
<1>3. CASE DeliverRecord
  <2>1. /\ CanTransition(disk, "READY_FOR_DELIVERY")
        /\ disk' = Transition(disk, "READY_FOR_DELIVERY")
    BY <1>3 DEF DeliverRecord
  <2>2. disk.stage = "CHECKPOINTED"
    BY <1>0, <2>1 DEF CanTransition, ALLOWED, RunState, Stage
  <2>3. /\ disk'.stage = "READY_FOR_DELIVERY" /\ disk'.iteration = disk.iteration
        /\ disk'.used = disk.used
    BY <1>0, <2>1, TransitionDoes DEF Stage
  <2>4. Due(Judged, disk) = Judged /\ Due(Judged, disk') = Judged
    BY <2>2, <2>3 DEF Due
  <2>5. Charged(Judged, disk')
    BY <2>3, <2>4 DEF ChargedInv, Charged
  <2>6. pc \notin BegunPC
    BY <1>3 DEF DeliverRecord, HaltInv, LockIsDrivers, BegunPC, JudgedPC, IterationPC
  <2>. QED  BY <1>1, <2>5, <2>6, SameJudged DEF ChargedInv
<1>4. CASE ResumeQuota \/ ResumeStorage
  <2>. DEFINE u == Unblock(disk)
  <2>1. u \in RunState /\ Count(u) = Count(disk)
    BY <1>0, ConditionType, ConditionDoes DEF Place, Count
  <2>. HIDE DEF u
  <2>2. /\ Count([u EXCEPT !.resumes = @ + 1]) = Count(u)
        /\ Count([u EXCEPT !.kind = "none"]) = Count(u)
    BY <2>1 DEF RunState, Count
  <2>3. Count(disk') = Count(disk)
    BY <1>4, <2>1, <2>2 DEF ResumeQuota, ResumeStorage, Command, u
  <2>. QED  BY <1>1, <2>3, QuietCharges
<1>5. CASE OpPause \/ OpCancel \/ OpUnblock \/ OpResume
  <2>1. \A h \in Contract : Place(BlockUnderContract(disk, TRUE, h)) = Place(disk)
    BY <1>0, ContractDoes, ContractAssumption DEF Halts
  <2>2. /\ Place(Pause(disk)) = Place(disk) /\ Place(Cancel(disk)) = Place(disk)
        /\ Place(Unblock(disk)) = Place(disk) /\ Place(Resume(disk)) = Place(disk)
    BY <1>0, ConditionDoes DEF Halts
  <2>3. Place(disk') = Place(disk)
    BY <1>5, <2>1, <2>2 DEF OpPause, OpCancel, OpUnblock, OpResume, Command
  <2>. QED  BY <1>1, <2>3, QuietCharges DEF Place, Count
<1>6. Deliver => UNCHANGED disk \/ DeliverRecord
  BY DEF Deliver, DeliverTree, DeliverStatus, DeliverGoesTo, DeliverPush, DeliverStops
<1>. QED  BY <1>2, <1>3, <1>4, <1>5, <1>6

\* The early ends: a refund only where the charge was for this planning.
LEMMA FailureCharges ==
    ASSUME TypeOK, HaltInv, ChargedInv,
           \/ RoleFails \/ RoleViolates \/ StorageRefuses \/ StepRaises \/ Crash
           \/ StrayWrite
    PROVE  ChargedInv'
<1>0. mem \in RunState /\ Judged \in SUBSET Nat /\ IsFiniteSet(Judged) /\ UNCHANGED results
  BY JudgedType DEF TypeOK, DriverOK, ChargedInv, RoleFails, RoleViolates, StorageRefuses,
                    StepRaises, Crash, StrayWrite, files
<1>1. CASE RoleFails
  <2>1. PICK a \in BOOLEAN, r \in BOOLEAN, h \in Contract :
          EndIteration(FailureWait(mem, a, r, h))
    BY <1>1 DEF RoleFails
  <2>. DEFINE s == FailureWait(mem, a, r, h)
  <2>2. s \in RunState /\ Refunded(mem, s)
    BY <1>0, WaitType, FailureDoes, ContractAssumption DEF Refunded
  <2>3. EndIteration(s) /\ pc \in IterationPC /\ pc \in BegunPC
    BY <1>1, <2>1 DEF RoleFails, IterationPC, BegunPC
  <2>. HIDE DEF s
  <2>4. ASSUME ChargedMem PROVE Charged(Judged, s)
    <3>1. (\A i \in Judged : i <= mem.iteration) /\ FullyCharged(Judged, mem)
      BY <2>3, <2>4 DEF ChargedMem, Charged
    <3>. QED  BY <1>0, <2>2, <3>1, FullyCharges
  <2>. QED  BY <1>0, <2>3, <2>4, EndCharges
<1>2. CASE RoleViolates
  <2>1. pc \in IterationPC
    BY <1>2 DEF RoleViolates, IterationPC
  <2>. QED  BY <1>0, <1>2, <2>1, EndHaltCharges, ContractDoes, ContractAssumption
            DEF RoleViolates
<1>3. CASE StorageRefuses
  <2>1. \A a \in BOOLEAN : Halts(mem, StoragePark(mem, a))
    BY <1>0, ParkDoes
  <2>2. pc \in IterationPC
    BY <1>3 DEF StorageRefuses, IterationPC
  <2>. QED  BY <1>0, <1>3, <2>1, <2>2, EndHaltCharges DEF StorageRefuses
<1>4. CASE StepRaises
  BY <1>0, <1>4, RaiseCharges DEF StepRaises
<1>5. CASE Crash \/ StrayWrite
  BY <1>0, <1>5, QuietCharges DEF Crash, StrayWrite, BegunPC, JudgedPC
<1>. QED  BY <1>1, <1>2, <1>3, <1>4, <1>5

\* Up to the verdict.
LEMMA PlanningCharges ==
    ASSUME TypeOK, HaltInv, ChargedInv,
           \/ Gates \/ ReadStop \/ ClearStop \/ HaltRun \/ HoldWorkspace \/ Begin
           \/ SnapshotBase \/ Plan \/ WritePlan \/ EnterDeveloping \/ Develop
           \/ FreezeCandidate \/ EnterVerifying
    PROVE  ChargedInv'
<1>0. mem \in RunState /\ Judged \in SUBSET Nat /\ IsFiniteSet(Judged) /\ tree \in OptTree
  BY JudgedType DEF TypeOK, DriverOK, ChargedInv, GitOK, OptTree
<1>. USE DEF IterationPC, BegunPC
<1>00. ASSUME NEW s \in RunState, ChargedMem, pc \in BegunPC,
              s.iteration = mem.iteration, s.used = mem.used
       PROVE  Charged(Judged, s) /\ FullyCharged(Judged, s)
  <2>1. (\A i \in Judged : i <= mem.iteration) /\ FullyCharged(Judged, mem)
    BY <1>00 DEF ChargedMem, Charged
  <2>. QED  BY <1>0, <1>00, <2>1, FullyCharges DEF FullyCharged
<1>1. CASE Gates
  <2>0. UNCHANGED results /\ pc = "gates"
    BY <1>1 DEF Gates, files
  <2>1. CASE Raise
    BY <2>0, <2>1, RaiseCharges
  <2>2. CASE Goto("stop_start")
    BY <2>0, <2>2, QuietCharges DEF Goto, JudgedPC
  <2>3. CASE \E h \in Contract : EndIteration(BlockUnderContract(mem, FALSE, h))
    BY <1>0, <2>0, <2>3, EndHaltCharges, ContractDoes, ContractAssumption
  <2>4. CASE WriteState(mem, "stop_start")
    BY <2>0, <2>4, WriteCharges DEF ChargedMem, JudgedPC
  <2>. QED  BY <1>1, <2>1, <2>2, <2>3, <2>4 DEF Gates
<1>2. CASE ReadStop
  <2>1. pc' \in BegunPC => pc \in BegunPC
    BY <1>2 DEF ReadStop, Boundary, Goto, JudgedPC
  <2>. QED  BY <1>2, <2>1, QuietCharges DEF ReadStop, Goto, files
<1>3. CASE ClearStop
  BY <1>3, QuietCharges DEF ClearStop, Goto, files, JudgedPC
<1>4. CASE HaltRun
  <2>0. UNCHANGED results /\ pc = "halt"
    BY <1>4 DEF HaltRun, files
  <2>. QED  BY <1>0, <1>4, <2>0, EndHaltCharges, RaiseCharges, ConditionDoes DEF HaltRun
<1>5. CASE HoldWorkspace
  <2>1. UNCHANGED results /\ pc = "hold" /\ Halts(mem, WorkspaceBlocked(mem))
    BY <1>0, <1>5, ParkDoes DEF HoldWorkspace, files
  <2>2. CASE EndIteration(WorkspaceBlocked(mem))
    BY <2>1, <2>2, EndHaltCharges
  <2>3. CASE ~EndIteration(WorkspaceBlocked(mem))
    <3>1. UNCHANGED disk /\ pc' = "begin"
      BY <1>5, <2>3 DEF HoldWorkspace
    <3>. QED  BY <2>1, <3>1, QuietCharges DEF JudgedPC
  <2>. QED  BY <2>2, <2>3
<1>6. CASE Begin
  <2>0. UNCHANGED results /\ pc = "begin"
    BY <1>6 DEF Begin, files
  <2>1. CASE Raise
    BY <2>0, <2>1, RaiseCharges
  <2>2. CASE ~Raise
    <3>. DEFINE s == BeginIteration(mem)
    <3>1. PICK next \in {"base", "plan"} : WriteState(s, next)
      BY <1>6, <2>2 DEF Begin
    <3>2. ChargedMem => Charged(Judged, s) /\ FullyCharged(Judged, s)
      BY <1>0, BeginCharges DEF ChargedMem
    <3>. HIDE DEF s
    <3>. QED  BY <2>0, <3>1, <3>2, WriteCharges
  <2>. QED  BY <2>1, <2>2
<1>7. CASE SnapshotBase
  <2>. DEFINE s == [mem EXCEPT !.base = tree]
  <2>1. s \in RunState /\ s.iteration = mem.iteration /\ s.used = mem.used
    BY <1>0 DEF RunState
  <2>2. WriteState(s, "plan") /\ pc = "base" /\ UNCHANGED results
    BY <1>7 DEF SnapshotBase, files
  <2>. HIDE DEF s
  <2>. QED  BY <1>00, <2>1, <2>2, WriteCharges
<1>8. CASE Plan
  BY <1>8, RaiseCharges, QuietCharges DEF Plan, Goto, files
<1>9. CASE WritePlan
  <2>1. CASE Raise /\ UNCHANGED results
    BY <2>1, RaiseCharges
  <2>2. CASE Goto("enter") /\ results' = results \cup {PlanFile}
    <3>1. Judged' = Judged
      BY <2>2 DEF Judged, PlanFile
    <3>2. UNCHANGED disk /\ pc \in BegunPC
      BY <1>9, <2>2 DEF Goto, WritePlan
    <3>. QED  BY <3>1, <3>2 DEF ChargedInv
  <2>. QED  BY <1>9, <2>1, <2>2 DEF WritePlan
<1>10. CASE EnterDeveloping
  <2>. DEFINE u == Transition(mem, "DEVELOPING")
              s == [u EXCEPT !.attempt = @ + 1]
  <2>1. u \in RunState /\ u.iteration = mem.iteration /\ u.used = mem.used
    BY <1>0, TransitionType, TransitionDoes DEF Stage
  <2>2. s \in RunState /\ s.iteration = mem.iteration /\ s.used = mem.used
    <3>. HIDE DEF u
    <3>1. u.attempt + 1 \in Nat
      BY <2>1 DEF RunState
    <3>. QED  BY <2>1, <3>1 DEF RunState
  <2>3. WriteState(s, "stop_plan") /\ pc = "enter" /\ UNCHANGED results
    BY <1>10 DEF EnterDeveloping, files
  <2>. HIDE DEF s
  <2>. QED  BY <1>00, <2>2, <2>3, WriteCharges
<1>11. CASE Develop
  BY <1>11, QuietCharges DEF Develop, Goto, files
<1>12. CASE FreezeCandidate
  <2>0. UNCHANGED results /\ pc = "freeze"
    BY <1>12 DEF FreezeCandidate, files
  <2>1. CASE Raise
    BY <2>0, <2>1, RaiseCharges
  <2>2. CASE ~Raise
    <3>. DEFINE s == Freeze(mem, tree)
    <3>1. Count(s) = Count(mem)
      BY <1>0 DEF Freeze, RunState, Count
    <3>2. ~behind /\ disk' = s
      BY <1>12, <2>2 DEF FreezeCandidate
    <3>3. Count(mem) = Count(disk)
      BY <2>0, <3>2 DEF HaltInv, InStep, Agree, Count
    <3>. QED  BY <2>0, <3>1, <3>2, <3>3, QuietCharges
  <2>. QED  BY <2>1, <2>2
<1>13. CASE EnterVerifying
  <2>. DEFINE s == Transition(mem, "VERIFYING")
  <2>1. s \in RunState /\ s.iteration = mem.iteration /\ s.used = mem.used
    BY <1>0, TransitionType, TransitionDoes DEF Stage
  <2>2. WriteState(s, "qa") /\ pc = "verify" /\ UNCHANGED results
    BY <1>13 DEF EnterVerifying, files
  <2>. HIDE DEF s
  <2>. QED  BY <1>00, <2>1, <2>2, WriteCharges
<1>. QED  BY <1>1, <1>2, <1>3, <1>4, <1>5, <1>6, <1>7, <1>8, <1>9, <1>10, <1>11, <1>12, <1>13

\* From the verdict to the acceptance: the file QA leaves is the only one that judges.
LEMMA VerdictCharges ==
    ASSUME TypeOK, HaltInv, ChargedInv,
           \/ Verify \/ WriteQa \/ WriteEvidence \/ PointAtEvidence \/ Decide
           \/ RecordPreserved \/ CommitCandidate \/ AcceptCandidate
    PROVE  ChargedInv'
<1>0. /\ mem \in RunState /\ cand \in OptTree /\ evid \in Nat /\ res \in Result
      /\ Judged \in SUBSET Nat /\ IsFiniteSet(Judged)
  BY JudgedType DEF TypeOK, DriverOK, HandOK, FilesOK, ChargedInv
<1>. USE DEF IterationPC, BegunPC, JudgedPC
<1>00. ASSUME NEW s \in RunState, ChargedMem, pc \in BegunPC, s.used = mem.used,
              \/ s.iteration = mem.iteration
              \/ s.stage = "PLANNING" /\ s.iteration = mem.iteration + 1
       PROVE  Charged(Judged, s)
  <2>1. (\A i \in Judged : i <= mem.iteration) /\ FullyCharged(Judged, mem)
    BY <1>00 DEF ChargedMem, Charged
  <2>. QED  BY <1>0, <1>00, <2>1, FullyCharges
<1>1. CASE Verify
  <2>1. CASE \E h \in Contract : EndIteration(BlockUnderContract(mem, FALSE, h))
    <3>1. UNCHANGED results /\ pc = "qa"
      BY <1>1 DEF Verify, files
    <3>. QED  BY <1>0, <2>1, <3>1, EndHaltCharges, ContractDoes, ContractAssumption
  <2>2. CASE ~(\E h \in Contract : EndIteration(BlockUnderContract(mem, FALSE, h)))
    BY <1>1, <2>2, QuietCharges DEF Verify, Goto, files
  <2>. QED  BY <2>1, <2>2
<1>2. CASE WriteQa
  <2>1. CASE Raise /\ UNCHANGED results
    BY <2>1, RaiseCharges
  <2>2. CASE Goto("evidence") /\ results' = results \cup {QaFile}
    <3>1. ~behind /\ mem.iteration = disk.iteration /\ disk.iteration \in Nat
          /\ disk.used \in Nat /\ disk \in RunState
      BY <1>2 DEF WriteQa, HaltInv, BegunIsActive, InStep, Agree, TypeOK, DriverOK, RunState
    <3>2. Judged' = Judged \cup {disk.iteration}
      <4>1. QaFile.role = "qa" /\ QaFile.iteration = disk.iteration
        BY <3>1 DEF QaFile
      <4>. QED  BY <2>2, <4>1 DEF Judged
    <3>3. FullyCharged(Judged, disk) /\ Charged(Judged, disk) /\ UNCHANGED disk
      BY <1>2, <2>2 DEF ChargedInv, WriteQa, Goto
    <3>. DEFINE K == Judged \cup {disk.iteration}
    <3>4. IsFiniteSet(K) /\ K \in SUBSET Nat /\ \A i \in K : i <= disk.iteration
      <4>1. IsFiniteSet(K)
        BY <1>0, FS_AddElement
      <4>2. \A i \in Judged : i <= disk.iteration
        BY <3>3 DEF Charged
      <4>3. \A i \in K : i \in Nat /\ i <= disk.iteration
        BY <1>0, <3>1, <4>2
      <4>. QED  BY <4>1, <4>3
    <3>5. FullyCharged(K, disk)
      BY <3>3 DEF FullyCharged
    <3>. HIDE DEF K
    <3>6. Charged(K, disk)
      BY <3>1, <3>4, <3>5, FullyCharges
    <3>. QED  BY <3>2, <3>3, <3>4, <3>5, <3>6 DEF ChargedInv, K
  <2>. QED  BY <1>2, <2>1, <2>2 DEF WriteQa
<1>3. CASE WriteEvidence \/ RecordPreserved \/ CommitCandidate
  BY <1>3, QuietCharges DEF WriteEvidence, RecordPreserved, CommitCandidate, Goto, files
<1>4. CASE PointAtEvidence
  <2>. DEFINE s == [mem EXCEPT !.evidence = evid]
  <2>1. Count(s) = Count(mem)
    BY <1>0 DEF RunState, Count
  <2>2. WriteState(s, "decide") /\ pc = "point" /\ UNCHANGED results
    BY <1>4 DEF PointAtEvidence, files
  <2>. HIDE DEF s
  <2>. QED  BY <2>1, <2>2, SameCharge, WriteCharges DEF ChargedMem
<1>5. CASE Decide
  <2>0. UNCHANGED results /\ pc = "decide"
    BY <1>5 DEF Decide, files
  <2>1. CASE EndIteration(RejectCandidate(mem, res.unverified))
    <3>. DEFINE s == RejectCandidate(mem, res.unverified)
    <3>1. /\ s \in RunState /\ s.stage = "PLANNING" /\ s.iteration = mem.iteration + 1
          /\ s.used = mem.used
      BY <1>0, RejectType, RejectDoes DEF Result
    <3>2. EndIteration(s)
      BY <2>1
    <3>. HIDE DEF s
    <3>. QED  BY <1>00, <2>0, <3>1, <3>2, EndCharges
  <2>2. CASE Goto("preserve")
    BY <2>0, <2>2, QuietCharges DEF Goto
  <2>. QED  BY <1>5, <2>1, <2>2 DEF Decide
<1>6. CASE AcceptCandidate
  <2>. DEFINE s == AcceptCheckpoint(mem, cand)
  <2>1. s \in RunState /\ s.iteration = mem.iteration /\ s.used = mem.used
    BY <1>0, CandidateType, AcceptDoes
  <2>2. EndIteration(s) /\ pc = "accept" /\ UNCHANGED results
    BY <1>6 DEF AcceptCandidate, files
  <2>. HIDE DEF s
  <2>. QED  BY <1>00, <2>1, <2>2, EndCharges
<1>. QED  BY <1>1, <1>2, <1>3, <1>4, <1>5, <1>6

\* One step keeps the charge.
LEMMA ChargeStep == ASSUME TypeOK, HaltInv, ChargedInv, [Next]_vars PROVE ChargedInv'
<1>1. CASE Driver
  BY <1>1, ProcessCharges, PlanningCharges, VerdictCharges, FailureCharges DEF Driver
<1>2. CASE Environment
  BY <1>2, ProcessCharges, FailureCharges, OperatorCharges DEF Environment
<1>3. CASE UNCHANGED vars
  BY <1>3, QuietCharges DEF vars
<1>. QED  BY <1>1, <1>2, <1>3 DEF Next

\* Whatever is refunded, replanned, crashed or parked: at QA's dispatch the iterations with a
\* verdict on file, and the one in hand, are within the count the budget is compared with
\* (begin_iteration, _failure_wait).
THEOREM JudgedIsAlwaysCharged == Spec => []JudgedIsCharged
<1>1. Init => ChargedInv
  <2>. SUFFICES ASSUME Init PROVE ChargedInv
    OBVIOUS
  <2>1. Judged = {} /\ disk.stage = "NEW" /\ disk.used = 0 /\ pc \notin BegunPC
    BY DEF Init, Judged, NewState, BegunPC, JudgedPC
  <2>2. Due(Judged, disk) = {}
    BY <2>1 DEF Due
  <2>3. Cardinality(Due(Judged, disk)) <= disk.used /\ IsFiniteSet(Judged)
    BY <2>1, <2>2, FS_EmptySet
  <2>. QED  BY <2>1, <2>3 DEF ChargedInv, Charged
<1>2. TypeOK /\ HaltInv /\ ChargedInv /\ [Next]_vars => ChargedInv'
  BY ChargeStep
<1>3. HaltInv /\ ChargedInv => JudgedIsCharged
  <2>. SUFFICES ASSUME HaltInv, ChargedInv, pc = "qa"
                PROVE  Cardinality(Judged \cup {mem.iteration}) <= mem.used
    BY DEF JudgedIsCharged, Judged
  <2>1. FullyCharged(Judged, disk) /\ mem.iteration = disk.iteration /\ mem.used = disk.used
    BY DEF ChargedInv, HaltInv, BegunIsActive, InStep, Agree, BegunPC
  <2>. QED  BY <2>1 DEF FullyCharged
<1>. QED  BY <1>1, <1>2, <1>3, HaltAlways, Typing, PTL DEF Spec

-----------------------------------------------------------------------------
(* The project                                                             *)
(* What is written is of its type                                          *)

LEMMA Bounds == {MaxRejections, MaxReign, MaxCand, MaxMishaps, MaxWrites} \subseteq Nat
BY ProjectLoopAssumption

LEMMA DriveFields ==
    ASSUME NEW c \in DriveRecord
    PROVE  /\ \A x \in ProjPlaces : [c EXCEPT !.at = x] \in DriveRecord
           /\ \A k \in 0..MaxReign : [c EXCEPT !.reign = k] \in DriveRecord
           /\ \A m \in StateRecord : [c EXCEPT !.mem = m] \in DriveRecord
           /\ \A n \in Node \cup {"none"} : [c EXCEPT !.node = n] \in DriveRecord
           /\ \A v \in Parked \cup {"none", "ACCEPTED"} :
                 [c EXCEPT !.verdict = v] \in DriveRecord
           /\ \A t \in Nexts : [c EXCEPT !.then = t] \in DriveRecord
           /\ \A S \in SUBSET Candidates : [c EXCEPT !.subject = S] \in DriveRecord
BY SMT DEF DriveRecord

LEMMA AtIs ==
    ASSUME NEW c \in DriveRecord, NEW x \in ProjPlaces
    PROVE  LET d == [c EXCEPT !.at = x] IN
           /\ d \in DriveRecord /\ d.at = x /\ d.mem = c.mem /\ d.reign = c.reign
           /\ d.node = c.node /\ d.then = c.then /\ d.verdict = c.verdict
           /\ d.subject = c.subject
<1>1. [c EXCEPT !.at = x] \in DriveRecord
    BY DriveFields, Zenon
<1>. QED BY <1>1, SMT DEF DriveRecord

\* Of a run only the flag changes.
LEMMA RunFlag ==
    ASSUME run \in [Node -> RunRecord], NEW n \in Node, NEW b \in BOOLEAN,
           \/ run' = [run EXCEPT ![n].live = b]
           \/ run' = [run EXCEPT ![n].made = b]
           \/ run' = [run EXCEPT ![n].veiled = b]
    PROVE  run' \in [Node -> RunRecord] /\ \A k \in Node : run'[k].cand = run[k].cand
<1>. DEFINE r1 == [run[n] EXCEPT !.live = b]
            r2 == [run[n] EXCEPT !.made = b]
            r3 == [run[n] EXCEPT !.veiled = b]
<1>1. run[n] \in RunRecord
    OBVIOUS
<1>2. /\ r1 \in RunRecord /\ r2 \in RunRecord /\ r3 \in RunRecord
      /\ r1.cand = run[n].cand /\ r2.cand = run[n].cand /\ r3.cand = run[n].cand
    BY <1>1, SMT DEF RunRecord
<1>3. \E r \in {r1, r2, r3} : run' = [run EXCEPT ![n] = r]
    BY Zenon
<1>. HIDE DEF r1, r2, r3
<1>4. PICK r : r \in RunRecord /\ r.cand = run[n].cand /\ run' = [run EXCEPT ![n] = r]
    BY <1>2, <1>3
<1>. QED BY <1>4, Zenon

LEMMA NodeFields ==
    ASSUME NEW r \in NodeRecord
    PROVE  /\ \A l \in {"absent", "READY", "RUNNING", "BLOCKED"} \cup Settled :
                 [r EXCEPT !.life = l] \in NodeRecord
           /\ \A k \in {"none", "usage_limit", "storage_pressure"} :
                 [r EXCEPT !.kind = k] \in NodeRecord
           /\ \A d \in 0..2 : [r EXCEPT !.due = d] \in NodeRecord
           /\ \A k \in 0..MaxRejections + 1 : [r EXCEPT !.rej = k] \in NodeRecord
           /\ \A k \in 0..MaxCand : [r EXCEPT !.before = k] \in NodeRecord
           /\ \A b \in BOOLEAN : [r EXCEPT !.open = b] \in NodeRecord
BY SMT DEF NodeRecord

LEMMA NodesThere == NewNode \in NodeRecord /\ Absent \in NodeRecord
<1>1. NewNode \in NodeRecord
    BY Bounds, SMT DEF NewNode, NodeRecord
<1>. QED BY <1>1, NodeFields, Zenon DEF Absent

\* A session goes its own way; what the others have stays.
Alone(s) == ctl' \in [Ctl -> DriveRecord] /\ \A t \in Ctl \ {s} : ctl'[t] = ctl[t]

LEMMA AloneIf ==
    ASSUME ctl \in [Ctl -> DriveRecord], NEW s \in Ctl, NEW c \in DriveRecord,
           ctl' = [ctl EXCEPT ![s] = c]
    PROVE  Alone(s) /\ ctl'[s] = c
BY Zenon DEF Alone

LEMMA ChangeDoes ==
    ASSUME ctl \in [Ctl -> DriveRecord], NEW s \in Ctl, NEW m \in StateRecord,
           NEW then \in Nexts, Change(s, m, then)
    PROVE  /\ Alone(s) /\ ctl'[s].at = "persist" /\ ctl'[s].mem = m /\ ctl'[s].then = then
           /\ ctl'[s].reign = ctl[s].reign /\ ctl'[s].node = ctl[s].node
<1>. DEFINE c1 == [ctl[s] EXCEPT !.mem = m]
            c2 == [c1 EXCEPT !.at = "persist"]
            c3 == [c2 EXCEPT !.then = then]
<1>1. c1 \in DriveRecord /\ c1.mem = m /\ c1.reign = ctl[s].reign /\ c1.node = ctl[s].node
    BY DriveFields, SMT DEF DriveRecord
<1>2. c2 \in DriveRecord /\ c2.at = "persist" /\ c2.mem = m /\ c2.reign = ctl[s].reign
      /\ c2.node = ctl[s].node
    <2>. HIDE DEF c1
    <2>1. "persist" \in ProjPlaces
        BY DEF ProjPlaces
    <2>2. c2 \in DriveRecord
        BY <1>1, <2>1, DriveFields, Zenon
    <2>. QED BY <1>1, <2>2, SMT DEF DriveRecord
<1>3. c3 \in DriveRecord /\ c3.at = "persist" /\ c3.mem = m /\ c3.then = then
      /\ c3.reign = ctl[s].reign /\ c3.node = ctl[s].node
    <2>. HIDE DEF c1, c2
    <2>. QED BY <1>2, DriveFields, SMT DEF DriveRecord
<1>4. ctl' = [ctl EXCEPT ![s] = c3]
    BY Zenon DEF Change
<1>. HIDE DEF c1, c2, c3
<1>. QED BY <1>3, <1>4, AloneIf, Zenon

LEMMA OffIs == Off \in DriveRecord /\ Off.at = "off" /\ Off.reign = 0 /\ Off.then = "none"
<1>1. [n \in Node |-> IF n \in {} THEN NewNode ELSE Absent] \in [Node -> NodeRecord]
    BY NodesThere, Zenon
<1>2. ProjectOf({}) \in StateRecord
    BY <1>1, Bounds, SMT DEF ProjectOf, StateRecord
<1>. QED BY <1>2, Bounds, SMT DEF Off, DriveRecord, ProjPlaces, Parked, Nexts

LEMMA HaltDoes ==
    ASSUME ctl \in [Ctl -> DriveRecord], NEW s \in Ctl, HaltOf(s)
    PROVE  /\ Alone(s) /\ ctl'[s] = Off
           /\ reign' = reign \/ reign' = [reign EXCEPT !.lease = "released"]
BY OffIs, AloneIf, Zenon DEF HaltOf

LEMMA WithNodeIs ==
    ASSUME NEW m \in StateRecord, NEW n \in Node, NEW r \in NodeRecord
    PROVE  LET w == WithNode(m, n, r) IN
           /\ w \in StateRecord /\ w.node[n] = r /\ \A k \in Node \ {n} : w.node[k] = m.node[k]
           /\ w.seq = m.seq /\ w.gates = m.gates /\ w.subject = m.subject
<1>. DEFINE f == [m.node EXCEPT ![n] = r]
<1>1. m.node \in [Node -> NodeRecord]
    BY SMT DEF StateRecord
<1>2. f \in [Node -> NodeRecord] /\ f[n] = r /\ \A k \in Node \ {n} : f[k] = m.node[k]
    BY <1>1, Zenon
<1>3. WithNode(m, n, r) = [m EXCEPT !.node = f]
    BY Zenon DEF WithNode
<1>. HIDE DEF f
<1>. QED BY <1>2, <1>3, SMT DEF StateRecord

LEMMA SettleDoes ==
    ASSUME ctl \in [Ctl -> DriveRecord], NEW s \in Ctl, NEW m \in StateRecord, NEW n \in Node,
           NEW v \in Parked \cup {"ACCEPTED"}, NEW then \in Nexts, SettleAs(s, m, n, v, then)
    PROVE  /\ Alone(s) /\ ctl'[s].mem = WithNode(m, n, [m.node[n] EXCEPT !.open = FALSE])
           /\ ctl'[s].at = IF v = "ACCEPTED" THEN "merging" ELSE "arming"
           /\ ctl'[s].node = n /\ ctl'[s].verdict = v /\ ctl'[s].then = then
           /\ ctl'[s].reign = ctl[s].reign /\ reign' = reign
<1>. DEFINE w == WithNode(m, n, [m.node[n] EXCEPT !.open = FALSE])
            a == IF v = "ACCEPTED" THEN "merging" ELSE "arming"
            c1 == [ctl[s] EXCEPT !.mem = w]
            c2 == [c1 EXCEPT !.at = a]
            c3 == [c2 EXCEPT !.node = n]
            c4 == [c3 EXCEPT !.verdict = v]
            c5 == [c4 EXCEPT !.then = then]
<1>1. m.node[n] \in NodeRecord /\ FALSE \in BOOLEAN
    BY SMT DEF StateRecord
<1>2. w \in StateRecord /\ a \in ProjPlaces
    BY <1>1, NodeFields, WithNodeIs, Zenon DEF ProjPlaces
<1>3. v # "IN_FLIGHT"
    BY SMT DEF Parked
<1>4. ctl' = [ctl EXCEPT ![s] = c5] /\ reign' = reign
  <2>1. /\ ctl' = [ctl EXCEPT ![s].mem = WithNode(m, n, [m.node[n] EXCEPT !.open = FALSE]),
                             ![s].at = IF v = "ACCEPTED" THEN "merging" ELSE "arming",
                             ![s].node = n, ![s].verdict = v, ![s].then = then]
        /\ reign' = reign
      BY <1>3, SMT DEF SettleAs, Parked
  <2>. QED BY <2>1, Zenon
<1>. HIDE DEF w, a
<1>5. c1 \in DriveRecord /\ c1.mem = w /\ c1.reign = ctl[s].reign
    BY <1>2, DriveFields, SMT DEF DriveRecord
<1>. HIDE DEF c1
<1>6. c2 \in DriveRecord
    BY <1>2, <1>5, DriveFields, Zenon
<1>7. c2.mem = w /\ c2.reign = ctl[s].reign /\ c2.at = a
    BY <1>5, <1>6, SMT DEF DriveRecord
<1>. HIDE DEF c2
<1>8. c3 \in DriveRecord
    BY <1>6, DriveFields, Zenon
<1>9. c3.mem = w /\ c3.reign = ctl[s].reign /\ c3.at = a /\ c3.node = n
    BY <1>7, <1>6, SMT DEF DriveRecord
<1>. HIDE DEF c3
<1>10. c4 \in DriveRecord
    BY <1>8, DriveFields, Zenon
<1>11. c4.mem = w /\ c4.reign = ctl[s].reign /\ c4.at = a /\ c4.node = n /\ c4.verdict = v
    BY <1>8, <1>9, SMT DEF DriveRecord
<1>. HIDE DEF c4
<1>12. c5 \in DriveRecord
    BY <1>10, DriveFields, Zenon
<1>13. /\ c5.mem = w /\ c5.reign = ctl[s].reign /\ c5.at = a /\ c5.node = n
       /\ c5.verdict = v /\ c5.then = then
    BY <1>10, <1>11, SMT DEF DriveRecord
<1>. HIDE DEF c5
<1>14. Alone(s) /\ ctl'[s] = c5
    BY <1>4, <1>12, AloneIf, Zenon
<1>. QED BY <1>4, <1>13, <1>14, Zenon DEF w, a

-----------------------------------------------------------------------------
(* Steps of one session                                                    *)

\* Two sessions are not both current.
LEMMA OneCurrent ==
    ASSUME ReignInv, NEW s \in Ctl, NEW t \in Ctl, Current(s), Current(t)
    PROVE  s = t
BY DEF ReignInv

LEMMA MasterIsCurrent ==
    ASSUME ReignInv, NEW s \in Ctl, IsMaster(s)
    PROVE  Current(s)
BY SMT DEF ReignInv, IsMaster, Current

\* What the other sessions, which are not current, rely on.
Undisturbed ==
    /\ mainline \subseteq mainline'
    /\ \A n \in Node : run[n].cand # 0 => run'[n].cand # 0
LEMMA MemStays ==
    ASSUME NEW c \in DriveRecord, MemIs(c), Undisturbed
    PROVE  MemIs(c)'
<1>1. c.at = "merging" => c.node \in Node
    BY DEF MemIs, Settling
<1>. QED BY <1>1, Zenon DEF MemIs, StateOK, MergedIsThere, Undisturbed, Terminal

\* A step of one session, after which it may have stopped: what has to be shown of it.
LEMMA SessionStep ==
    ASSUME ProjInv, NEW s \in Ctl, Alone(s), Undisturbed,
           DriveTypeOK', RunsInv', FileInv',
           reign'.number = reign.number, reign'.who = reign.who,
           reign'.lease = "held" => reign.lease = "held",
           overtaken' = overtaken,
           ctl'[s].at = "off" => ctl'[s].reign = 0,
           ctl'[s].at # "off" => ctl[s].at # "off" /\ ctl'[s].reign = ctl[s].reign,
           ctl'[s].at = "disarming" => Current(s),
           ctl'[s].at = "start" => ctl'[s].then = "none",
           ctl'[s].at \notin {"off", "start"} => MemIs(ctl[s])',
           ctl'[s].at \notin {"off", "start"} /\ Current(s) => Mirrors(ctl[s])',
           Current(s) \/ /\ project' = project /\ mainline' = mainline
                         /\ \A m \in StateRecord : Waits(m) => Waits(m)'
    PROVE  ProjInv'
<1>1. \A t \in Ctl \ {s} : ctl'[t] = ctl[t] /\ ctl[t] \in DriveRecord
    BY DEF Alone, ProjInv, DriveTypeOK
<1>2. \A t \in Ctl : Current(t)' => Current(t)
    BY <1>1, SMT DEF Current
<1>3. \A t \in Ctl \ {s} : Current(t) => Current(t)'
    BY <1>1, SMT DEF Current
<1>4. ReignInv'
  <2>1. reign'.lease = "held" => reign'.number # 0
      BY DEF ProjInv, ReignInv
  <2>2. ASSUME NEW t \in Ctl
        PROVE  /\ ctl'[t].at = "off" => ctl'[t].reign = 0
               /\ ctl'[t].reign <= reign'.number
               /\ Current(t)' => reign'.who = t
    <3>1. /\ reign.number \in Nat /\ (Current(t) => reign.who = t)
          /\ (ctl[t].at = "off" => ctl[t].reign = 0) /\ ctl[t].reign <= reign.number
        BY SMT DEF ProjInv, ReignInv, DriveTypeOK
    <3>2. CASE t = s
        BY <1>2, <3>1, <3>2, SMT
    <3>3. CASE t # s
        BY <1>1, <1>2, <3>1, <3>3, SMT
    <3>. QED BY <3>2, <3>3
  <2>3. ASSUME NEW t \in Ctl, ctl'[t].at = "disarming", ~overtaken' PROVE Current(t)'
      BY <1>1, <1>3, <2>3, SMT DEF ProjInv, ReignInv, CtlAt, Current
  <2>. QED BY <2>1, <2>2, <2>3, Zenon DEF ReignInv, CtlAt
<1>5. MemInv'
  <2>1. ASSUME NEW t \in Ctl
        PROVE  /\ ctl'[t].at = "start" => ctl'[t].then = "none"
               /\ ctl'[t].at \notin {"off", "start"} => MemIs(ctl[t])'
    <3>1. CASE t = s
        BY <3>1
    <3>2. CASE t # s
      <4>1. ctl[t] \in DriveRecord /\ ctl'[t] = ctl[t]
          BY <1>1, <3>2
      <4>2. MemIs(ctl[t]) => MemIs(ctl[t])'
          BY <4>1, MemStays
      <4>. QED BY <4>1, <4>2, Zenon DEF ProjInv, MemInv
    <3>. QED BY <3>1, <3>2
  <2>. QED BY <2>1, Zenon DEF MemInv
<1>6. MasterInv'
  <2>1. ASSUME NEW t \in Ctl, Current(t)', ctl'[t].at # "start" PROVE Mirrors(ctl[t])'
    <3>1. CASE t = s
        BY <1>2, <2>1, <3>1 DEF Current
    <3>2. CASE t # s
      <4>1. Current(t) /\ ~Current(s)
          BY <1>2, <2>1, <3>2, OneCurrent DEF ProjInv
      <4>2. ctl[t] \in DriveRecord /\ ctl'[t] = ctl[t] /\ ctl[t].mem \in StateRecord
          BY <1>1, <3>2 DEF DriveRecord
      <4>3. Mirrors(ctl[t])
          BY <2>1, <4>1, <4>2 DEF ProjInv, MasterInv
      <4>4. Waits(ctl[t].mem) => Waits(ctl[t].mem)'
          BY <4>1, <4>2
      <4>. QED BY <4>1, <4>2, <4>3, <4>4, Zenon DEF Mirrors, Covered
    <3>. QED BY <3>1, <3>2
  <2>. QED BY <2>1, Zenon DEF MasterInv
<1>. QED BY <1>4, <1>5, <1>6 DEF ProjInv

-----------------------------------------------------------------------------
(* A node that is ready or runs is written anew                            *)

Open == {"READY", "RUNNING"}

\* The record of a node as the verdicts leave it.
LEMMA Lives == /\ {"absent", "READY", "RUNNING", "BLOCKED", "MERGED", "ABANDONED"}
                      = {"absent", "READY", "RUNNING", "BLOCKED"} \cup Settled
               /\ TRUE \in BOOLEAN /\ FALSE \in BOOLEAN /\ 0 \in 0..2 /\ DueTimes \subseteq 0..2
               /\ 0 \notin DueTimes
BY SMT DEF Settled, DueTimes
LEMMA BlockedRecord ==
    ASSUME NEW r \in NodeRecord, NodeOK(r), r.life \in Open,
           NEW kind \in {"none", "usage_limit", "storage_pressure"}, NEW due \in 0..2,
           due # 0 <=> kind # "none"
    PROVE  LET b == BlockedFor(r, kind, due) IN
           /\ b \in NodeRecord /\ NodeOK(b) /\ b.life = "BLOCKED" /\ ~b.open
           /\ b.kind = kind /\ b.due = due
<1>. DEFINE r1 == [r EXCEPT !.life = "BLOCKED"]
            r2 == [r1 EXCEPT !.kind = kind]
            r3 == [r2 EXCEPT !.due = due]
            r4 == [r3 EXCEPT !.open = FALSE]
<1>1. BlockedFor(r, kind, due) = r4
    BY Zenon DEF BlockedFor
<1>2. r1 \in NodeRecord /\ r1.life = "BLOCKED" /\ r1.rej = r.rej
    BY NodeFields, SMT DEF NodeRecord
<1>. HIDE DEF r1
<1>3. r2 \in NodeRecord /\ r2.life = "BLOCKED" /\ r2.rej = r.rej /\ r2.kind = kind
    BY <1>2, NodeFields, SMT DEF NodeRecord
<1>. HIDE DEF r2
<1>4. r3 \in NodeRecord /\ r3.life = "BLOCKED" /\ r3.rej = r.rej /\ r3.kind = kind
      /\ r3.due = due
    BY <1>3, NodeFields, SMT DEF NodeRecord
<1>. HIDE DEF r3
<1>5. r4 \in NodeRecord
    BY <1>4, NodeFields, Lives, Zenon
<1>6. /\ r4.life = "BLOCKED" /\ r4.rej = r.rej /\ r4.kind = kind /\ r4.due = due
      /\ r4.open = FALSE
    BY <1>4, SMT DEF NodeRecord
<1>7. ~(r.rej > MaxRejections)
    BY SMT DEF NodeOK, Open
<1>8. NodeOK(r4)
    BY <1>6, <1>7, SMT DEF NodeOK
<1>. HIDE DEF r4
<1>. QED BY <1>1, <1>5, <1>6, <1>8, Zenon

LEMMA RejectedRecord ==
    ASSUME NEW r \in NodeRecord, NodeOK(r), r.life \in Open
    PROVE  LET b == Rejected(r) IN
           /\ b \in NodeRecord /\ NodeOK(b) /\ b.life \in {"READY", "ABANDONED"} /\ ~b.open
           /\ b.kind = "none"
<1>. DEFINE life == IF r.rej + 1 > MaxRejections THEN "ABANDONED" ELSE "READY"
            r1 == [r EXCEPT !.rej = @ + 1]
            r2 == [r1 EXCEPT !.open = FALSE]
            r3 == [r2 EXCEPT !.life = life]
<1>1. Rejected(r) = r3
    BY Zenon DEF Rejected
<1>2. /\ r.rej \in 0..MaxRejections /\ r.rej + 1 \in 0..MaxRejections + 1 /\ r.kind = "none"
      /\ (r.due = 0) /\ MaxRejections \in Nat
    BY Bounds, SMT DEF NodeOK, Open, NodeRecord
<1>3. r1 \in NodeRecord /\ r1.rej = r.rej + 1 /\ r1.kind = r.kind /\ r1.due = r.due
    BY <1>2, NodeFields, SMT DEF NodeRecord
<1>. HIDE DEF r1
<1>4. r2 \in NodeRecord
    BY <1>3, NodeFields, Lives, Zenon
<1>5. r2.rej = r.rej + 1 /\ r2.kind = r.kind /\ r2.due = r.due /\ r2.open = FALSE
    BY <1>3, SMT DEF NodeRecord
<1>. HIDE DEF r2
<1>6. life \in {"READY", "ABANDONED"}
      /\ life \in {"absent", "READY", "RUNNING", "BLOCKED"} \cup Settled
    BY SMT DEF Settled
<1>7. r.rej + 1 > MaxRejections => life = "ABANDONED"
    OBVIOUS
<1>. HIDE DEF life
<1>8. r3 \in NodeRecord
    BY <1>4, <1>6, NodeFields, Zenon
<1>9. /\ r3.rej = r.rej + 1 /\ r3.kind = r.kind /\ r3.due = r.due /\ r3.open = FALSE
      /\ r3.life = life
    BY <1>4, <1>5, SMT DEF NodeRecord
<1>10. NodeOK(r3)
    BY <1>2, <1>7, <1>9, SMT DEF NodeOK
<1>. HIDE DEF r3
<1>. QED BY <1>1, <1>2, <1>6, <1>8, <1>9, <1>10, Zenon

LEMMA ReadyRecord ==
    ASSUME NEW r \in NodeRecord, NodeOK(r), r.life \in Open
    PROVE  LET b == [r EXCEPT !.life = "READY", !.open = FALSE] IN
           /\ b \in NodeRecord /\ NodeOK(b) /\ b.life = "READY" /\ ~b.open /\ b.kind = "none"
<1>. DEFINE r1 == [r EXCEPT !.life = "READY"]
            r2 == [r1 EXCEPT !.open = FALSE]
<1>1. [r EXCEPT !.life = "READY", !.open = FALSE] = r2
    BY Zenon
<1>2. r1 \in NodeRecord /\ r1.life = "READY" /\ r1.rej = r.rej /\ r1.kind = r.kind
      /\ r1.due = r.due
    BY NodeFields, SMT DEF NodeRecord
<1>. HIDE DEF r1
<1>3. r2 \in NodeRecord
    BY <1>2, NodeFields, Lives, Zenon
<1>4. r2.life = "READY" /\ r2.rej = r.rej /\ r2.kind = r.kind /\ r2.due = r.due
      /\ r2.open = FALSE
    BY <1>2, SMT DEF NodeRecord
<1>5. ~(r.rej > MaxRejections) /\ r.kind = "none" /\ (r.due # 0 <=> r.kind # "none")
    BY SMT DEF NodeOK, Open
<1>6. NodeOK(r2)
    BY <1>4, <1>5, SMT DEF NodeOK
<1>. HIDE DEF r2
<1>. QED BY <1>1, <1>3, <1>4, <1>5, <1>6, Zenon

LEMMA MergedRecord ==
    ASSUME NEW r \in NodeRecord, NodeOK(r), r.life \in Open, ~r.open
    PROVE  LET b == [r EXCEPT !.life = "MERGED"] IN
           /\ b \in NodeRecord /\ NodeOK(b) /\ b.life = "MERGED" /\ ~b.open /\ b.kind = "none"
<1>. DEFINE r1 == [r EXCEPT !.life = "MERGED"]
<1>1. r1 \in NodeRecord
    BY NodeFields, Lives, Zenon
<1>2. r1.life = "MERGED" /\ r1.rej = r.rej /\ r1.kind = r.kind /\ r1.due = r.due
      /\ r1.open = r.open
    BY SMT DEF NodeRecord
<1>3. ~(r.rej > MaxRejections) /\ r.kind = "none" /\ (r.due # 0 <=> r.kind # "none")
    BY SMT DEF NodeOK, Open
<1>4. NodeOK(r1)
    BY <1>2, <1>3, SMT DEF NodeOK
<1>. QED BY <1>1, <1>2, <1>3, <1>4, Zenon

LEMMA RunningRecord ==
    ASSUME NEW r \in NodeRecord, NodeOK(r), r.life \in Open, NEW k \in 0..MaxCand
    PROVE  LET b == [r EXCEPT !.life = "RUNNING", !.open = TRUE, !.before = k] IN
           /\ b \in NodeRecord /\ NodeOK(b) /\ b.life = "RUNNING" /\ b.open /\ b.kind = "none"
<1>. DEFINE r1 == [r EXCEPT !.life = "RUNNING"]
            r2 == [r1 EXCEPT !.open = TRUE]
            r3 == [r2 EXCEPT !.before = k]
<1>1. [r EXCEPT !.life = "RUNNING", !.open = TRUE, !.before = k] = r3
    BY Zenon
<1>2. r1 \in NodeRecord /\ r1.life = "RUNNING" /\ r1.rej = r.rej /\ r1.kind = r.kind
      /\ r1.due = r.due
    BY NodeFields, SMT DEF NodeRecord
<1>. HIDE DEF r1
<1>3. r2 \in NodeRecord
    BY <1>2, NodeFields, Lives, Zenon
<1>4. r2.life = "RUNNING" /\ r2.rej = r.rej /\ r2.kind = r.kind /\ r2.due = r.due
      /\ r2.open = TRUE
    BY <1>2, SMT DEF NodeRecord
<1>. HIDE DEF r2
<1>5. r3 \in NodeRecord
    BY <1>3, NodeFields, Zenon
<1>6. r3.life = "RUNNING" /\ r3.rej = r.rej /\ r3.kind = r.kind /\ r3.due = r.due
      /\ r3.open = TRUE
    BY <1>3, <1>4, SMT DEF NodeRecord
<1>7. ~(r.rej > MaxRejections) /\ r.kind = "none" /\ (r.due # 0 <=> r.kind # "none")
    BY SMT DEF NodeOK, Open
<1>8. NodeOK(r3)
    BY <1>6, <1>7, SMT DEF NodeOK
<1>. HIDE DEF r3
<1>. QED BY <1>1, <1>5, <1>6, <1>7, <1>8, Zenon

\* A session writes an open node anew: what has to be shown of the node's new record.
LEMMA NodeChanges ==
    ASSUME ProjInv, NEW s \in Ctl, NEW n \in Node, NEW r \in NodeRecord,
           NodeOK(r), r.open = (r.life = "RUNNING"), ctl[s].mem.node[n].life \in Open,
           \/ ctl[s].at \in {"round", "starting", "waiting"}
           \/ ctl[s].at \in Settling /\ n = ctl[s].node,
           Alone(s), ctl'[s].at = "persist", ctl'[s].mem = WithNode(ctl[s].mem, n, r),
           ctl'[s].reign = ctl[s].reign,
           \/ ctl'[s].then \in {"round", "halt"}
           \/ ctl'[s].then = "launch" /\ ctl'[s].node = n /\ r.life = "RUNNING",
           UNCHANGED <<project, reign, overtaken, accepted>>,
           run' \in [Node -> RunRecord], \A k \in Node : run'[k].cand = run[k].cand,
           timers' \subseteq TimerRecord,
           mainline \subseteq mainline', mainline' \subseteq accepted \cap Candidates,
           Current(s) \/ UNCHANGED <<timers, mainline>>,
           r.life = "MERGED" => \E c \in 1..MaxCand : <<n, c>> \in mainline',
           \A k \in Node \ {n} : \A kind, due : Timer(k, kind, due) \in timers
                                                => Timer(k, kind, due) \in timers',
           r.kind = "storage_pressure" => \E due \in DueTimes : Timer(n, r.kind, due) \in timers',
           r.kind = "usage_limit" => Timer(n, r.kind, r.due) \in timers'
    PROVE  ProjInv'
<1>. DEFINE m == ctl[s].mem
<1>1. ctl[s] \in DriveRecord /\ m \in StateRecord
    BY SMT DEF ProjInv, DriveTypeOK, DriveRecord
<1>2. MemIs(ctl[s])
    BY Zenon DEF ProjInv, MemInv, Settling
<1>. PICK w : w = WithNode(m, n, r)
    OBVIOUS
<1>3. /\ w \in StateRecord /\ w.node[n] = r /\ \A k \in Node \ {n} : w.node[k] = m.node[k]
      /\ w.seq = m.seq /\ w.gates = m.gates /\ w.subject = m.subject
    BY <1>1, WithNodeIs
<1>4. ctl'[s].mem = w
    OBVIOUS
<1>5. m.gates # "GREEN"
    BY <1>2, SMTT(60) DEF MemIs, StateOK, Terminal, Open, Settled
<1>6. ASSUME Current(s)
      PROVE  /\ Mirrors(ctl[s]) /\ m.gates = project.gates /\ m.seq = project.seq
             /\ \A k \in Node \ {n} : m.node[k] = project.node[k]
             /\ project.node[n].life = m.node[n].life
  <2>1. Mirrors(ctl[s])
      BY <1>6, Zenon DEF ProjInv, MasterInv, Settling
  <2>2. ctl[s].at \in {"round", "starting", "waiting"} => m = project
      BY <2>1, SMT DEF Mirrors, Settling
  <2>. QED BY <2>1, <2>2, Zenon DEF Mirrors
<1>7. DriveTypeOK'
    BY Zenon DEF ProjInv, DriveTypeOK, Alone
<1>8. Undisturbed
    BY Zenon DEF Undisturbed
<1>9. RunsInv'
    BY Zenon DEF ProjInv, RunsInv, OnlyAcceptedMerged
<1>10. Current(s) => project.node[n].kind = "none"
  <2>1. NodeOK(project.node[n])
      BY DEF ProjInv, FileInv, StateOK
  <2>. QED BY <1>6, <2>1, SMT DEF NodeOK, Open
<1>11. Waits(project)'
  <2>1. CASE Current(s)
      BY <1>10, <2>1, Zenon DEF ProjInv, FileInv, Waits
  <2>2. CASE UNCHANGED timers
      BY <2>2, Zenon DEF ProjInv, FileInv, Waits
  <2>. QED BY <2>1, <2>2
<1>12. Covered(project)'
    BY <1>5, <1>6, Zenon DEF ProjInv, FileInv, Covered
<1>13. FileInv'
  <2>1. StateOK(project)'
      BY Zenon DEF ProjInv, FileInv, StateOK, MergedIsThere, Terminal
  <2>2. ~Disagrees(project)'
      BY Zenon DEF ProjInv, FileInv, Disagrees
  <2>. QED BY <1>11, <1>12, <2>1, <2>2 DEF FileInv
<1>14. MemIs(ctl[s])'
  <2>1. StateOK(w)'
    <3>1. \A k \in Node : NodeOK(w.node[k])
        BY <1>2, <1>3, Zenon DEF MemIs, StateOK
    <3>2. MergedIsThere(w)'
        BY <1>2, <1>3, ZenonT(60) DEF MemIs, StateOK, MergedIsThere
    <3>. QED BY <1>3, <1>5, <3>1, <3>2, Zenon DEF StateOK
  <2>2. \A k \in Node : w.node[k].open = (w.node[k].life = "RUNNING")
    <3>1. \A k \in Node \ {n} : ~(ctl[s].at \in Settling /\ k = ctl[s].node)
        BY SMT DEF Settling
    <3>2. \A k \in Node \ {n} : m.node[k].open = (m.node[k].life = "RUNNING")
        BY <1>2, <3>1, Zenon DEF MemIs
    <3>3. ASSUME NEW k \in Node PROVE w.node[k].open = (w.node[k].life = "RUNNING")
      <4>1. CASE k = n
          BY <1>3, <4>1
      <4>2. CASE k # n
          BY <1>3, <3>2, <4>2
      <4>. QED BY <4>1, <4>2
    <3>. QED BY <3>3
  <2>. QED BY <1>3, <1>4, <2>1, <2>2, ZenonT(60) DEF MemIs, Settling, Launching
<1>15. ASSUME Current(s) PROVE Mirrors(ctl[s])'
  <2>0. \A k \in Node \ {n} : w.node[k] = project.node[k]
      BY <1>3, <1>6, <1>15, Zenon
  <2>1. \A k \in Node : project.node[k].life \in Settled
            => w.node[k].life = project.node[k].life
    <3>1. project.node[n].life \notin Settled
        BY <1>6, <1>15, SMT DEF Settled, Open
    <3>. QED BY <2>0, <3>1, Zenon
  <2>2. Waits(w)'
    <3>1. project' = project /\ overtaken' = overtaken
        OBVIOUS
    <3>2. ASSUME NEW k \in Node, k # n
          PROVE  /\ w.node[k].kind = "storage_pressure"
                       => \E due \in DueTimes : Timer(k, w.node[k].kind, due) \in timers'
                 /\ w.node[k].kind = "usage_limit" /\ ~overtaken'
                       => Timer(k, w.node[k].kind, w.node[k].due) \in timers'
      <4>1. w.node[k] = project'.node[k]
          BY <2>0, <3>1, <3>2
      <4>2. /\ project'.node[k].kind = "storage_pressure"
                  => \E due \in DueTimes : Timer(k, project'.node[k].kind, due) \in timers'
            /\ project'.node[k].kind = "usage_limit" /\ ~overtaken'
                  => Timer(k, project'.node[k].kind, project'.node[k].due) \in timers'
          BY <1>11, Zenon DEF Waits
      <4>. QED BY <4>1, <4>2, Zenon
    <3>. QED BY <1>3, <3>2, Zenon DEF Waits
  <2>3. Covered(w)'
      BY <1>3, <1>5 DEF Covered
  <2>4. w.seq = project.seq
      BY <1>3, <1>6, <1>15
  <2>. QED BY <1>4, <2>1, <2>2, <2>3, <2>4, SMT DEF Mirrors, Settling
<1>16. Current(s) \/ /\ project' = project /\ mainline' = mainline
                     /\ \A x \in StateRecord : Waits(x) => Waits(x)'
  <2>1. CASE UNCHANGED <<timers, mainline>>
      BY <2>1, Zenon DEF Waits
  <2>. QED BY <2>1
<1>17. /\ ctl[s].at # "off" /\ ctl'[s].at # "off" /\ ctl'[s].at # "disarming"
       /\ ctl'[s].at # "start"
    BY SMT DEF Settling
<1>18. reign' = reign /\ overtaken' = overtaken
    OBVIOUS
<1>. QED
  BY <1>7, <1>8, <1>9, <1>13, <1>14, <1>15, <1>16, <1>17, <1>18, SessionStep, Zenon

-----------------------------------------------------------------------------
(* Steps that change nothing but the session                               *)

Elsewhere ==
    /\ UNCHANGED <<project, timers, mainline, accepted, overtaken>>
    /\ run' \in [Node -> RunRecord] /\ \A n \in Node : run'[n].cand = run[n].cand

LEMMA StillTrue ==
    ASSUME ProjInv, Elsewhere
    PROVE  RunsInv' /\ FileInv' /\ Undisturbed
<1>1. RunsInv'
    BY Zenon DEF ProjInv, RunsInv, OnlyAcceptedMerged, Elsewhere
<1>2. FileInv'
    BY Zenon DEF ProjInv, FileInv, StateOK, Disagrees, Waits, Covered, MergedIsThere, Terminal,
                 Elsewhere
<1>3. Undisturbed
    BY Zenon DEF Undisturbed, Elsewhere
<1>. QED BY <1>1, <1>2, <1>3

LEMMA PlainStep ==
    ASSUME ProjInv, NEW s \in Ctl, Alone(s), Elsewhere,
           reign' = reign \/ reign' = [reign EXCEPT !.lease = "released"],
           ctl[s].at # "off", ctl'[s].at \notin {"disarming", "start"},
           ctl'[s].at = "off" => ctl'[s].reign = 0,
           ctl'[s].at # "off" => ctl'[s].reign = ctl[s].reign /\ MemIs(ctl[s])',
           ctl'[s].at # "off" /\ Current(s) => Mirrors(ctl[s])'
    PROVE  ProjInv'
<1>1. RunsInv' /\ FileInv' /\ Undisturbed
    BY StillTrue
<1>2. /\ reign'.number = reign.number /\ reign'.who = reign.who
      /\ reign'.lease = "held" => reign.lease = "held"
      /\ reign' \in [number : 0..MaxReign, who : Ctl \cup {"none", "operator"},
                     lease : {"held", "released", "lapsed"}]
    BY SMT DEF ProjInv, DriveTypeOK
<1>3. DriveTypeOK'
    BY <1>2, Zenon DEF ProjInv, DriveTypeOK, Alone, Elsewhere
<1>4. /\ project' = project /\ mainline' = mainline /\ overtaken' = overtaken
      /\ \A m \in StateRecord : Waits(m) => Waits(m)'
    BY Zenon DEF Elsewhere, Waits
<1>. QED BY <1>1, <1>2, <1>3, <1>4, SessionStep, Zenon

LEMMA HaltKeeps ==
    ASSUME ProjInv, NEW s \in Ctl, HaltOf(s), Elsewhere, ctl[s].at # "off"
    PROVE  ProjInv'
<1>1. ctl \in [Ctl -> DriveRecord]
    BY DEF ProjInv, DriveTypeOK
<1>. QED BY <1>1, HaltDoes, OffIs, PlainStep, SMT

\* What a session has in memory stays good while others go on.
LEMMA MemSame ==
    ASSUME ProjInv, NEW s \in Ctl, ctl[s].at \notin {"off", "start"}, Elsewhere
    PROVE  /\ MemIs(ctl[s]) /\ ctl[s] \in DriveRecord /\ ctl[s].mem \in StateRecord
           /\ \A m : StateOK(m) => StateOK(m)'
           /\ \A m : Waits(m) => Waits(m)'
           /\ \A m : Covered(m) => Covered(m)'
           /\ Current(s) => Mirrors(ctl[s])
<1>1. MemIs(ctl[s])
    BY DEF ProjInv, MemInv
<1>2. ctl[s] \in DriveRecord /\ ctl[s].mem \in StateRecord
    BY SMT DEF ProjInv, DriveTypeOK, DriveRecord
<1>3. Current(s) => Mirrors(ctl[s])
    BY DEF ProjInv, MasterInv
<1>. QED
  BY <1>1, <1>2, <1>3, Zenon DEF StateOK, MergedIsThere, Terminal, Waits, Covered, Elsewhere

\* A session goes on with the state it has.
LEMMA MoveOnKeeps ==
    ASSUME ProjInv, NEW s \in Ctl, Alone(s), Elsewhere, reign' = reign,
           ctl[s].at \in Launching \cup {"round", "closing"},
           ctl'[s].at \in {"starting", "waiting", "measuring", "round"},
           ctl'[s].mem = ctl[s].mem, ctl'[s].reign = ctl[s].reign, ctl'[s].node = ctl[s].node,
           ctl'[s].then = ctl[s].then,
           ctl'[s].at \in Launching => ctl[s].at \in Launching,
           ctl'[s].at = "measuring" => Terminal(ctl[s].mem) /\ ctl'[s].subject = mainline
    PROVE  ProjInv'
<1>1. ctl[s].at \notin {"off", "start", "persist", "merging", "arming"}
    BY SMT DEF Launching
<1>2. MemIs(ctl[s]) /\ (Current(s) => Mirrors(ctl[s]))
    BY <1>1, MemSame, Zenon
<1>3. StateOK(ctl[s].mem)'
    BY <1>1, <1>2, MemSame, Zenon DEF MemIs
<1>4. MemIs(ctl[s])'
    BY <1>1, <1>2, <1>3, SMTT(60) DEF MemIs, Settling, Launching
<1>5. Current(s) => Mirrors(ctl[s])'
    BY <1>1, <1>2, SMT DEF Mirrors, Settling, Launching, Elsewhere
<1>. QED BY <1>1, <1>4, <1>5, PlainStep, SMT DEF Launching

LEMMA AuthoriseKeeps == ASSUME ProjInv, NEW s \in Ctl, Authorise(s) PROVE ProjInv'
<1>1. Elsewhere /\ ctl[s].at = "launch" /\ ctl \in [Ctl -> DriveRecord]
    BY SMT DEF ProjInv, DriveTypeOK, Authorise, CtlAt, Elsewhere
<1>2. CASE HaltOf(s)
    BY <1>1, <1>2, HaltKeeps, SMT
<1>3. CASE ctl' = [ctl EXCEPT ![s].at = "starting"] /\ reign' = reign
  <2>. DEFINE c1 == [ctl[s] EXCEPT !.at = "starting"]
  <2>1. ctl' = [ctl EXCEPT ![s] = c1]
      BY <1>3, Zenon
  <2>2. ctl[s] \in DriveRecord /\ "starting" \in ProjPlaces
      BY <1>1 DEF ProjPlaces
  <2>3. /\ c1 \in DriveRecord /\ c1.at = "starting" /\ c1.mem = ctl[s].mem
        /\ c1.reign = ctl[s].reign /\ c1.node = ctl[s].node /\ c1.then = ctl[s].then
      BY <2>2, AtIs, Zenon
  <2>. HIDE DEF c1
  <2>4. Alone(s) /\ ctl'[s] = c1
      BY <1>1, <2>1, <2>3, AloneIf, Zenon
  <2>. QED BY <1>1, <1>3, <2>3, <2>4, MoveOnKeeps, SMT DEF Launching
<1>. QED BY <1>2, <1>3 DEF Authorise

LEMMA LaunchKeeps == ASSUME ProjInv, NEW s \in Ctl, Launch(s) PROVE ProjInv'
<1>1. ctl[s].at = "starting" /\ ctl \in [Ctl -> DriveRecord] /\ ctl[s].node \in Node
    BY SMT DEF ProjInv, DriveTypeOK, Launch, CtlAt, MemInv, MemIs, Launching
<1>2. CASE HaltOf(s) /\ UNCHANGED run
  <2>1. Elsewhere
      BY <1>2, SMT DEF ProjInv, DriveTypeOK, Launch, Elsewhere
  <2>. QED BY <1>1, <1>2, <2>1, HaltKeeps, SMT
<1>3. CASE /\ run' = [run EXCEPT ![ctl[s].node].live = TRUE]
           /\ ctl' = [ctl EXCEPT ![s].at = "waiting"] /\ UNCHANGED reign
  <2>. DEFINE c1 == [ctl[s] EXCEPT !.at = "waiting"]
  <2>1. ctl' = [ctl EXCEPT ![s] = c1]
      BY <1>3, Zenon
  <2>2. ctl[s] \in DriveRecord /\ "waiting" \in ProjPlaces
      BY <1>1 DEF ProjPlaces
  <2>3. /\ c1 \in DriveRecord /\ c1.at = "waiting" /\ c1.mem = ctl[s].mem
        /\ c1.reign = ctl[s].reign /\ c1.node = ctl[s].node /\ c1.then = ctl[s].then
      BY <2>2, AtIs, Zenon
  <2>. HIDE DEF c1
  <2>4. Alone(s) /\ ctl'[s] = c1
      BY <1>1, <2>1, <2>3, AloneIf, Zenon
  <2>5. Elsewhere
    <3>1. run' \in [Node -> RunRecord] /\ \A n \in Node : run'[n].cand = run[n].cand
        BY <1>1, <1>3, RunFlag, Lives, Zenon DEF ProjInv, DriveTypeOK
    <3>. QED BY <3>1 DEF Elsewhere, Launch
  <2>. QED BY <1>1, <1>3, <2>3, <2>4, <2>5, MoveOnKeeps, SMT DEF Launching
<1>. QED BY <1>2, <1>3 DEF Launch

LEMMA MeasureClosureKeeps == ASSUME ProjInv, NEW s \in Ctl, MeasureClosure(s) PROVE ProjInv'
<1>1. Elsewhere /\ ctl[s].at = "round" /\ ctl \in [Ctl -> DriveRecord]
    BY SMT DEF ProjInv, DriveTypeOK, MeasureClosure, CtlAt, Elsewhere
<1>2. CASE HaltOf(s)
    BY <1>1, <1>2, HaltKeeps, SMT
<1>3. CASE /\ ClosureDue(ctl[s].mem) /\ UNCHANGED reign
           /\ ctl' = [ctl EXCEPT ![s].at = "measuring", ![s].subject = mainline]
  <2>. DEFINE c1 == [ctl[s] EXCEPT !.at = "measuring"]
              c2 == [c1 EXCEPT !.subject = mainline]
  <2>1. ctl' = [ctl EXCEPT ![s] = c2]
      BY <1>3, Zenon
  <2>2. "measuring" \in ProjPlaces /\ ctl[s] \in DriveRecord
      BY <1>1 DEF ProjPlaces
  <2>3. /\ c1 \in DriveRecord /\ c1.at = "measuring" /\ c1.mem = ctl[s].mem
        /\ c1.reign = ctl[s].reign /\ c1.node = ctl[s].node /\ c1.then = ctl[s].then
      BY <2>2, AtIs, Zenon
  <2>. HIDE DEF c1
  <2>4. c2 \in DriveRecord
      BY <2>3, DriveFields, Zenon DEF ProjInv, DriveTypeOK
  <2>5. /\ c2.at = "measuring" /\ c2.mem = ctl[s].mem /\ c2.reign = ctl[s].reign
        /\ c2.node = ctl[s].node /\ c2.then = ctl[s].then /\ c2.subject = mainline
      BY <2>3, SMT DEF DriveRecord
  <2>. HIDE DEF c2
  <2>6. Alone(s) /\ ctl'[s] = c2
      BY <1>1, <2>1, <2>4, AloneIf, Zenon
  <2>7. ctl[s].at \in Launching \cup {"round", "closing"} /\ ctl'[s].at \notin Launching
        /\ ctl'[s].at \in {"starting", "waiting", "measuring", "round"}
      BY <1>1, <2>5, <2>6, SMT DEF Launching
  <2>. QED BY <1>1, <1>3, <2>5, <2>6, <2>7, MoveOnKeeps, Zenon DEF ClosureDue
<1>. QED BY <1>2, <1>3 DEF MeasureClosure

-----------------------------------------------------------------------------
(* Verdicts are settled                                                    *)

LEMMA NodeRewritten ==
    ASSUME ProjInv, NEW s \in Ctl, NEW n \in Node, NEW r \in NodeRecord,
        NEW then \in {"round", "halt"},
           NodeOK(r), r.open = (r.life = "RUNNING"), ctl[s].mem.node[n].life \in Open,
           \/ ctl[s].at \in {"round", "starting", "waiting"}
           \/ ctl[s].at \in Settling /\ n = ctl[s].node,
           Change(s, WithNode(ctl[s].mem, n, r), then), Elsewhere, reign' = reign,
           r.life # "MERGED", r.kind = "none"
    PROVE  ProjInv'
<1>1. ctl \in [Ctl -> DriveRecord] /\ ctl[s].mem \in StateRecord
    BY SMT DEF ProjInv, DriveTypeOK, DriveRecord
<1>2. WithNode(ctl[s].mem, n, r) \in StateRecord /\ then \in Nexts
    BY <1>1, WithNodeIs DEF Nexts
<1>3. /\ Alone(s) /\ ctl'[s].at = "persist" /\ ctl'[s].mem = WithNode(ctl[s].mem, n, r)
      /\ ctl'[s].then = then /\ ctl'[s].reign = ctl[s].reign
    BY <1>1, <1>2, ChangeDoes
<1>4. /\ UNCHANGED <<project, reign, overtaken, accepted>> /\ UNCHANGED <<timers, mainline>>
      /\ run' \in [Node -> RunRecord] /\ \A k \in Node : run'[k].cand = run[k].cand
    BY DEF Elsewhere
<1>5. /\ timers' \subseteq TimerRecord
      /\ mainline \subseteq mainline' /\ mainline' \subseteq accepted \cap Candidates
      /\ \A k \in Node \ {n} : \A kind, due : Timer(k, kind, due) \in timers
                                               => Timer(k, kind, due) \in timers'
    BY <1>4, Zenon DEF ProjInv, DriveTypeOK, RunsInv, OnlyAcceptedMerged
<1>6. ~(r.kind = "storage_pressure") /\ ~(r.kind = "usage_limit")
    OBVIOUS
<1>. QED BY <1>3, <1>4, <1>5, <1>6, NodeChanges, Zenon

LEMMA SettleKeeps ==
    ASSUME ProjInv, NEW s \in Ctl, NEW n \in Node, NEW v,
           SettleAs(s, ctl[s].mem, n, v, "round"), Elsewhere,
           ctl[s].at \in {"round", "starting", "waiting"}, ctl[s].mem.node[n].life \in Open,
           v = "ACCEPTED" => run[n].cand # 0
    PROVE  ProjInv'
<1>. DEFINE m == ctl[s].mem
            r == m.node[n]
<1>1. /\ ctl \in [Ctl -> DriveRecord] /\ m \in StateRecord /\ r \in NodeRecord
      /\ ctl[s].at \notin {"off", "start", "persist", "merging", "arming"}
    BY SMT DEF ProjInv, DriveTypeOK, DriveRecord, StateRecord
<1>2. MemIs(ctl[s]) /\ (Current(s) => Mirrors(ctl[s]))
    BY <1>1, MemSame, Zenon
<1>3. NodeOK(r) /\ r.life \in Open
    BY <1>2 DEF MemIs, StateOK
<1>4. CASE HaltOf(s)
    BY <1>1, <1>4, HaltKeeps, Zenon
<1>5. CASE v \in Parked \cup {"ACCEPTED"}
  <2>1. PICK w : w = WithNode(m, n, [r EXCEPT !.open = FALSE])
      OBVIOUS
  <2>2. PICK q : q = [r EXCEPT !.open = FALSE]
      OBVIOUS
  <2>3. q \in NodeRecord
      BY <1>1, <2>2, NodeFields, Lives, Zenon
  <2>4. q.life = r.life /\ q.open = FALSE /\ NodeOK(q)
      BY <1>1, <1>3, <2>2, SMTT(60) DEF NodeRecord, NodeOK
  <2>5. /\ w \in StateRecord /\ w.node[n] = q /\ \A k \in Node \ {n} : w.node[k] = m.node[k]
        /\ w.seq = m.seq /\ w.gates = m.gates /\ w.subject = m.subject
    <3>1. w = WithNode(m, n, q)
        BY <2>1, <2>2
    <3>. QED BY <1>1, <2>3, <3>1, WithNodeIs, SMT
  <2>6. /\ Alone(s) /\ ctl'[s].mem = w /\ ctl'[s].node = n /\ ctl'[s].verdict = v
        /\ ctl'[s].at = (IF v = "ACCEPTED" THEN "merging" ELSE "arming")
        /\ ctl'[s].then = "round" /\ ctl'[s].reign = ctl[s].reign /\ reign' = reign
      BY <1>1, <1>5, <2>1, SettleDoes, SMT DEF Nexts
  <2>7. m.gates # "GREEN"
      BY <1>2, <1>3, SMTT(60) DEF MemIs, StateOK, Terminal, Open, Settled
  <2>8. StateOK(w)'
    <3>1. StateOK(m)
        BY <1>2 DEF MemIs
    <3>2. \A k \in Node : NodeOK(w.node[k])
        BY <2>4, <2>5, <3>1, Zenon DEF StateOK
    <3>3. \A k \in Node : w.node[k].life = m.node[k].life
        BY <2>4, <2>5
    <3>4. MergedIsThere(w)'
        BY <3>1, <3>3, Zenon DEF StateOK, MergedIsThere, Elsewhere
    <3>. QED BY <2>5, <2>7, <3>2, <3>4, Zenon DEF StateOK
  <2>9. \A k \in Node \ {n} : w.node[k].open = (w.node[k].life = "RUNNING")
      BY <1>1, <1>2, <2>5, SMT DEF MemIs, Settling
  <2>10. MemIs(ctl[s])'
    <3>1. ctl'[s].at \in Settling /\ ctl'[s].at \notin Launching
          /\ ctl'[s].at \notin {"measuring", "ended", "persist", "disarming"}
        BY <2>6, SMT DEF Settling, Launching
    <3>2. ctl'[s].at = "merging" => run'[n].cand # 0
        BY <2>6, SMT DEF Elsewhere
    <3>3. ctl'[s].at = "arming" => v \in Parked
        BY <1>5, <2>6, SMT
    <3>. QED BY <2>4, <2>5, <2>6, <2>8, <2>9, <3>1, <3>2, <3>3, SMT DEF MemIs, Open
  <2>11. ASSUME Current(s) PROVE Mirrors(ctl[s])'
    <3>1. m = project
        BY <1>1, <1>2, <2>11, SMT DEF Mirrors, Settling
    <3>2. project' = project
        BY DEF Elsewhere
    <3>. QED BY <2>4, <2>5, <2>6, <3>1, <3>2, SMT DEF Mirrors, Settling
  <2>12. ctl[s].at # "off" /\ ctl'[s].at \notin {"disarming", "start", "off"}
      BY <2>6, SMT
  <2>. QED BY <2>6, <2>10, <2>11, <2>12, PlainStep, Zenon
<1>6. CASE /\ reign' = reign
           /\ Change(s, WithNode(m, n, [r EXCEPT !.life = "READY", !.open = FALSE]), "round")
  <2>1. PICK q : q = [r EXCEPT !.life = "READY", !.open = FALSE]
      OBVIOUS
  <2>2. q \in NodeRecord /\ NodeOK(q) /\ q.life = "READY" /\ ~q.open /\ q.kind = "none"
      BY <1>1, <1>3, <2>1, ReadyRecord, Zenon
  <2>3. q.open = (q.life = "RUNNING") /\ q.life # "MERGED" /\ "round" \in {"round", "halt"}
      BY <2>2, SMT DEF NodeRecord
  <2>. QED BY <1>6, <2>1, <2>2, <2>3, NodeRewritten, Zenon
<1>7. CASE reign' = reign /\ Change(s, WithNode(m, n, Rejected(r)), "round")
  <2>1. PICK q : q = Rejected(r)
      OBVIOUS
  <2>2. q \in NodeRecord /\ NodeOK(q) /\ q.life \in {"READY", "ABANDONED"} /\ ~q.open
        /\ q.kind = "none"
      BY <1>1, <1>3, <2>1, RejectedRecord, Zenon
  <2>3. q.open = (q.life = "RUNNING") /\ q.life # "MERGED" /\ "round" \in {"round", "halt"}
      BY <2>2, SMT DEF NodeRecord
  <2>. QED BY <1>7, <2>1, <2>2, <2>3, NodeRewritten, Zenon
<1>8. CASE reign' = reign /\ Change(s, WithNode(m, n, BlockedFor(r, "none", 0)), "halt")
  <2>1. PICK q : q = BlockedFor(r, "none", 0)
      OBVIOUS
  <2>2. q \in NodeRecord /\ NodeOK(q) /\ q.life = "BLOCKED" /\ ~q.open /\ q.kind = "none"
    <3>1. 0 \in 0..2 /\ (0 # 0 <=> "none" # "none")
          /\ "none" \in {"none", "usage_limit", "storage_pressure"}
        OBVIOUS
    <3>. QED BY <1>1, <1>3, <2>1, <3>1, BlockedRecord, SMT
  <2>3. q.open = (q.life = "RUNNING") /\ q.life # "MERGED" /\ "halt" \in {"round", "halt"}
      BY <2>2, SMT DEF NodeRecord
  <2>. QED BY <1>8, <2>1, <2>2, <2>3, NodeRewritten, Zenon
<1>. QED BY <1>4, <1>5, <1>6, <1>7, <1>8, Zenon DEF SettleAs

LEMMA VerdictSays ==
    ASSUME run \in [Node -> RunRecord], NEW n \in Node, NEW before
    PROVE  VerdictOn(n, before) = "ACCEPTED" => run[n].cand # 0
BY SMT DEF VerdictOn, RunRecord, RunReturns

\* Where a session settles or changes what it has in memory.
LEMMA AtWork ==
    ASSUME ProjInv, NEW s \in Ctl, ctl[s].at \notin {"off", "start"}
    PROVE  /\ ctl \in [Ctl -> DriveRecord] /\ run \in [Node -> RunRecord]
           /\ ctl[s].mem \in StateRecord /\ MemIs(ctl[s]) /\ (Current(s) => Mirrors(ctl[s]))
           /\ \A n \in Node : ctl[s].mem.node[n] \in NodeRecord /\ NodeOK(ctl[s].mem.node[n])
<1>1. /\ ctl \in [Ctl -> DriveRecord] /\ run \in [Node -> RunRecord]
      /\ ctl[s].mem \in StateRecord
    BY SMT DEF ProjInv, DriveTypeOK, DriveRecord
<1>2. MemIs(ctl[s]) /\ (Current(s) => Mirrors(ctl[s]))
    BY DEF ProjInv, MemInv, MasterInv
<1>3. \A n \in Node : ctl[s].mem.node[n] \in NodeRecord
    BY <1>1, SMT DEF StateRecord
<1>. QED BY <1>1, <1>2, <1>3 DEF MemIs, StateOK

LEMMA EvaluateKeeps ==
    ASSUME ProjInv, NEW s \in Ctl, NEW n \in Node, Evaluate(s, n) PROVE ProjInv'
<1>1. ctl[s].at = "round" /\ ctl[s].mem.node[n].life = "RUNNING"
    BY DEF Evaluate, CtlAt
<1>2. Elsewhere
    BY DEF ProjInv, DriveTypeOK, Evaluate, Elsewhere
<1>3. CASE HaltOf(s)
    BY <1>1, <1>2, <1>3, HaltKeeps, SMT
<1>4. CASE SettleAs(s, ctl[s].mem, n, VerdictOn(n, ctl[s].mem.node[n].before), "round")
  <2>1. PICK v : v = VerdictOn(n, ctl[s].mem.node[n].before)
      OBVIOUS
  <2>2. v = "ACCEPTED" => run[n].cand # 0
      BY <2>1, VerdictSays DEF ProjInv, DriveTypeOK
  <2>. QED BY <1>1, <1>2, <1>4, <2>1, <2>2, SettleKeeps, SMT DEF Open
<1>. QED BY <1>3, <1>4, Zenon DEF Evaluate

LEMMA ReturnKeeps == ASSUME ProjInv, NEW s \in Ctl, Return(s) PROVE ProjInv'
<1>. DEFINE n == ctl[s].node
<1>1. ctl[s].at = "waiting" /\ Elsewhere
    BY DEF ProjInv, DriveTypeOK, Return, CtlAt, Elsewhere
<1>2. n \in Node /\ ctl[s].mem.node[n].life = "RUNNING"
    BY <1>1, AtWork, SMT DEF MemIs, Launching
<1>3. PICK v : v = VerdictOn(n, ctl[s].mem.node[n].before)
    OBVIOUS
<1>4. v = "ACCEPTED" => run[n].cand # 0
    BY <1>2, <1>3, VerdictSays DEF ProjInv, DriveTypeOK
<1>5. SettleAs(s, ctl[s].mem, n, v, "round")
    BY <1>3 DEF Return
<1>. HIDE DEF n
<1>. QED BY <1>1, <1>2, <1>4, <1>5, SettleKeeps, SMT DEF Open

LEMMA RefusedKeeps ==
    ASSUME ProjInv, NEW s \in Ctl, NEW v \in {"UNDETERMINED", "STORAGE_UNAVAILABLE"},
        Refused(s, v)
    PROVE  ProjInv'
<1>. DEFINE n == ctl[s].node
<1>1. ctl[s].at = "starting" /\ Elsewhere /\ v # "ACCEPTED"
    BY SMT DEF ProjInv, DriveTypeOK, Refused, CtlAt, Elsewhere
<1>2. n \in Node /\ ctl[s].mem.node[n].life = "RUNNING"
    BY <1>1, AtWork, SMTT(60) DEF MemIs, Launching
<1>3. SettleAs(s, ctl[s].mem, n, v, "round")
    BY DEF Refused
<1>. HIDE DEF n
<1>. QED BY <1>1, <1>2, <1>3, SettleKeeps, SMT DEF Open

LEMMA ObstructedKeeps ==
    ASSUME ProjInv, NEW s \in Ctl, NEW n \in Node, Obstructed(s, n) PROVE ProjInv'
<1>1. ctl[s].at = "round" /\ Elsewhere /\ reign' = reign /\ ctl[s].mem.node[n].life = "READY"
    BY DEF ProjInv, DriveTypeOK, Obstructed, CtlAt, Elsewhere, Ready
<1>2. ctl[s].mem.node[n].life \in Open
    BY <1>1 DEF Open
<1>3. PICK q : q = BlockedFor(ctl[s].mem.node[n], "none", 0)
    OBVIOUS
<1>4. q \in NodeRecord /\ NodeOK(q) /\ q.life = "BLOCKED" /\ ~q.open /\ q.kind = "none"
  <2>1. 0 \in 0..2 /\ (0 # 0 <=> "none" # "none")
        /\ "none" \in {"none", "usage_limit", "storage_pressure"}
      OBVIOUS
  <2>. QED BY <1>1, <1>2, <1>3, <2>1, BlockedRecord, AtWork, SMT
<1>5. q.open = (q.life = "RUNNING") /\ q.life # "MERGED" /\ "halt" \in {"round", "halt"}
    BY <1>4, SMT DEF NodeRecord
<1>6. Change(s, WithNode(ctl[s].mem, n, q), "halt")
    BY <1>3 DEF Obstructed
<1>. QED BY <1>1, <1>2, <1>4, <1>5, <1>6, NodeRewritten, Zenon

LEMMA RoundKeeps ==
    ASSUME ProjInv, NEW s \in Ctl, NEW n \in Node, Round(s, n) PROVE ProjInv'
<1>. DEFINE m == ctl[s].mem
            r == m.node[n]
<1>1. ctl[s].at = "round" /\ r.life = "READY" /\ r.life \in Open
      /\ UNCHANGED <<project, timers, mainline, accepted, overtaken>>
    BY DEF Round, CtlAt, Ready, Open
<1>2. /\ ctl \in [Ctl -> DriveRecord] /\ m \in StateRecord /\ r \in NodeRecord /\ NodeOK(r)
      /\ run \in [Node -> RunRecord]
    BY <1>1, AtWork, SMT
<1>3. CASE SettleAs(s, m, n, VerdictOn(n, r.before), "round") /\ UNCHANGED run
  <2>1. PICK v : v = VerdictOn(n, r.before)
      OBVIOUS
  <2>2. v = "ACCEPTED" => run[n].cand # 0
      BY <1>2, <2>1, VerdictSays
  <2>3. Elsewhere
      BY <1>1, <1>2, <1>3 DEF Elsewhere
  <2>. QED BY <1>1, <1>3, <2>1, <2>2, <2>3, SettleKeeps, SMT
<1>4. CASE /\ run' = [run EXCEPT ![n].made = TRUE]
           /\ ctl' = [ctl EXCEPT ![s].node = n, ![s].at = "persist", ![s].then = "launch",
                 ![s].mem = WithNode(m, n, [r EXCEPT !.life = "RUNNING", !.open = TRUE,
                                                     !.before = run[n].cand])]
           /\ UNCHANGED reign
  <2>1. PICK q : q = [r EXCEPT !.life = "RUNNING", !.open = TRUE, !.before = run[n].cand]
      OBVIOUS
  <2>2. run[n].cand \in 0..MaxCand
      BY <1>2, SMT DEF RunRecord
  <2>3. q \in NodeRecord /\ NodeOK(q) /\ q.life = "RUNNING" /\ q.open /\ q.kind = "none"
      BY <1>1, <1>2, <2>1, <2>2, RunningRecord, Zenon
  <2>4. PICK w : w = WithNode(m, n, q)
      OBVIOUS
  <2>5. w \in StateRecord
      BY <1>2, <2>3, <2>4, WithNodeIs, SMT
  <2>. DEFINE c1 == [ctl[s] EXCEPT !.node = n]
              c2 == [c1 EXCEPT !.at = "persist"]
              c3 == [c2 EXCEPT !.then = "launch"]
              c4 == [c3 EXCEPT !.mem = w]
  <2>6. ctl' = [ctl EXCEPT ![s] = c4]
      BY <1>4, <2>1, <2>4, Zenon
  <2>7. "persist" \in ProjPlaces /\ "launch" \in Nexts /\ ctl[s] \in DriveRecord
      BY <1>2 DEF ProjPlaces, Nexts
  <2>8. c1 \in DriveRecord /\ c1.node = n /\ c1.reign = ctl[s].reign
      BY <2>7, DriveFields, SMT DEF DriveRecord
  <2>. HIDE DEF c1
  <2>9. c2 \in DriveRecord /\ c2.at = "persist" /\ c2.node = n /\ c2.reign = ctl[s].reign
      BY <2>7, <2>8, AtIs, Zenon
  <2>. HIDE DEF c2
  <2>10. c3 \in DriveRecord
      BY <2>7, <2>9, DriveFields, Zenon
  <2>11. c3.at = "persist" /\ c3.node = n /\ c3.reign = ctl[s].reign /\ c3.then = "launch"
      BY <2>9, SMT DEF DriveRecord
  <2>. HIDE DEF c3
  <2>12. c4 \in DriveRecord
      BY <2>5, <2>10, DriveFields, Zenon
  <2>13. /\ c4.at = "persist" /\ c4.node = n /\ c4.reign = ctl[s].reign /\ c4.then = "launch"
         /\ c4.mem = w
      BY <2>10, <2>11, SMT DEF DriveRecord
  <2>. HIDE DEF c4
  <2>14. Alone(s) /\ ctl'[s] = c4
      BY <1>2, <2>6, <2>12, AloneIf, Zenon
  <2>15. run' \in [Node -> RunRecord] /\ \A k \in Node : run'[k].cand = run[k].cand
      BY <1>2, <1>4, Lives, RunFlag, Zenon
  <2>16. /\ timers' \subseteq TimerRecord
         /\ mainline \subseteq mainline' /\ mainline' \subseteq accepted \cap Candidates
         /\ \A k \in Node \ {n} : \A kind, due : Timer(k, kind, due) \in timers
                                                  => Timer(k, kind, due) \in timers'
      BY <1>1, Zenon DEF ProjInv, DriveTypeOK, RunsInv, OnlyAcceptedMerged
  <2>17. /\ ~(q.kind = "storage_pressure") /\ ~(q.kind = "usage_limit") /\ q.life # "MERGED"
         /\ q.open = (q.life = "RUNNING")
    <3>1. q.open \in BOOLEAN
        BY <2>3, SMT DEF NodeRecord
    <3>2. q.open = TRUE
        BY <2>3, <3>1
    <3>. QED BY <2>3, <3>2
  <2>18. UNCHANGED <<project, reign, overtaken, accepted>> /\ UNCHANGED <<timers, mainline>>
      BY <1>1, <1>4
  <2>19. ctl[s].at \in {"round", "starting", "waiting"}
      BY <1>1
  <2>20. /\ ctl'[s].at = "persist" /\ ctl'[s].mem = WithNode(m, n, q)
         /\ ctl'[s].reign = ctl[s].reign /\ ctl'[s].then = "launch" /\ ctl'[s].node = n
      BY <2>4, <2>13, <2>14
  <2>. QED BY <1>1, <2>3, <2>14, <2>15, <2>16, <2>17, <2>18, <2>19, <2>20, NodeChanges, Zenon
<1>. QED BY <1>3, <1>4, Zenon DEF Round

-----------------------------------------------------------------------------
(* Closure                                                                 *)

\* A session that does not settle a node writes a state.
LEMMA StateWritten ==
    ASSUME ProjInv, NEW s \in Ctl, NEW m \in StateRecord,
           NEW then \in {"round", "halt", "closing", "ended"},
           ctl[s].at \notin {"off", "start"}, Change(s, m, then), Elsewhere, reign' = reign,
           StateOK(m), \A k \in Node : m.node[k].open = (m.node[k].life = "RUNNING"),
           then = "ended" => Terminal(m),
           Current(s) =>
              /\ m.seq = project.seq /\ Waits(m) /\ Covered(m)
              /\ \A k \in Node : project.node[k].life \in Settled
                                    => m.node[k].life = project.node[k].life
    PROVE  ProjInv'
<1>1. ctl \in [Ctl -> DriveRecord] /\ then \in Nexts
    BY SMT DEF ProjInv, DriveTypeOK, Nexts
<1>2. /\ Alone(s) /\ ctl'[s].at = "persist" /\ ctl'[s].mem = m /\ ctl'[s].then = then
      /\ ctl'[s].reign = ctl[s].reign
    BY <1>1, ChangeDoes
<1>3. StateOK(m)' /\ (Waits(m) => Waits(m)') /\ (Covered(m) => Covered(m)')
    BY MemSame, Zenon
<1>4. MemIs(ctl[s])'
    BY <1>2, <1>3, SMT DEF MemIs, Settling, Launching
<1>5. ASSUME Current(s) PROVE Mirrors(ctl[s])'
  <2>1. project' = project
      BY DEF Elsewhere
  <2>. QED BY <1>2, <1>3, <1>5, <2>1, SMT DEF Mirrors, Settling
<1>6. ctl[s].at # "off" /\ ctl'[s].at \notin {"disarming", "start", "off"}
    BY <1>2, SMT
<1>. QED BY <1>2, <1>4, <1>5, <1>6, PlainStep, Zenon

\* A session at rest has the state it read or wrote, and if it is the master, the file.
LEMMA AtRest ==
    ASSUME ProjInv, NEW s \in Ctl, ctl[s].at \in {"closing", "measuring"}
    PROVE  /\ StateOK(ctl[s].mem) /\ ctl[s].mem \in StateRecord
           /\ \A k \in Node : ctl[s].mem.node[k].open = (ctl[s].mem.node[k].life = "RUNNING")
           /\ Current(s) => ctl[s].mem = project
           /\ Waits(project) /\ Covered(project)
<1>1. ctl[s].at \notin {"off", "start", "persist", "merging", "arming"}
    OBVIOUS
<1>2. MemIs(ctl[s]) /\ (Current(s) => Mirrors(ctl[s])) /\ ctl[s].mem \in StateRecord
    BY <1>1, AtWork, Zenon
<1>3. \A k \in Node : ctl[s].mem.node[k].open = (ctl[s].mem.node[k].life = "RUNNING")
    BY <1>1, <1>2, SMT DEF MemIs, Settling
<1>. QED BY <1>1, <1>2, <1>3, SMTT(60) DEF MemIs, Mirrors, Settling, ProjInv, FileInv

LEMMA ClosingKeeps == ASSUME ProjInv, NEW s \in Ctl, Closing(s) PROVE ProjInv'
<1>1. ctl[s].at = "closing" /\ Elsewhere /\ reign' = reign /\ ctl \in [Ctl -> DriveRecord]
    BY DEF ProjInv, DriveTypeOK, Closing, CtlAt, Elsewhere
<1>2. CASE RcClosed(ctl[s].mem) /\ Change(s, ctl[s].mem, "ended")
  <2>1. Terminal(ctl[s].mem)
      BY <1>2 DEF RcClosed
  <2>2. PICK m : m = ctl[s].mem
      OBVIOUS
  <2>3. /\ StateOK(m) /\ m \in StateRecord /\ Terminal(m)
        /\ \A k \in Node : m.node[k].open = (m.node[k].life = "RUNNING")
        /\ Current(s) => m = project
        /\ Waits(project) /\ Covered(project)
      BY <1>1, <2>1, <2>2, AtRest, SMT
  <2>4. Current(s) =>
              /\ m.seq = project.seq /\ Waits(m) /\ Covered(m)
              /\ \A k \in Node : project.node[k].life \in Settled
                                    => m.node[k].life = project.node[k].life
      BY <2>3
  <2>5. ctl[s].at \notin {"off", "start"} /\ "ended" \in {"round", "halt", "closing", "ended"}
        /\ Change(s, m, "ended")
      BY <1>1, <1>2, <2>2
  <2>. QED BY <1>1, <2>3, <2>4, <2>5, StateWritten, Zenon
<1>3. CASE ctl' = [ctl EXCEPT ![s].at = "round"]
  <2>. DEFINE c1 == [ctl[s] EXCEPT !.at = "round"]
  <2>1. ctl' = [ctl EXCEPT ![s] = c1]
      BY <1>3, Zenon
  <2>2. ctl[s] \in DriveRecord /\ "round" \in ProjPlaces
      BY <1>1 DEF ProjPlaces
  <2>3. /\ c1 \in DriveRecord /\ c1.at = "round" /\ c1.mem = ctl[s].mem
        /\ c1.reign = ctl[s].reign /\ c1.node = ctl[s].node /\ c1.then = ctl[s].then
      BY <2>2, AtIs, Zenon
  <2>. HIDE DEF c1
  <2>4. Alone(s) /\ ctl'[s] = c1
      BY <1>1, <2>1, <2>3, AloneIf, Zenon
  <2>. QED BY <1>1, <2>3, <2>4, MoveOnKeeps, SMT DEF Launching
<1>. QED BY <1>2, <1>3 DEF Closing

LEMMA GatesAnswerKeeps ==
    ASSUME ProjInv, NEW s \in Ctl, NEW outcome \in {"GREEN", "RED", "NOT_RUN"},
           GatesAnswer(s, outcome)
    PROVE  ProjInv'
<1>. DEFINE m == ctl[s].mem
            g == [m EXCEPT !.gates = outcome, !.subject = ctl[s].subject]
<1>1. /\ ctl[s].at = "measuring" /\ Elsewhere /\ reign' = reign
      /\ ctl[s].at \notin {"off", "start"} /\ ctl[s].at \in {"closing", "measuring"}
    BY DEF ProjInv, DriveTypeOK, GatesAnswer, CtlAt, Elsewhere
<1>2. /\ StateOK(m) /\ m \in StateRecord
      /\ \A k \in Node : m.node[k].open = (m.node[k].life = "RUNNING")
      /\ Current(s) => m = project
      /\ Waits(project) /\ Covered(project)
    BY <1>1, AtRest, Zenon
<1>3. Terminal(m) /\ (Current(s) => mainline \subseteq ctl[s].subject)
    BY <1>1, AtWork, Zenon DEF MemIs, Mirrors
<1>4. ctl[s].subject \in SUBSET Candidates
    BY SMT DEF ProjInv, DriveTypeOK, DriveRecord
<1>5. ASSUME outcome # "NOT_RUN"
      PROVE  /\ g \in StateRecord /\ g.node = m.node /\ g.seq = m.seq /\ g.gates = outcome
             /\ g.subject = ctl[s].subject
  <2>. DEFINE g1 == [m EXCEPT !.gates = outcome]
              g2 == [g1 EXCEPT !.subject = ctl[s].subject]
  <2>1. g = g2
      BY Zenon
  <2>2. outcome \in {"GREEN", "RED"}
      BY <1>5
  <2>3. g1 \in StateRecord /\ g1.node = m.node /\ g1.seq = m.seq /\ g1.gates = outcome
      BY <1>2, <2>2, SMT DEF StateRecord
  <2>. HIDE DEF g1
  <2>4. /\ g2 \in StateRecord /\ g2.node = m.node /\ g2.seq = m.seq /\ g2.gates = outcome
        /\ g2.subject = ctl[s].subject
      BY <1>4, <2>3, SMT DEF StateRecord
  <2>. QED BY <2>1, <2>4
<1>. HIDE DEF m, g
<1>6. CASE outcome = "NOT_RUN" /\ Change(s, m, "halt")
  <2>1. PICK x : x = m
      OBVIOUS
  <2>2. "halt" \in {"round", "halt", "closing", "ended"} /\ "halt" # "ended"
      OBVIOUS
  <2>3. Current(s) =>
              /\ x.seq = project.seq /\ Waits(x) /\ Covered(x)
              /\ \A k \in Node : project.node[k].life \in Settled
                                    => x.node[k].life = project.node[k].life
      BY <1>2, <2>1
  <2>. QED BY <1>1, <1>2, <1>6, <2>1, <2>2, <2>3, StateWritten, Zenon
<1>7. ASSUME NEW then \in {"closing", "halt"}, Change(s, g, then), outcome # "NOT_RUN"
      PROVE  ProjInv'
  <2>1. PICK x : x = g
      OBVIOUS
  <2>2. x \in StateRecord /\ x.node = m.node /\ x.seq = m.seq /\ x.subject = ctl[s].subject
      BY <1>5, <1>7, <2>1
  <2>3. StateOK(x)
      BY <1>2, <1>3, <2>2, Zenon DEF StateOK, MergedIsThere, Terminal
  <2>4. \A k \in Node : x.node[k].open = (x.node[k].life = "RUNNING")
      BY <1>2, <2>2, Zenon
  <2>5. Current(s) =>
              /\ x.seq = project.seq /\ Waits(x) /\ Covered(x)
              /\ \A k \in Node : project.node[k].life \in Settled
                                    => x.node[k].life = project.node[k].life
      BY <1>2, <1>3, <2>2, Zenon DEF Waits, Covered
  <2>6. then \in {"round", "halt", "closing", "ended"} /\ then # "ended"
      BY <1>7
  <2>. QED BY <1>1, <1>7, <2>1, <2>2, <2>3, <2>4, <2>5, <2>6, StateWritten, Zenon
<1>8. ASSUME outcome = "RED", NEW n \in Repair, m.node[n].life = "absent",
             Change(s, WithNode(g, n, NewNode), "round")
      PROVE  ProjInv'
  <2>1. PICK x : x = WithNode(g, n, NewNode)
      OBVIOUS
  <2>2. n \in Node /\ NewNode \in NodeRecord /\ g \in StateRecord /\ outcome # "NOT_RUN"
      BY <1>5, <1>8, NodesThere DEF Node
  <2>3. /\ x \in StateRecord /\ x.node[n] = NewNode
           /\ \A k \in Node \ {n} : x.node[k] = g.node[k]
        /\ x.seq = g.seq /\ x.gates = g.gates
      BY <2>1, <2>2, WithNodeIs, SMT
  <2>4. /\ \A k \in Node \ {n} : x.node[k] = m.node[k]
        /\ x.seq = m.seq /\ x.gates = "RED"
      BY <1>5, <1>8, <2>2, <2>3, SMT
  <2>5. /\ NewNode.life = "READY" /\ NewNode.kind = "none" /\ NewNode.open = FALSE
        /\ NodeOK(NewNode)
      BY Bounds, SMT DEF NewNode, NodeOK
  <2>6. StateOK(x)
    <3>1. \A k \in Node : NodeOK(x.node[k])
        BY <1>2, <2>3, <2>4, <2>5, Zenon DEF StateOK
    <3>2. MergedIsThere(x)
      <4>1. ASSUME NEW k \in Node, x.node[k].life = "MERGED" PROVE k # n
          BY <2>3, <2>5, <4>1
      <4>. QED BY <1>2, <2>4, <4>1, Zenon DEF StateOK, MergedIsThere
    <3>. QED BY <2>4, <3>1, <3>2 DEF StateOK
  <2>7. \A k \in Node : x.node[k].open = (x.node[k].life = "RUNNING")
    <3>1. NewNode.open = (NewNode.life = "RUNNING")
        BY <2>5
    <3>2. ASSUME NEW k \in Node PROVE x.node[k].open = (x.node[k].life = "RUNNING")
      <4>1. CASE k = n
          BY <2>3, <3>1, <4>1
      <4>2. CASE k # n
          BY <1>2, <2>4, <4>2
      <4>. QED BY <4>1, <4>2
    <3>. QED BY <3>2
  <2>8. ASSUME Current(s)
        PROVE /\ x.seq = project.seq /\ Waits(x) /\ Covered(x)
              /\ \A k \in Node : project.node[k].life \in Settled
                                    => x.node[k].life = project.node[k].life
    <3>1. m = project
        BY <1>2, <2>8
    <3>2. project.node[n].life \notin Settled
        BY <1>8, <3>1 DEF Settled
    <3>3. Covered(x)
        BY <2>4 DEF Covered
    <3>4. ASSUME NEW k \in Node
          PROVE  /\ x.node[k].kind = "storage_pressure"
                       => \E due \in DueTimes : Timer(k, x.node[k].kind, due) \in timers
                 /\ x.node[k].kind = "usage_limit" /\ ~overtaken
                       => Timer(k, x.node[k].kind, x.node[k].due) \in timers
      <4>1. CASE k = n
          BY <2>3, <2>5, <4>1
      <4>2. CASE k # n
        <5>1. x.node[k] = project.node[k]
            BY <2>4, <3>1, <4>2
        <5>. QED BY <1>2, <5>1, Zenon DEF Waits
      <4>. QED BY <4>1, <4>2
    <3>. QED BY <2>4, <3>1, <3>2, <3>3, <3>4, Zenon DEF Waits
  <2>9. "round" \in {"round", "halt", "closing", "ended"} /\ "round" # "ended"
      OBVIOUS
  <2>10. Change(s, x, "round")
      BY <1>8, <2>1
  <2>. QED BY <1>1, <2>3, <2>6, <2>7, <2>8, <2>9, <2>10, StateWritten, Zenon
<1>9. \/ outcome = "NOT_RUN" /\ Change(s, m, "halt")
      \/ outcome = "GREEN" /\ Change(s, g, "closing")
      \/ outcome = "RED" /\ Change(s, g, "halt")
      \/ outcome = "RED" /\ \E n \in Repair : /\ m.node[n].life = "absent"
                                              /\ Change(s, WithNode(g, n, NewNode), "round")
  <2>1. g.node = m.node \/ outcome = "NOT_RUN"
      BY <1>5
  <2>. QED BY <2>1, SMT DEF GatesAnswer, m, g
<1>10. "GREEN" # "NOT_RUN" /\ "RED" # "NOT_RUN"
    OBVIOUS
<1>. QED BY <1>6, <1>7, <1>8, <1>9, <1>10, Zenon

-----------------------------------------------------------------------------
(* The file is read and written                                            *)

LEMMA ReadKeeps == ASSUME ProjInv, NEW s \in Ctl, Read(s) PROVE ProjInv'
<1>1. ctl[s].at = "start" /\ Elsewhere /\ ctl \in [Ctl -> DriveRecord] /\ ctl[s].then = "none"
    BY DEF ProjInv, DriveTypeOK, MemInv, Read, CtlAt, Elsewhere
<1>2. CASE HaltOf(s)
    BY <1>1, <1>2, HaltKeeps, SMT
<1>3. CASE /\ ctl' = [ctl EXCEPT ![s].mem = project, ![s].at = "round"] /\ reign' = reign
  <2>. DEFINE c1 == [ctl[s] EXCEPT !.mem = project]
              c2 == [c1 EXCEPT !.at = "round"]
  <2>1. ctl' = [ctl EXCEPT ![s] = c2]
      BY <1>3, Zenon
  <2>2. ctl[s] \in DriveRecord /\ "round" \in ProjPlaces /\ project \in StateRecord
      BY <1>1 DEF ProjPlaces, ProjInv, DriveTypeOK
  <2>3. c1 \in DriveRecord
      BY <2>2, DriveFields, Zenon
  <2>4. /\ c1.mem = project /\ c1.then = "none" /\ c1.reign = ctl[s].reign
        /\ c1.node = ctl[s].node
      BY <1>1, <2>2, SMT DEF DriveRecord
  <2>. HIDE DEF c1
  <2>5. /\ c2 \in DriveRecord /\ c2.at = "round" /\ c2.mem = project /\ c2.then = "none"
        /\ c2.reign = ctl[s].reign
      BY <2>2, <2>3, <2>4, AtIs, Zenon
  <2>. HIDE DEF c2
  <2>6. Alone(s) /\ ctl'[s] = c2
      BY <1>1, <2>1, <2>5, AloneIf, Zenon
  <2>7. FileInv' /\ project' = project
      BY StillTrue, <1>1 DEF Elsewhere
  <2>8. MemIs(ctl[s])'
    <3>1. StateOK(project)'
        BY <2>7 DEF FileInv
    <3>2. \A k \in Node : project.node[k].open = (project.node[k].life = "RUNNING")
        BY Zenon DEF ProjInv, FileInv, Disagrees
    <3>. QED BY <2>5, <2>6, <2>7, <3>1, <3>2, SMT DEF MemIs, Settling, Launching
  <2>9. Mirrors(ctl[s])'
      BY <2>5, <2>6, <2>7, SMT DEF Mirrors, Settling
  <2>10. ctl[s].at # "off" /\ ctl'[s].at \notin {"disarming", "start", "off"}
      BY <1>1, <2>5, <2>6, SMT
  <2>. QED BY <1>1, <1>3, <2>5, <2>6, <2>8, <2>9, <2>10, PlainStep, Zenon
<1>. QED BY <1>2, <1>3 DEF Read

LEMMA PersistKeeps == ASSUME ProjInv, NEW s \in Ctl, Persist(s) PROVE ProjInv'
<1>1. /\ ctl[s].at = "persist" /\ ctl \in [Ctl -> DriveRecord] /\ project.seq < MaxWrites
      /\ UNCHANGED <<timers, run, mainline, accepted, overtaken, mishaps>>
      /\ run \in [Node -> RunRecord]
    BY DEF ProjInv, DriveTypeOK, Persist, CtlAt
<1>2. CASE HaltOf(s) /\ UNCHANGED project
  <2>1. Elsewhere
      BY <1>1, <1>2 DEF Elsewhere
  <2>. QED BY <1>1, <1>2, <2>1, HaltKeeps, SMT
<1>3. CASE /\ MayWrite(s) /\ project' = [ctl[s].mem EXCEPT !.seq = @ + 1] /\ reign' = reign
           /\ ctl' = [ctl EXCEPT ![s].mem = project', ![s].at = "disarming"]
  <2>. DEFINE m == ctl[s].mem
  <2>1. Current(s)
      BY <1>3, MasterIsCurrent DEF MayWrite, ProjInv
  <2>2. /\ m \in StateRecord /\ MemIs(ctl[s]) /\ Mirrors(ctl[s])
        /\ ctl[s] \in DriveRecord
      BY <1>1, <2>1, AtWork, SMT
  <2>3. /\ project' \in StateRecord /\ project'.node = m.node /\ project'.gates = m.gates
        /\ project'.subject = m.subject
    <3>1. m.seq = project.seq /\ project.seq \in 0..MaxWrites
        BY <2>2, SMT DEF Mirrors, ProjInv, DriveTypeOK, StateRecord
    <3>2. m.seq + 1 \in 0..MaxWrites
        BY <1>1, <3>1, Bounds, SMT
    <3>. QED BY <1>3, <2>2, <3>2, SMT DEF StateRecord
  <2>4. PICK p : p = project'
      OBVIOUS
  <2>. DEFINE c1 == [ctl[s] EXCEPT !.mem = p]
              c2 == [c1 EXCEPT !.at = "disarming"]
  <2>5. ctl' = [ctl EXCEPT ![s] = c2]
      BY <1>3, <2>4, Zenon
  <2>6. "disarming" \in ProjPlaces /\ p \in StateRecord
      BY <2>3, <2>4 DEF ProjPlaces
  <2>7. c1 \in DriveRecord
      BY <2>2, <2>6, DriveFields, Zenon
  <2>8. /\ c1.mem = p /\ c1.then = ctl[s].then /\ c1.reign = ctl[s].reign
        /\ c1.node = ctl[s].node
      BY <2>2, SMT DEF DriveRecord
  <2>. HIDE DEF c1
  <2>9. /\ c2 \in DriveRecord /\ c2.at = "disarming" /\ c2.mem = p
        /\ c2.then = ctl[s].then /\ c2.reign = ctl[s].reign /\ c2.node = ctl[s].node
      BY <2>6, <2>7, <2>8, AtIs, Zenon
  <2>. HIDE DEF c2
  <2>10. Alone(s) /\ ctl'[s] = c2
      BY <1>1, <2>5, <2>9, AloneIf, Zenon
  <2>11. Undisturbed /\ mainline' = mainline
      BY <1>1, Zenon DEF Undisturbed
  <2>12. DriveTypeOK'
      BY <1>1, <1>3, <2>3, <2>10, Zenon DEF ProjInv, DriveTypeOK, Alone
  <2>13. RunsInv'
      BY <1>1, Zenon DEF ProjInv, RunsInv, OnlyAcceptedMerged
  <2>14. /\ \A k \in Node : p.node[k].open = (p.node[k].life = "RUNNING")
         /\ StateOK(p)' /\ Waits(p)' /\ Covered(p)'
    <3>1. p.node = m.node /\ p.gates = m.gates /\ p.subject = m.subject
        BY <2>3, <2>4
    <3>2. \A k \in Node : m.node[k].open = (m.node[k].life = "RUNNING")
        BY <1>1, <2>2, SMT DEF MemIs, Settling
    <3>3. StateOK(m) /\ Waits(m) /\ Covered(m)
        BY <1>1, <2>2, Zenon DEF MemIs, Mirrors
    <3>4. StateOK(p) /\ Waits(p) /\ Covered(p)
        BY <3>1, <3>3, Zenon DEF StateOK, Waits, Covered, MergedIsThere, Terminal
    <3>5. timers' = timers /\ mainline' = mainline /\ overtaken' = overtaken
        BY <1>1
    <3>. QED BY <3>1, <3>2, <3>4, <3>5, Zenon DEF StateOK, Waits, Covered, MergedIsThere,
                Terminal
  <2>15. FileInv'
      BY <2>4, <2>14, Zenon DEF FileInv, Disagrees
  <2>16. MemIs(ctl[s])'
    <3>1. \A k \in Node : p.node[k].life = m.node[k].life
        BY <2>3, <2>4
    <3>2. Terminal(m) => Terminal(p)
        BY <3>1 DEF Terminal
    <3>. QED
      BY <1>1, <2>2, <2>9, <2>10, <2>14, <3>1, <3>2, SMT DEF MemIs, Settling, Launching
  <2>17. Mirrors(ctl[s])'
      BY <2>4, <2>9, <2>10, SMT DEF Mirrors, Settling
  <2>18. /\ ctl[s].at # "off" /\ ctl'[s].at # "off" /\ ctl'[s].at # "start"
         /\ ctl'[s].reign = ctl[s].reign
      BY <1>1, <2>9, <2>10
  <2>19. reign' = reign /\ overtaken' = overtaken
      BY <1>1, <1>3
  <2>. QED
    BY <2>1, <2>10, <2>11, <2>12, <2>13, <2>15, <2>16, <2>17, <2>18, <2>19, SessionStep, Zenon
<1>. QED BY <1>2, <1>3 DEF Persist

-----------------------------------------------------------------------------
(* Timers are withdrawn and armed                                          *)

LEMMA DisarmStaleKeeps == ASSUME ProjInv, NEW s \in Ctl, DisarmStale(s) PROVE ProjInv'
<1>. DEFINE m == ctl[s].mem
<1>1. /\ ctl[s].at = "disarming" /\ ctl \in [Ctl -> DriveRecord] /\ ctl[s].at # "off"
      /\ timers' = timers \ StaleWaits(m)
      /\ UNCHANGED <<project, run, mainline, accepted, overtaken, mishaps>>
    BY DEF ProjInv, DriveTypeOK, DisarmStale, CtlAt
<1>2. MemIs(ctl[s]) /\ (Current(s) => Mirrors(ctl[s])) /\ m \in StateRecord
    BY <1>1, AtWork, SMT
<1>3. ~overtaken => Current(s) /\ m = project
  <2>1. ~overtaken => Current(s)
      BY <1>1 DEF ProjInv, ReignInv, CtlAt
  <2>. QED BY <1>1, <1>2, <2>1, SMT DEF Mirrors, Settling
<1>4. ASSUME NEW n \in Node, NEW due
          PROVE Timer(n, "storage_pressure", due) \notin StaleWaits(m)
    BY SMT DEF Timer, StaleWaits
<1>5. ASSUME NEW n \in Node, ~overtaken, project.node[n].kind = "usage_limit"
      PROVE  Timer(n, "usage_limit", project.node[n].due) \notin StaleWaits(m)
  <2>1. project.node[n].life = "BLOCKED"
      BY <1>5 DEF ProjInv, FileInv, StateOK, NodeOK
  <2>. QED BY <1>3, <1>5, <2>1, SMTT(60) DEF Timer, StaleWaits
<1>6. Waits(project)'
  <2>1. ASSUME NEW n \in Node
        PROVE  /\ project.node[n].kind = "storage_pressure"
                     => \E due \in DueTimes : Timer(n, project.node[n].kind, due) \in timers'
               /\ project.node[n].kind = "usage_limit" /\ ~overtaken
                     => Timer(n, project.node[n].kind, project.node[n].due) \in timers'
      BY <1>1, <1>4, <1>5, Zenon DEF ProjInv, FileInv, Waits
  <2>. QED BY <1>1, <2>1, Zenon DEF Waits
<1>7. ASSUME ~Current(s), NEW x \in StateRecord, Waits(x) PROVE Waits(x)'
  <2>1. overtaken'
      BY <1>1, <1>3, <1>7
  <2>. QED BY <1>1, <1>4, <1>7, <2>1, Zenon DEF Waits
<1>8. FileInv'
    BY <1>1, <1>6, Zenon DEF ProjInv, FileInv, StateOK, Disagrees, Covered, MergedIsThere,
       Terminal
<1>9. RunsInv' /\ Undisturbed
    BY <1>1, Zenon DEF ProjInv, RunsInv, OnlyAcceptedMerged, Undisturbed
<1>10. /\ timers' \subseteq TimerRecord
       /\ project' \in StateRecord /\ run' \in [Node -> RunRecord]
          /\ mainline' \subseteq Candidates
       /\ overtaken' \in BOOLEAN
    BY <1>1 DEF ProjInv, DriveTypeOK
<1>11. Current(s) \/ /\ project' = project /\ mainline' = mainline
                     /\ \A x \in StateRecord : Waits(x) => Waits(x)'
    BY <1>1, <1>7
<1>12. CASE HaltOf(s)
  <2>1. /\ Alone(s) /\ ctl'[s].at = "off" /\ ctl'[s].reign = 0
        /\ reign' = reign \/ reign' = [reign EXCEPT !.lease = "released"]
      BY <1>1, <1>12, HaltDoes, OffIs, Zenon
  <2>2. /\ reign'.number = reign.number /\ reign'.who = reign.who
        /\ reign'.lease = "held" => reign.lease = "held"
        /\ reign' \in [number : 0..MaxReign, who : Ctl \cup {"none", "operator"},
                       lease : {"held", "released", "lapsed"}]
      BY <2>1, SMT DEF ProjInv, DriveTypeOK
  <2>3. DriveTypeOK'
      BY <1>10, <2>1, <2>2, Zenon DEF DriveTypeOK, Alone
  <2>. QED
    BY <1>1, <1>8, <1>9, <1>11, <2>1, <2>2, <2>3, SessionStep, SMT
<1>13. CASE /\ ctl[s].then # "halt" /\ UNCHANGED reign
            /\ ctl' = [ctl EXCEPT ![s].at = ctl[s].then, ![s].then = "none"]
  <2>1. PICK a : a = ctl[s].then
      OBVIOUS
  <2>2. a \in {"round", "launch", "closing", "ended"} /\ ctl[s] \in DriveRecord
      BY <1>1, <1>2, <1>13, <2>1, SMT DEF MemIs, DriveRecord, Nexts
  <2>3. a \in ProjPlaces /\ "none" \in Nexts
      BY <2>2 DEF ProjPlaces, Nexts
  <2>. DEFINE c1 == [ctl[s] EXCEPT !.at = a]
              c2 == [c1 EXCEPT !.then = "none"]
  <2>4. ctl' = [ctl EXCEPT ![s] = c2]
      BY <1>13, <2>1, Zenon
  <2>5. /\ c1 \in DriveRecord /\ c1.at = a /\ c1.mem = m /\ c1.reign = ctl[s].reign
        /\ c1.node = ctl[s].node
      BY <2>2, <2>3, AtIs, Zenon
  <2>. HIDE DEF c1
  <2>6. c2 \in DriveRecord
      BY <2>3, <2>5, DriveFields, Zenon
  <2>7. /\ c2.at = a /\ c2.mem = m /\ c2.reign = ctl[s].reign /\ c2.node = ctl[s].node
        /\ c2.then = "none"
      BY <2>5, SMT DEF DriveRecord
  <2>. HIDE DEF c2
  <2>8. Alone(s) /\ ctl'[s] = c2
      BY <1>1, <2>4, <2>6, AloneIf, Zenon
  <2>9. DriveTypeOK'
      BY <1>10, <1>13, <2>8, Zenon DEF DriveTypeOK, Alone, ProjInv
  <2>10. MemIs(ctl[s])'
    <3>1. PICK x : x = m
        OBVIOUS
    <3>2. StateOK(x) /\ mainline' = mainline
        BY <1>1, <1>2, <3>1 DEF MemIs
    <3>3. StateOK(x)'
        BY <3>2, Zenon DEF StateOK, MergedIsThere, Terminal
    <3>. QED
      BY <1>1, <1>2, <2>1, <2>2, <2>7, <2>8, <3>1, <3>3, SMT DEF MemIs, Settling, Launching
  <2>11. Current(s) => Mirrors(ctl[s])'
      BY <1>1, <1>2, <2>2, <2>7, <2>8, SMT DEF Mirrors, Settling
  <2>12. /\ ctl'[s].at # "off" /\ ctl'[s].reign = ctl[s].reign
         /\ ctl'[s].at # "disarming" /\ ctl'[s].at # "start"
      BY <2>2, <2>7, <2>8, SMT
  <2>13. reign' = reign /\ overtaken' = overtaken
      BY <1>1, <1>13
  <2>. QED
    BY <1>1, <1>8, <1>9, <1>11, <2>8, <2>9, <2>10, <2>11, <2>12, <2>13, SessionStep, Zenon
<1>. QED BY <1>12, <1>13 DEF DisarmStale

LEMMA EndedKeeps == ASSUME ProjInv, NEW s \in Ctl, Ended(s) PROVE ProjInv'
<1>1. /\ ctl[s].at = "ended" /\ ctl \in [Ctl -> DriveRecord] /\ HaltOf(s)
      /\ UNCHANGED <<project, run, mainline, accepted, overtaken, mishaps>>
    BY DEF ProjInv, DriveTypeOK, Ended, CtlAt
<1>2. CASE timers' = timers
  <2>1. Elsewhere
      BY <1>1, <1>2 DEF ProjInv, DriveTypeOK, Elsewhere
  <2>. QED BY <1>1, <2>1, HaltKeeps, SMT
<1>3. CASE timers' = {} /\ IsMaster(s)
  <2>1. Current(s)
      BY <1>3, MasterIsCurrent DEF ProjInv
  <2>2. Terminal(project)
      BY <1>1, <2>1, AtWork, SMT DEF MemIs, Mirrors, Settling
  <2>3. \A n \in Node : project.node[n].kind = "none"
      BY <2>2, SMT DEF Terminal, ProjInv, FileInv, StateOK, NodeOK, Settled, DriveTypeOK,
                       StateRecord, NodeRecord
  <2>4. Waits(project)'
    <3>1. project' = project
        BY <1>1
    <3>. QED BY <2>3, <3>1, SMT DEF Waits
  <2>5. FileInv'
      BY <1>1, <2>4, Zenon
      DEF ProjInv, FileInv, StateOK, Disagrees, Covered, MergedIsThere, Terminal
  <2>6. RunsInv' /\ Undisturbed
      BY <1>1, Zenon DEF ProjInv, RunsInv, OnlyAcceptedMerged, Undisturbed
  <2>7. /\ Alone(s) /\ ctl'[s].at = "off" /\ ctl'[s].reign = 0
        /\ reign' = reign \/ reign' = [reign EXCEPT !.lease = "released"]
      BY <1>1, HaltDoes, OffIs, Zenon
  <2>8. /\ reign'.number = reign.number /\ reign'.who = reign.who
        /\ reign'.lease = "held" => reign.lease = "held"
        /\ reign' \in [number : 0..MaxReign, who : Ctl \cup {"none", "operator"},
                       lease : {"held", "released", "lapsed"}]
      BY <2>7, SMT DEF ProjInv, DriveTypeOK
  <2>9. /\ timers' \subseteq TimerRecord
        /\ project' \in StateRecord /\ run' \in [Node -> RunRecord]
        /\ mainline' \subseteq Candidates /\ overtaken' \in BOOLEAN
      BY <1>1, <1>3, Zenon DEF ProjInv, DriveTypeOK
  <2>10. DriveTypeOK'
      BY <2>7, <2>8, <2>9, Zenon DEF DriveTypeOK, Alone
  <2>. QED BY <1>1, <2>1, <2>5, <2>6, <2>7, <2>8, <2>10, SessionStep, SMT
<1>. QED BY <1>2, <1>3 DEF Ended

LEMMA CtlDiesKeeps == ASSUME ProjInv, NEW s \in Ctl, CtlDies(s) PROVE ProjInv'
<1>1. /\ ctl[s].at # "off" /\ ctl \in [Ctl -> DriveRecord] /\ Elsewhere /\ reign' = reign
      /\ ctl' = [ctl EXCEPT ![s] = Off]
    BY DEF ProjInv, DriveTypeOK, CtlDies, CtlAt, Elsewhere
<1>2. Alone(s) /\ ctl'[s] = Off
    BY <1>1, OffIs, AloneIf, Zenon
<1>. QED BY <1>1, <1>2, OffIs, PlainStep, SMT

LEMMA ArmKeeps == ASSUME ProjInv, NEW s \in Ctl, Arm(s) PROVE ProjInv'
<1>. DEFINE m == ctl[s].mem
            n == ctl[s].node
            r == m.node[n]
            kind == KindOf[ctl[s].verdict]
            replaced == {t \in timers : t.node = n /\ t.kind = kind
                /\ kind = "storage_pressure"}
<1>1. /\ ctl[s].at = "arming" /\ ctl[s].at \in Settling /\ ctl[s].at \notin {"off", "start"}
      /\ UNCHANGED <<project, run, mainline, accepted, overtaken, mishaps>>
    BY DEF Arm, CtlAt, Settling
<1>2. /\ ctl \in [Ctl -> DriveRecord] /\ run \in [Node -> RunRecord] /\ m \in StateRecord
      /\ MemIs(ctl[s]) /\ \A k \in Node : m.node[k] \in NodeRecord /\ NodeOK(m.node[k])
    BY <1>1, AtWork, Zenon
<1>3. n \in Node /\ r.life \in Open /\ ctl[s].verdict \in Parked
    BY <1>1, <1>2, Zenon DEF MemIs, Open
<1>4. r \in NodeRecord /\ NodeOK(r) /\ kind \in {"usage_limit", "storage_pressure"}
    BY <1>2, <1>3, SMT DEF KindOf
<1>5. CASE HaltOf(s) /\ UNCHANGED timers
  <2>1. Elsewhere
      BY <1>1, <1>2, <1>5, Zenon DEF Elsewhere
  <2>. QED BY <1>1, <1>5, <2>1, HaltKeeps, Zenon
<1>6. CASE /\ UNCHANGED <<timers, reign>>
           /\ Change(s, WithNode(m, n, BlockedFor(r, "none", 0)), "halt")
  <2>1. PICK q : q = BlockedFor(r, "none", 0)
      OBVIOUS
  <2>2. q \in NodeRecord /\ NodeOK(q) /\ q.life = "BLOCKED" /\ ~q.open /\ q.kind = "none"
    <3>1. 0 \in 0..2 /\ (0 # 0 <=> "none" # "none")
          /\ "none" \in {"none", "usage_limit", "storage_pressure"}
        OBVIOUS
    <3>2. LET b == BlockedFor(r, "none", 0) IN
          b \in NodeRecord /\ NodeOK(b) /\ b.life = "BLOCKED" /\ ~b.open /\ b.kind = "none"
        BY <1>3, <1>4, <3>1, BlockedRecord, SMTT(60)
    <3>. QED BY <2>1, <3>2, ZenonT(60)
  <2>3. q.open = (q.life = "RUNNING") /\ q.life # "MERGED" /\ "halt" \in {"round", "halt"}
      BY <2>2, SMT DEF NodeRecord
  <2>4. Elsewhere
      BY <1>1, <1>2, <1>6, Zenon DEF Elsewhere
  <2>. QED BY <1>1, <1>3, <1>6, <2>1, <2>2, <2>3, <2>4, NodeRewritten, Zenon
<1>7. ASSUME NEW due \in DueTimes, IsMaster(s),
          timers' = (timers \ replaced) \cup {Timer(n, kind, due)},
             Change(s, WithNode(m, n, BlockedFor(r, kind, due)), "halt"), UNCHANGED reign
      PROVE  ProjInv'
  <2>1. PICK k : k = kind
      OBVIOUS
  <2>2. PICK q : q = BlockedFor(r, k, due)
      OBVIOUS
  <2>3. /\ q \in NodeRecord /\ NodeOK(q) /\ q.life = "BLOCKED" /\ ~q.open
        /\ q.kind = k /\ q.due = due
    <3>1. /\ k \in {"none", "usage_limit", "storage_pressure"} /\ due \in 0..2
          /\ due # 0 <=> k # "none"
        BY <1>4, <2>1, SMT DEF DueTimes
    <3>2. LET b == BlockedFor(r, k, due) IN
          /\ b \in NodeRecord /\ NodeOK(b) /\ b.life = "BLOCKED" /\ ~b.open
          /\ b.kind = k /\ b.due = due
        BY <1>3, <1>4, <3>1, BlockedRecord, SMTT(60)
    <3>. QED BY <2>2, <3>2, ZenonT(60)
  <2>4. q.open = (q.life = "RUNNING") /\ q.life # "MERGED"
      BY <2>3, SMT DEF NodeRecord
  <2>5. Current(s)
      BY <1>7, MasterIsCurrent DEF ProjInv
  <2>6. WithNode(m, n, q) \in StateRecord /\ "halt" \in Nexts
      BY <1>2, <1>3, <2>3, WithNodeIs DEF Nexts
  <2>7. /\ Alone(s) /\ ctl'[s].at = "persist" /\ ctl'[s].mem = WithNode(m, n, q)
        /\ ctl'[s].then = "halt" /\ ctl'[s].reign = ctl[s].reign
      BY <1>2, <1>7, <2>1, <2>2, <2>6, ChangeDoes
  <2>8. /\ timers \subseteq TimerRecord
        /\ mainline' = mainline /\ mainline' \subseteq accepted \cap Candidates
      BY <1>1, Zenon DEF ProjInv, DriveTypeOK, RunsInv, OnlyAcceptedMerged
  <2>9. Timer(n, k, due) \in TimerRecord
      BY <1>3, <1>4, <2>1, SMT DEF Timer, TimerRecord
  <2>10. /\ timers' \subseteq TimerRecord
         /\ Timer(n, k, due) \in timers'
      BY <1>7, <2>1, <2>8, <2>9, Zenon
  <2>11. ASSUME NEW j \in Node \ {n}, NEW kd, NEW d, Timer(j, kd, d) \in timers
         PROVE  Timer(j, kd, d) \in timers'
    <3>1. Timer(j, kd, d).node # n
        BY SMT DEF Timer
    <3>. QED BY <1>7, <2>11, <3>1, Zenon
  <2>12. /\ q.kind = "storage_pressure" => \E d \in DueTimes : Timer(n, q.kind, d) \in timers'
         /\ q.kind = "usage_limit" => Timer(n, q.kind, q.due) \in timers'
      BY <2>3, <2>10
  <2>13. /\ UNCHANGED <<project, reign, overtaken, accepted>>
         /\ run' \in [Node -> RunRecord] /\ \A k2 \in Node : run'[k2].cand = run[k2].cand
      BY <1>1, <1>2, <1>7
  <2>. QED
    BY <1>1, <1>3, <2>3, <2>4, <2>5, <2>7, <2>8, <2>10, <2>11, <2>12, <2>13, NodeChanges, Zenon
<1>8. \/ UNCHANGED timers /\ HaltOf(s)
      \/ /\ UNCHANGED <<timers, reign>>
         /\ Change(s, WithNode(m, n, BlockedFor(r, "none", 0)), "halt")
      \/ \E due \in DueTimes :
            /\ IsMaster(s) /\ timers' = (timers \ replaced) \cup {Timer(n, kind, due)}
            /\ Change(s, WithNode(m, n, BlockedFor(r, kind, due)), "halt") /\ UNCHANGED reign
    BY Zenon DEF Arm
<1>. QED BY <1>5, <1>6, <1>7, <1>8, Zenon

LEMMA MergeKeeps == ASSUME ProjInv, NEW s \in Ctl, Merge(s) PROVE ProjInv'
<1>. DEFINE m == ctl[s].mem
            n == ctl[s].node
            r == m.node[n]
<1>1. /\ ctl[s].at = "merging" /\ ctl[s].at \in Settling /\ ctl[s].at \notin {"off", "start"}
      /\ UNCHANGED <<project, timers, run, accepted, overtaken>>
    BY DEF Merge, CtlAt, Settling
<1>2. /\ ctl \in [Ctl -> DriveRecord] /\ run \in [Node -> RunRecord] /\ m \in StateRecord
      /\ MemIs(ctl[s]) /\ \A k \in Node : m.node[k] \in NodeRecord /\ NodeOK(m.node[k])
    BY <1>1, AtWork, Zenon
<1>3. n \in Node /\ r.life \in Open /\ ~r.open /\ run[n].cand # 0 /\ ctl[s].then = "round"
    BY <1>1, <1>2, Zenon DEF MemIs, Open
<1>4. r \in NodeRecord /\ NodeOK(r)
    BY <1>2, <1>3
<1>5. CASE HaltOf(s) /\ UNCHANGED mainline
  <2>1. Elsewhere
      BY <1>1, <1>2, <1>5, Zenon DEF Elsewhere
  <2>. QED BY <1>1, <1>5, <2>1, HaltKeeps, Zenon
<1>6. CASE /\ UNCHANGED <<mainline, reign>>
           /\ Change(s, WithNode(m, n, BlockedFor(r, "none", 0)), "halt")
  <2>1. PICK q : q = BlockedFor(r, "none", 0)
      OBVIOUS
  <2>2. q \in NodeRecord /\ NodeOK(q) /\ q.life = "BLOCKED" /\ ~q.open /\ q.kind = "none"
    <3>1. 0 \in 0..2 /\ (0 # 0 <=> "none" # "none")
          /\ "none" \in {"none", "usage_limit", "storage_pressure"}
        OBVIOUS
    <3>2. LET b == BlockedFor(r, "none", 0) IN
          b \in NodeRecord /\ NodeOK(b) /\ b.life = "BLOCKED" /\ ~b.open /\ b.kind = "none"
        BY <1>3, <1>4, <3>1, BlockedRecord, SMTT(60)
    <3>. QED BY <2>1, <3>2, ZenonT(60)
  <2>3. q.open = (q.life = "RUNNING") /\ q.life # "MERGED" /\ "halt" \in {"round", "halt"}
      BY <2>2, SMT DEF NodeRecord
  <2>4. Elsewhere
      BY <1>1, <1>2, <1>6, Zenon DEF Elsewhere
  <2>. QED BY <1>1, <1>3, <1>6, <2>1, <2>2, <2>3, <2>4, NodeRewritten, Zenon
<1>7. CASE /\ IsMaster(s) /\ Fit(n) /\ UNCHANGED reign
           /\ mainline' = mainline \cup {<<n, IF run[n].moved THEN 0 ELSE run[n].cand>>}
           /\ Change(s, WithNode(m, n, [r EXCEPT !.life = "MERGED"]), "round")
  <2>1. PICK q : q = [r EXCEPT !.life = "MERGED"]
      OBVIOUS
  <2>2. q \in NodeRecord /\ NodeOK(q) /\ q.life = "MERGED" /\ ~q.open /\ q.kind = "none"
    <3>1. LET b == [r EXCEPT !.life = "MERGED"] IN
          b \in NodeRecord /\ NodeOK(b) /\ b.life = "MERGED" /\ ~b.open /\ b.kind = "none"
        BY <1>3, <1>4, MergedRecord, ZenonT(60)
    <3>. QED BY <2>1, <3>1, ZenonT(60)
  <2>3. q.open = (q.life = "RUNNING")
      BY <2>2, SMT DEF NodeRecord
  <2>4. Current(s)
      BY <1>7, MasterIsCurrent DEF ProjInv
  <2>5. WithNode(m, n, q) \in StateRecord /\ "round" \in Nexts
      BY <1>2, <1>3, <2>2, WithNodeIs DEF Nexts
  <2>6. /\ Alone(s) /\ ctl'[s].at = "persist" /\ ctl'[s].mem = WithNode(m, n, q)
        /\ ctl'[s].then = "round" /\ ctl'[s].reign = ctl[s].reign
      BY <1>2, <1>7, <2>1, <2>5, ChangeDoes
  <2>7. /\ timers' \subseteq TimerRecord
        /\ mainline \subseteq accepted \cap Candidates /\ timers' = timers
      BY <1>1, Zenon DEF ProjInv, DriveTypeOK, RunsInv, OnlyAcceptedMerged
  <2>8. run[n].cand \in 1..MaxCand /\ <<n, run[n].cand>> \in accepted
    <3>1. run[n] \in RunRecord /\ MaxCand \in Nat
        BY <1>2, <1>3, Bounds
    <3>. QED BY <1>3, <3>1, SMT DEF RunRecord, ProjInv, RunsInv
  <2>9. mainline' = mainline \cup {<<n, run[n].cand>>}
      BY <1>7 DEF Fit
  <2>10. <<n, run[n].cand>> \in Candidates
      BY <1>3, <2>8, Zenon DEF Candidates
  <2>11. mainline \subseteq mainline' /\ mainline' \subseteq accepted \cap Candidates
         /\ \E c \in 1..MaxCand : <<n, c>> \in mainline'
      BY <2>7, <2>8, <2>9, <2>10, Zenon
  <2>12. /\ UNCHANGED <<project, reign, overtaken, accepted>>
         /\ run' \in [Node -> RunRecord] /\ \A k2 \in Node : run'[k2].cand = run[k2].cand
         /\ \A k \in Node \ {n} : \A kd, d : Timer(k, kd, d) \in timers
                                              => Timer(k, kd, d) \in timers'
      BY <1>1, <1>2, <1>7
  <2>13. ~(q.kind = "storage_pressure") /\ ~(q.kind = "usage_limit")
      BY <2>2
  <2>. QED
    BY <1>1, <1>3, <2>2, <2>3, <2>4, <2>6, <2>7, <2>11, <2>12, <2>13, NodeChanges, Zenon
<1>8. \/ UNCHANGED mainline /\ HaltOf(s)
      \/ /\ UNCHANGED <<mainline, reign>>
         /\ Change(s, WithNode(m, n, BlockedFor(r, "none", 0)), "halt")
      \/ /\ IsMaster(s) /\ Fit(n) /\ UNCHANGED reign
         /\ mainline' = mainline \cup {<<n, IF run[n].moved THEN 0 ELSE run[n].cand>>}
         /\ Change(s, WithNode(m, n, [r EXCEPT !.life = "MERGED"]), "round")
    BY <1>3, Zenon DEF Merge
<1>. QED BY <1>5, <1>6, <1>7, <1>8, Zenon

-----------------------------------------------------------------------------
(* Steps of the runs, of the timers and of the lease                       *)

LEMMA WorldStep ==
    ASSUME ProjInv, UNCHANGED <<project, ctl, mainline, overtaken>>, Undisturbed,
           DriveTypeOK', RunsInv', reign'.number = reign.number, reign'.who = reign.who,
           reign'.lease = "held" => reign.lease = "held",
           \A m \in StateRecord : Waits(m) => Waits(m)'
    PROVE  ProjInv'
<1>1. /\ project \in StateRecord /\ Waits(project) /\ ctl \in [Ctl -> DriveRecord]
      /\ \A t \in Ctl : ctl[t] \in DriveRecord /\ ctl[t].mem \in StateRecord
    BY SMT DEF ProjInv, DriveTypeOK, FileInv, DriveRecord
<1>2. FileInv'
  <2>1. PICK p : p = project
      OBVIOUS
  <2>2. Waits(p)'
      BY <1>1, <2>1
  <2>3. StateOK(project)' /\ ~Disagrees(project)' /\ Covered(project)'
      BY Zenon DEF ProjInv, FileInv, StateOK, Disagrees, Covered, MergedIsThere, Terminal
  <2>4. project' = p
      BY <2>1
  <2>. QED BY <2>2, <2>3, <2>4, Zenon DEF FileInv, Waits
<1>3. \A t \in Ctl : Current(t)' <=> Current(t)
    BY DEF Current
<1>4. ReignInv'
    BY <1>3, Zenon DEF ProjInv, ReignInv, CtlAt
<1>5. MemInv'
  <2>1. ASSUME NEW t \in Ctl, ctl[t].at \notin {"off", "start"} PROVE MemIs(ctl[t])'
    <3>1. PICK c : c = ctl[t]
        OBVIOUS
    <3>2. c \in DriveRecord /\ MemIs(c)
        BY <1>1, <2>1, <3>1 DEF ProjInv, MemInv
    <3>3. MemIs(c)'
        BY <3>2, MemStays
    <3>4. ctl'[t] = c
        BY <3>1
    <3>. QED BY <3>3, <3>4, Zenon
  <2>. QED BY <2>1, Zenon DEF ProjInv, MemInv
<1>6. MasterInv'
  <2>1. ASSUME NEW t \in Ctl, Current(t), ctl[t].at # "start" PROVE Mirrors(ctl[t])'
    <3>1. PICK c : c = ctl[t]
        OBVIOUS
    <3>2. c.mem \in StateRecord /\ Mirrors(c)
        BY <1>1, <2>1, <3>1 DEF ProjInv, MasterInv
    <3>3. Mirrors(c)'
        BY <3>2, Zenon DEF Mirrors, Covered
    <3>4. ctl'[t] = c
        BY <3>1
    <3>. QED BY <3>3, <3>4, Zenon
  <2>. QED BY <1>3, <2>1, Zenon DEF MasterInv
<1>. QED BY <1>2, <1>4, <1>5, <1>6 DEF ProjInv

LEMMA RunFields ==
    ASSUME NEW r \in RunRecord
    PROVE  /\ \A b \in BOOLEAN : /\ [r EXCEPT !.live = b] \in RunRecord
                                /\ [r EXCEPT !.veiled = b] \in RunRecord
                                /\ [r EXCEPT !.moved = b] \in RunRecord
           /\ \A e \in RunReturns : [r EXCEPT !.end = e] \in RunRecord
           /\ \A k \in 0..MaxCand : [r EXCEPT !.cand = k] \in RunRecord
BY SMT DEF RunRecord

LEMMA RunStopsKeeps == ASSUME ProjInv, NEW n \in Node, RunStops(n) PROVE ProjInv'
<1>1. /\ UNCHANGED <<project, timers, reign, ctl, mainline, overtaken>>
      /\ run \in [Node -> RunRecord] /\ run[n] \in RunRecord
    BY DEF RunStops, ProjInv, DriveTypeOK
<1>2. PICK end \in RunReturns, accepts \in BOOLEAN, moves \in BOOLEAN :
         /\ accepts => run[n].cand < MaxCand
         /\ run' = [run EXCEPT ![n].live = FALSE, ![n].end = end, ![n].veiled = FALSE,
                               ![n].cand = IF accepts THEN @ + 1 ELSE @,
                               ![n].moved = (@ /\ ~accepts) \/ moves]
         /\ accepted' = IF accepts THEN accepted \cup {<<n, run[n].cand + 1>>} ELSE accepted
    BY Zenon DEF RunStops
<1>. PICK count, moved : /\ count = IF accepts THEN run[n].cand + 1 ELSE run[n].cand
                         /\ moved = ((run[n].moved /\ ~accepts) \/ moves)
    OBVIOUS
<1>. DEFINE q == [run[n] EXCEPT !.live = FALSE, !.end = end, !.veiled = FALSE,
                                !.cand = count, !.moved = moved]
<1>3. run' = [run EXCEPT ![n] = q]
    BY <1>2, Zenon
<1>4. q \in RunRecord /\ q.cand = IF accepts THEN run[n].cand + 1 ELSE run[n].cand
  <2>1. run[n].cand \in 0..MaxCand /\ MaxCand \in Nat
      BY <1>1, Bounds, SMT DEF RunRecord
  <2>2. count \in 0..MaxCand
      BY <1>2, <2>1, SMT
  <2>3. moved \in BOOLEAN
      BY Zenon
  <2>. DEFINE r1 == [run[n] EXCEPT !.live = FALSE]
              r2 == [r1 EXCEPT !.end = end]
              r3 == [r2 EXCEPT !.veiled = FALSE]
              r4 == [r3 EXCEPT !.cand = count]
              r5 == [r4 EXCEPT !.moved = moved]
  <2>4. q = r5
      BY Zenon
  <2>5. r1 \in RunRecord
      BY <1>1, RunFields, Lives, Zenon
  <2>. HIDE DEF r1
  <2>6. r2 \in RunRecord
      BY <1>2, <2>5, RunFields, Zenon
  <2>. HIDE DEF r2
  <2>7. r3 \in RunRecord
      BY <2>6, RunFields, Lives, Zenon
  <2>. HIDE DEF r3
  <2>8. r4 \in RunRecord
      BY <2>2, <2>7, RunFields, Zenon
  <2>9. r4.cand = count
      BY <2>7, SMT DEF RunRecord
  <2>. HIDE DEF r4
  <2>10. r5 \in RunRecord
      BY <2>3, <2>8, RunFields, Zenon
  <2>11. r5.cand = count
      BY <2>8, <2>9, SMT DEF RunRecord
  <2>. HIDE DEF r5
  <2>. QED BY <2>4, <2>10, <2>11
<1>. HIDE DEF q
<1>5. /\ run' \in [Node -> RunRecord] /\ run'[n] = q
      /\ \A k \in Node \ {n} : run'[k] = run[k]
    BY <1>1, <1>3, <1>4, Zenon
<1>6. run[n].cand \in Nat /\ accepted \subseteq accepted'
    BY <1>1, <1>2, SMT DEF RunRecord
<1>7. ASSUME NEW k \in Node
      PROVE  /\ run[k].cand # 0 => run'[k].cand # 0
             /\ run'[k].cand # 0 => <<k, run'[k].cand>> \in accepted'
  <2>1. run[k].cand # 0 => <<k, run[k].cand>> \in accepted
      BY DEF ProjInv, RunsInv
  <2>2. CASE k # n
      BY <1>5, <1>6, <2>1, <2>2
  <2>3. CASE k = n /\ accepts
    <3>1. run'[k].cand = run[n].cand + 1 /\ run[n].cand + 1 # 0
      <4>1. q.cand = run[n].cand + 1 /\ run'[k] = q
          BY <1>4, <1>5, <2>3
      <4>. QED BY <1>6, <4>1, SMT
    <3>2. accepted' = accepted \cup {<<n, run[n].cand + 1>>}
        BY <1>2, <2>3
    <3>. QED BY <2>3, <3>1, <3>2
  <2>4. CASE k = n /\ ~accepts
      BY <1>4, <1>5, <1>6, <2>1, <2>4
  <2>. QED BY <2>2, <2>3, <2>4
<1>8. Undisturbed
    BY <1>1, <1>7 DEF Undisturbed
<1>9. RunsInv'
    BY <1>1, <1>6, <1>7, Zenon DEF ProjInv, RunsInv, OnlyAcceptedMerged
<1>10. DriveTypeOK'
    BY <1>1, <1>5, Zenon DEF ProjInv, DriveTypeOK
<1>11. \A m \in StateRecord : Waits(m) => Waits(m)'
    BY <1>1, Zenon DEF Waits
<1>. QED BY <1>1, <1>8, <1>9, <1>10, <1>11, WorldStep, Zenon

LEMMA RunVeiledKeeps == ASSUME ProjInv, NEW n \in Node, RunVeiled(n) PROVE ProjInv'
<1>1. /\ UNCHANGED <<project, timers, reign, ctl, mainline, accepted, overtaken>>
      /\ run \in [Node -> RunRecord] /\ run' = [run EXCEPT ![n].veiled = TRUE]
    BY DEF RunVeiled, ProjInv, DriveTypeOK
<1>2. run' \in [Node -> RunRecord] /\ \A k \in Node : run'[k].cand = run[k].cand
    BY <1>1, RunFlag, Lives, Zenon
<1>3. Elsewhere
    BY <1>1, <1>2 DEF Elsewhere
<1>4. RunsInv' /\ Undisturbed
    BY <1>3, StillTrue
<1>5. DriveTypeOK'
    BY <1>1, <1>2, Zenon DEF ProjInv, DriveTypeOK
<1>6. \A m \in StateRecord : Waits(m) => Waits(m)'
    BY <1>1, Zenon DEF Waits
<1>. QED BY <1>1, <1>4, <1>5, <1>6, WorldStep, Zenon

LEMMA LapsesKeeps == ASSUME ProjInv, Lapses PROVE ProjInv'
<1>1. /\ UNCHANGED <<project, timers, run, ctl, mainline, accepted, overtaken>>
      /\ reign' = [reign EXCEPT !.lease = "lapsed"]
    BY DEF Lapses
<1>2. Undisturbed /\ RunsInv'
    BY <1>1, Zenon DEF Undisturbed, ProjInv, RunsInv, OnlyAcceptedMerged
<1>3. /\ reign'.number = reign.number /\ reign'.who = reign.who /\ reign'.lease # "held"
      /\ reign' \in [number : 0..MaxReign, who : Ctl \cup {"none", "operator"},
                     lease : {"held", "released", "lapsed"}]
    BY <1>1, SMT DEF ProjInv, DriveTypeOK
<1>4. DriveTypeOK'
    BY <1>1, <1>3, Zenon DEF ProjInv, DriveTypeOK
<1>5. \A m \in StateRecord : Waits(m) => Waits(m)'
    BY <1>1, Zenon DEF Waits
<1>. QED BY <1>1, <1>2, <1>3, <1>4, <1>5, WorldStep, Zenon

LEMMA RearmKeeps == ASSUME ProjInv, NEW n \in Node, Rearm(n) PROVE ProjInv'
<1>1. /\ UNCHANGED <<project, reign, ctl, run, mainline, accepted, overtaken>>
      /\ timers \subseteq TimerRecord
    BY DEF Rearm, ProjInv, DriveTypeOK
<1>2. PICK t \in timers, due \in DueTimes :
         /\ t.node = n /\ t.kind = "storage_pressure"
         /\ timers' \in {(timers \ {t}) \cup {Timer(n, t.kind, due)},
                         timers \cup {Timer(n, t.kind, due)}}
    BY Zenon DEF Rearm
<1>3. Undisturbed /\ RunsInv'
    BY <1>1, Zenon DEF Undisturbed, ProjInv, RunsInv, OnlyAcceptedMerged
<1>4. /\ Timer(n, "storage_pressure", due) \in timers'
      /\ Timer(n, "storage_pressure", due) \in TimerRecord
      /\ timers' \subseteq timers \cup {Timer(n, "storage_pressure", due)}
      /\ timers \ {t} \subseteq timers'
    BY <1>2, SMT DEF Timer, TimerRecord
<1>5. DriveTypeOK'
    BY <1>1, <1>4, Zenon DEF ProjInv, DriveTypeOK
<1>6. ASSUME NEW m \in StateRecord, Waits(m) PROVE Waits(m)'
  <2>1. ASSUME NEW k \in Node, m.node[k].kind = "storage_pressure"
        PROVE  \E d \in DueTimes : Timer(k, m.node[k].kind, d) \in timers'
    <3>1. PICK d \in DueTimes : Timer(k, "storage_pressure", d) \in timers
        BY <1>6, <2>1, Zenon DEF Waits
    <3>2. CASE k = n
        BY <1>4, <2>1, <3>2
    <3>3. CASE k # n
      <4>1. Timer(k, "storage_pressure", d) # t
          BY <1>2, <3>3, SMT DEF Timer
      <4>. QED BY <1>4, <2>1, <3>1, <4>1
    <3>. QED BY <3>2, <3>3
  <2>2. ASSUME NEW k \in Node, m.node[k].kind = "usage_limit", ~overtaken
        PROVE  Timer(k, m.node[k].kind, m.node[k].due) \in timers'
    <3>1. Timer(k, "usage_limit", m.node[k].due) \in timers
        BY <1>6, <2>2, Zenon DEF Waits
    <3>2. Timer(k, "usage_limit", m.node[k].due) # t
        BY <1>2, SMT DEF Timer
    <3>. QED BY <1>4, <2>2, <3>1, <3>2
  <2>. QED BY <1>1, <2>1, <2>2, Zenon DEF Waits
<1>. QED BY <1>1, <1>3, <1>5, <1>6, WorldStep, Zenon

-----------------------------------------------------------------------------
(* A new reign                                                             *)

\* The sessions of earlier reigns stay behind; the new one has read nothing yet.
LEMMA NewReign ==
    ASSUME ProjInv, NEW who, NEW lease, Reigns(who, lease), DriveTypeOK', FileInv',
           UNCHANGED <<run, mainline, accepted>>,
           \A t \in Ctl : \/ ctl'[t] = ctl[t]
                          \/ /\ ctl'[t].at = "start" /\ ctl'[t].then = "none"
                             /\ ctl'[t].reign = reign.number + 1 /\ who = t
    PROVE  ProjInv'
<1>1. /\ reign' = [number |-> reign.number + 1, who |-> who, lease |-> lease]
      /\ overtaken' = (overtaken \/ Disarming) /\ reign.number \in Nat
    BY Bounds, SMT DEF Reigns, ProjInv, DriveTypeOK
<1>2. reign'.number = reign.number + 1 /\ reign'.who = who
    BY <1>1
<1>3. \A t \in Ctl : ctl[t].reign \in Nat /\ ctl[t].reign <= reign.number
    BY Bounds, SMT DEF ProjInv, ReignInv, DriveTypeOK, DriveRecord
<1>4. ASSUME NEW t \in Ctl
      PROVE  /\ Current(t)' => ctl'[t].at = "start" /\ who = t
             /\ ctl'[t].reign <= reign'.number
             /\ ctl'[t].at = "off" => ctl'[t].reign = 0
             /\ ~(ctl'[t].at = "disarming" /\ ~overtaken')
  <2>1. CASE ctl'[t] = ctl[t]
    <3>1. ctl[t].reign # reign.number + 1 /\ ctl[t].reign <= reign.number + 1
        BY <1>1, <1>3, SMT
    <3>2. ctl[t].at = "off" => ctl[t].reign = 0
        BY DEF ProjInv, ReignInv
    <3>3. ctl[t].at = "disarming" => overtaken'
        BY <1>1, Zenon DEF Disarming, CtlAt
    <3>. QED BY <1>2, <2>1, <3>1, <3>2, <3>3 DEF Current
  <2>2. CASE /\ ctl'[t].at = "start" /\ ctl'[t].then = "none"
             /\ ctl'[t].reign = reign.number + 1 /\ who = t
      BY <1>1, <1>2, <2>2, SMT
  <2>. QED BY <2>1, <2>2
<1>5. ReignInv'
  <2>1. reign'.number # 0
      BY <1>1, <1>2, SMT
  <2>. QED BY <1>2, <1>4, <2>1, Zenon DEF ReignInv, CtlAt
<1>6. RunsInv' /\ Undisturbed
    BY Zenon DEF ProjInv, RunsInv, OnlyAcceptedMerged, Undisturbed
<1>7. MemInv'
  <2>1. ASSUME NEW t \in Ctl
        PROVE  /\ ctl'[t].at = "start" => ctl'[t].then = "none"
               /\ ctl'[t].at \notin {"off", "start"} => MemIs(ctl[t])'
    <3>1. CASE ctl'[t] = ctl[t]
      <4>1. PICK c : c = ctl[t]
          OBVIOUS
      <4>2. c \in DriveRecord /\ (c.at \notin {"off", "start"} => MemIs(c))
            /\ (c.at = "start" => c.then = "none")
          BY <4>1, Zenon DEF ProjInv, DriveTypeOK, MemInv
      <4>3. MemIs(c) => MemIs(c)'
          BY <1>6, <4>2, MemStays
      <4>4. ctl'[t] = c
          BY <3>1, <4>1
      <4>. QED BY <4>2, <4>3, <4>4, Zenon
    <3>2. CASE ctl'[t].at = "start" /\ ctl'[t].then = "none"
        BY <3>2
    <3>. QED BY <3>1, <3>2
  <2>. QED BY <2>1, Zenon DEF MemInv
<1>8. MasterInv'
    BY <1>4, Zenon DEF MasterInv
<1>. QED BY <1>5, <1>6, <1>7, <1>8 DEF ProjInv

\* A node is made ready on file.
LEMMA UnblockedIs ==
    ASSUME ProjInv, NEW n \in Node, Unblocked(n)
    PROVE  /\ project' \in StateRecord /\ project.node[n].life = "BLOCKED"
           /\ project'.node[n].life = "READY" /\ project'.node[n].kind = "none"
           /\ project'.node[n].open = project.node[n].open /\ NodeOK(project'.node[n])
           /\ \A k \in Node \ {n} : project'.node[k] = project.node[k]
           /\ project'.gates = project.gates /\ project'.gates # "GREEN"
<1>1. /\ project \in StateRecord /\ project.node[n].life = "BLOCKED" /\ project.seq < MaxWrites
      /\ project' = [project EXCEPT !.seq = @ + 1, !.node[n].life = "READY",
                                    !.node[n].kind = "none", !.node[n].due = 0]
      /\ NodeOK(project.node[n])
    BY DEF Unblocked, ProjInv, DriveTypeOK, FileInv, StateOK
<1>. DEFINE r == project.node[n]
            r1 == [r EXCEPT !.life = "READY"]
            r2 == [r1 EXCEPT !.kind = "none"]
            r3 == [r2 EXCEPT !.due = 0]
            p == [project EXCEPT !.seq = @ + 1]
<1>2. r \in NodeRecord /\ project.seq \in 0..MaxWrites
    BY <1>1, SMT DEF StateRecord
<1>3. r1 \in NodeRecord /\ r1.life = "READY" /\ r1.rej = r.rej /\ r1.open = r.open
  <2>1. "READY" \in {"absent", "READY", "RUNNING", "BLOCKED"} \cup Settled
      OBVIOUS
  <2>2. r1 \in NodeRecord
      BY <1>2, <2>1, NodeFields, ZenonT(60)
  <2>3. r1.life = "READY" /\ r1.rej = r.rej /\ r1.open = r.open
      BY <1>2, SMTT(60) DEF NodeRecord
  <2>. QED BY <2>2, <2>3
<1>. HIDE DEF r1
<1>4. r2 \in NodeRecord /\ r2.life = "READY" /\ r2.rej = r.rej /\ r2.open = r.open
      /\ r2.kind = "none"
  <2>1. r2 \in NodeRecord
      BY <1>3, NodeFields, ZenonT(60)
  <2>2. r2.life = "READY" /\ r2.rej = r.rej /\ r2.open = r.open /\ r2.kind = "none"
      BY <1>3, SMTT(60) DEF NodeRecord
  <2>. QED BY <2>1, <2>2
<1>. HIDE DEF r2
<1>5. r3 \in NodeRecord /\ r3.life = "READY" /\ r3.rej = r.rej /\ r3.open = r.open
      /\ r3.kind = "none" /\ r3.due = 0
  <2>1. 0 \in 0..2
      OBVIOUS
  <2>2. r3 \in NodeRecord
      BY <1>4, <2>1, NodeFields, ZenonT(60)
  <2>3. /\ r3.life = "READY" /\ r3.rej = r.rej /\ r3.open = r.open
        /\ r3.kind = "none" /\ r3.due = 0
      BY <1>4, SMTT(60) DEF NodeRecord
  <2>. QED BY <2>2, <2>3
<1>6. /\ p \in StateRecord /\ p.node = project.node /\ p.gates = project.gates
  <2>1. project.seq + 1 \in 0..MaxWrites
      BY <1>1, <1>2, Bounds, SMT
  <2>. QED BY <1>1, <2>1, SMT DEF StateRecord
<1>7. project' = WithNode(p, n, r3)
  <2>. DEFINE p1 == [p EXCEPT !.node[n].life = "READY"]
              p2 == [p1 EXCEPT !.node[n].kind = "none"]
              p3 == [p2 EXCEPT !.node[n].due = 0]
              f1 == [p.node EXCEPT ![n] = r1]
              f2 == [p.node EXCEPT ![n] = r2]
              f3 == [p.node EXCEPT ![n] = r3]
              Rec(f) == [node |-> f, seq |-> p.seq, gates |-> p.gates, subject |-> p.subject]
  <2>1. project' = p3
      BY <1>1, Zenon
  <2>. HIDE DEF p
  <2>2. p = Rec(p.node)
      BY <1>6, SMT DEF StateRecord
  <2>3. \A f, g : /\ Rec(f).node = f /\ [Rec(f) EXCEPT !.node = g] = Rec(g)
      BY SMT
  <2>. HIDE DEF Rec
  <2>4. p1 = Rec(f1)
    <3>1. p1 = [p EXCEPT !.node = f1]
        BY <1>6, Zenon DEF r1
    <3>. QED BY <2>2, <2>3, <3>1
  <2>5. f1[n] = r1 /\ [f1 EXCEPT ![n] = r2] = f2 /\ f2[n] = r2 /\ [f2 EXCEPT ![n] = r3] = f3
    <3>1. p.node \in [Node -> NodeRecord]
        BY <1>6, SMT DEF StateRecord
    <3>. HIDE DEF r3
    <3>. QED BY <3>1, SMT
  <2>. HIDE DEF f1, f2, f3, r3, p1
  <2>6. p2 = Rec(f2)
    <3>1. p2 = [p1 EXCEPT !.node = f2]
        BY <2>3, <2>4, <2>5, Zenon DEF r2
    <3>. QED BY <2>3, <2>4, <3>1
  <2>. HIDE DEF p2
  <2>7. p3 = Rec(f3)
    <3>1. p3 = [p2 EXCEPT !.node = f3]
        BY <2>3, <2>5, <2>6, Zenon DEF r3
    <3>. QED BY <2>3, <2>6, <3>1
  <2>8. WithNode(p, n, r3) = Rec(f3)
    <3>1. WithNode(p, n, r3) = [p EXCEPT !.node = f3]
        BY Zenon DEF WithNode, f3
    <3>. QED BY <2>2, <2>3, <3>1
  <2>. QED BY <2>1, <2>7, <2>8
<1>. HIDE DEF p, r3
<1>8. /\ project' \in StateRecord /\ project'.node[n] = r3
      /\ \A k \in Node \ {n} : project'.node[k] = project.node[k]
      /\ project'.gates = project.gates
    BY <1>5, <1>6, <1>7, WithNodeIs, SMT
<1>9. NodeOK(r3)
    BY <1>1, <1>5, SMT DEF NodeOK
<1>10. project.gates # "GREEN"
    BY <1>1, SMT DEF ProjInv, FileInv, StateOK, Terminal, Settled
<1>. QED BY <1>1, <1>5, <1>8, <1>9, <1>10

\* The timers of the other nodes that wait are kept, so that the file is true again.
LEMMA UnblockedFile ==
    ASSUME ProjInv, NEW n \in Node, Unblocked(n), UNCHANGED mainline, overtaken => overtaken',
           NEW T \in SUBSET timers, \A t \in T : t.node = n,
           timers' = timers \ T \/ timers' = timers \ (T \cup StaleWaits(project'))
    PROVE  FileInv' /\ timers' \subseteq timers /\ project' \in StateRecord
<1>. PICK p : p = project'
    OBVIOUS
<1>1. /\ p \in StateRecord /\ project.node[n].life = "BLOCKED"
      /\ p.node[n].life = "READY" /\ p.node[n].kind = "none"
      /\ p.node[n].open = project.node[n].open /\ NodeOK(p.node[n])
      /\ \A k \in Node \ {n} : p.node[k] = project.node[k]
      /\ p.gates = project.gates /\ p.gates # "GREEN"
    BY UnblockedIs, Zenon
<1>2. /\ \A k \in Node : NodeOK(project.node[k]) /\ MergedIsThere(project)
      /\ Waits(project) /\ ~Disagrees(project)
    BY DEF ProjInv, FileInv, StateOK
<1>3. StateOK(p)'
  <2>1. \A k \in Node : NodeOK(p.node[k])
      BY <1>1, <1>2
  <2>2. MergedIsThere(p)'
    <3>1. ASSUME NEW k \in Node, p.node[k].life = "MERGED" PROVE k # n
        BY <1>1, <3>1
    <3>. QED BY <1>1, <1>2, <3>1, Zenon DEF MergedIsThere
  <2>. QED BY <1>1, <2>1, <2>2, Zenon DEF StateOK
<1>4. \A k \in Node : p.node[k].open = (p.node[k].life = "RUNNING")
  <2>1. ASSUME NEW k \in Node, k # n PROVE p.node[k].open = (p.node[k].life = "RUNNING")
      BY <1>1, <1>2, <2>1, Zenon DEF Disagrees
  <2>2. p.node[n].open = (p.node[n].life = "RUNNING")
    <3>1. project.node[n].open = (project.node[n].life = "RUNNING")
        BY <1>2, Zenon DEF Disagrees
    <3>. QED BY <1>1, <3>1
  <2>. QED BY <2>1, <2>2
<1>5. Waits(p)'
  <2>1. ASSUME NEW k \in Node \ {n}, NEW kind, NEW due,
               kind = "storage_pressure" \/ /\ project.node[k].kind = kind
                                            /\ project.node[k].due = due,
               kind # "none", Timer(k, kind, due) \in timers
        PROVE  Timer(k, kind, due) \in timers'
    <3>1. Timer(k, kind, due) \notin T
        BY SMT DEF Timer
    <3>2. kind # "storage_pressure" => project.node[k].life = "BLOCKED"
        BY <1>2, <2>1 DEF NodeOK
    <3>3. Timer(k, kind, due) \notin StaleWaits(project')
        BY <1>1, <2>1, <3>2, SMT DEF Timer, StaleWaits
    <3>. QED BY <2>1, <3>1, <3>3
  <2>2. ASSUME NEW k \in Node \ {n}
        PROVE  /\ p.node[k].kind = "storage_pressure"
                     => \E due \in DueTimes : Timer(k, p.node[k].kind, due) \in timers'
               /\ p.node[k].kind = "usage_limit" /\ ~overtaken'
                     => Timer(k, p.node[k].kind, p.node[k].due) \in timers'
    <3>1. /\ project.node[k].kind = "storage_pressure"
                => \E due \in DueTimes : Timer(k, project.node[k].kind, due) \in timers
          /\ project.node[k].kind = "usage_limit" /\ ~overtaken
                => Timer(k, project.node[k].kind, project.node[k].due) \in timers
        BY <1>2, Zenon DEF Waits
    <3>2. p.node[k] = project.node[k]
        BY <1>1
    <3>3. CASE p.node[k].kind = "storage_pressure"
        BY <2>1, <3>1, <3>2, <3>3
    <3>4. CASE p.node[k].kind = "usage_limit"
        BY <2>1, <3>1, <3>2, <3>4
    <3>. QED BY <3>3, <3>4
  <2>. QED BY <1>1, <2>2, Zenon DEF Waits
<1>6. Covered(p)'
    BY <1>1 DEF Covered
<1>7. FileInv'
    BY <1>3, <1>4, <1>5, <1>6, Zenon DEF FileInv, Disagrees
<1>. QED BY <1>1, <1>7

LEMMA ReignsIs ==
    ASSUME ProjInv, NEW who \in Ctl \cup {"none", "operator"},
           NEW lease \in {"held", "released", "lapsed"}, Reigns(who, lease)
    PROVE  /\ reign' \in [number : 0..MaxReign, who : Ctl \cup {"none", "operator"},
                          lease : {"held", "released", "lapsed"}]
           /\ overtaken' \in BOOLEAN /\ (overtaken => overtaken')
<1>1. reign' = [number |-> reign.number + 1, who |-> who, lease |-> lease]
      /\ overtaken' = (overtaken \/ Disarming)
    BY DEF Reigns
<1>2. reign.number + 1 \in 0..MaxReign
    BY Bounds, SMT DEF Reigns, ProjInv, DriveTypeOK
<1>3. overtaken' \in BOOLEAN /\ (overtaken => overtaken')
    BY <1>1, Zenon
<1>. QED BY <1>1, <1>2, <1>3

\* A drive under a new reign begins by reading.
LEMMA StartIs ==
    ASSUME ctl \in [Ctl -> DriveRecord], NEW s \in Ctl, NEW who, NEW lease, Reigns(who, lease),
           ProjInv,
           ctl' = [ctl EXCEPT ![s] = [Off EXCEPT !.at = "start", !.reign = reign.number + 1]]
    PROVE  /\ ctl' \in [Ctl -> DriveRecord] /\ ctl'[s].at = "start" /\ ctl'[s].then = "none"
           /\ ctl'[s].reign = reign.number + 1 /\ \A t \in Ctl \ {s} : ctl'[t] = ctl[t]
<1>. PICK k : k = reign.number + 1
    OBVIOUS
<1>1. k \in 0..MaxReign /\ "start" \in ProjPlaces
    BY Bounds, SMT DEF Reigns, ProjInv, DriveTypeOK, ProjPlaces
<1>. DEFINE c1 == [Off EXCEPT !.at = "start"]
            c2 == [c1 EXCEPT !.reign = k]
<1>2. c1 \in DriveRecord /\ c1.at = "start" /\ c1.then = "none"
    BY <1>1, OffIs, AtIs, SMT
<1>. HIDE DEF c1
<1>3. c2 \in DriveRecord
    BY <1>1, <1>2, DriveFields, Zenon
<1>4. c2.at = "start" /\ c2.then = "none" /\ c2.reign = k
    BY <1>2, SMT DEF DriveRecord
<1>5. ctl' = [ctl EXCEPT ![s] = c2]
    BY Zenon DEF c1
<1>. HIDE DEF c2
<1>. QED BY <1>3, <1>4, <1>5, AloneIf, Zenon DEF Alone

LEMMA DriveKeeps == ASSUME ProjInv, NEW s \in Ctl, Drive(s) PROVE ProjInv'
<1>1. /\ Reigns(s, "held") /\ ctl \in [Ctl -> DriveRecord] /\ reign.number \in 0..MaxReign
      /\ ctl' = [ctl EXCEPT ![s] = [Off EXCEPT !.at = "start", !.reign = reign.number + 1]]
      /\ UNCHANGED <<project, timers, run, mainline, accepted>>
    BY SMT DEF ProjInv, DriveTypeOK, Drive
<1>2. /\ reign' \in [number : 0..MaxReign, who : Ctl \cup {"none", "operator"},
                     lease : {"held", "released", "lapsed"}]
      /\ overtaken' \in BOOLEAN /\ (overtaken => overtaken')
    BY <1>1, ReignsIs
<1>3. /\ ctl' \in [Ctl -> DriveRecord] /\ ctl'[s].at = "start" /\ ctl'[s].then = "none"
      /\ ctl'[s].reign = reign.number + 1 /\ \A t \in Ctl \ {s} : ctl'[t] = ctl[t]
    BY <1>1, StartIs
<1>4. DriveTypeOK'
    BY <1>1, <1>2, <1>3, Zenon DEF ProjInv, DriveTypeOK
<1>5. FileInv'
    BY <1>1, <1>2, Zenon
    DEF ProjInv, FileInv, StateOK, Disagrees, Waits, Covered, MergedIsThere, Terminal
<1>6. Reigns(s, "held") /\ UNCHANGED <<run, mainline, accepted>>
    BY <1>1
<1>7. \A t \in Ctl : \/ ctl'[t] = ctl[t]
                      \/ /\ ctl'[t].at = "start" /\ ctl'[t].then = "none"
                         /\ ctl'[t].reign = reign.number + 1 /\ s = t
    BY <1>3, ZenonT(60)
<1>. QED BY <1>1, <1>4, <1>5, <1>6, <1>7, NewReign, SMTT(60)

LEMMA UnblockNodeKeeps == ASSUME ProjInv, NEW n \in Node, UnblockNode(n) PROVE ProjInv'
<1>1. /\ Reigns("operator", "released") /\ Unblocked(n)
      /\ timers' = timers \ ({} \cup StaleWaits(project'))
      /\ UNCHANGED <<ctl, run, mainline, accepted>>
    BY Zenon DEF UnblockNode
<1>2. /\ reign' \in [number : 0..MaxReign, who : Ctl \cup {"none", "operator"},
                     lease : {"held", "released", "lapsed"}]
      /\ overtaken' \in BOOLEAN /\ (overtaken => overtaken')
    BY <1>1, ReignsIs
<1>3. FileInv' /\ timers' \subseteq timers /\ project' \in StateRecord
  <2>1. {} \in SUBSET timers /\ \A t \in {} : t.node = n
      OBVIOUS
  <2>. QED BY <1>1, <1>2, <2>1, UnblockedFile, Zenon
<1>4. DriveTypeOK'
    BY <1>1, <1>2, <1>3, Zenon DEF ProjInv, DriveTypeOK
<1>. QED BY <1>1, <1>3, <1>4, NewReign, ZenonT(60)

LEMMA WakeKeeps == ASSUME ProjInv, NEW s \in Ctl, NEW n \in Node, Wake(s, n) PROVE ProjInv'
<1>1. /\ Unblocked(n) /\ UNCHANGED <<run, mainline, accepted>>
      /\ ctl \in [Ctl -> DriveRecord]
    BY DEF Wake, ProjInv, DriveTypeOK
<1>2. PICK t \in timers :
         /\ t.node = n
         /\ \/ /\ Reigns(s, "held") /\ timers' = timers \ ({t} \cup StaleWaits(project'))
               /\ ctl' = [ctl EXCEPT ![s] = [Off EXCEPT !.at = "start",
                                                        !.reign = reign.number + 1]]
            \/ Reigns(s, "released") /\ timers' = timers \ {t} /\ UNCHANGED ctl
            \/ Reigns(s, "lapsed") /\ UNCHANGED <<timers, ctl>>
    BY Zenon DEF Wake
<1>3. PICK lease \in {"held", "released", "lapsed"} : Reigns(s, lease)
    BY <1>2
<1>4. /\ reign' \in [number : 0..MaxReign, who : Ctl \cup {"none", "operator"},
                     lease : {"held", "released", "lapsed"}]
      /\ overtaken' \in BOOLEAN /\ (overtaken => overtaken')
    BY <1>3, ReignsIs
<1>5. FileInv' /\ timers' \subseteq timers /\ project' \in StateRecord
  <2>1. PICK T \in SUBSET timers :
           /\ \A u \in T : u.node = n
           /\ timers' = timers \ T \/ timers' = timers \ (T \cup StaleWaits(project'))
    <3>1. CASE timers' = timers
      <4>1. timers' = timers \ {} /\ {} \in SUBSET timers /\ \A u \in {} : u.node = n
          BY <3>1
      <4>. QED BY <4>1, Zenon
    <3>2. CASE timers' = timers \ {t} \/ timers' = timers \ ({t} \cup StaleWaits(project'))
      <4>1. {t} \in SUBSET timers /\ \A u \in {t} : u.node = n
          BY <1>2
      <4>. QED BY <3>2, <4>1, Zenon
    <3>. QED BY <1>2, <3>1, <3>2, Zenon
  <2>. QED BY <1>1, <1>4, <2>1, UnblockedFile, Zenon
<1>6. /\ ctl' \in [Ctl -> DriveRecord]
      /\ \A u \in Ctl : \/ ctl'[u] = ctl[u]
                        \/ /\ ctl'[u].at = "start" /\ ctl'[u].then = "none"
                           /\ ctl'[u].reign = reign.number + 1 /\ s = u
  <2>1. CASE ctl' = ctl
      BY <1>1, <2>1
  <2>2. CASE ctl' = [ctl EXCEPT ![s] = [Off EXCEPT !.at = "start", !.reign = reign.number + 1]]
    <3>1. /\ ctl' \in [Ctl -> DriveRecord] /\ ctl'[s].at = "start" /\ ctl'[s].then = "none"
          /\ ctl'[s].reign = reign.number + 1 /\ \A u \in Ctl \ {s} : ctl'[u] = ctl[u]
        BY <1>1, <1>3, <2>2, StartIs
    <3>. QED BY <3>1
  <2>. QED BY <1>2, <2>1, <2>2
<1>7. DriveTypeOK'
    BY <1>1, <1>4, <1>5, <1>6, Zenon DEF ProjInv, DriveTypeOK
<1>8. UNCHANGED <<run, mainline, accepted>> /\ Reigns(s, lease) /\ FileInv'
    BY <1>1, <1>3, <1>5
<1>. QED BY <1>6, <1>7, <1>8, NewReign

-----------------------------------------------------------------------------
(* The theorems                                                            *)

LEMMA InitKeeps == ASSUME ProjInit PROVE ProjInv
<1>1. /\ project = ProjectOf(Task) /\ timers = {} /\ mainline = {} /\ accepted = {}
      /\ reign = [number |-> 0, who |-> "none", lease |-> "released"]
      /\ ctl = [s \in Ctl |-> Off] /\ run = [n \in Node |-> NewRun] /\ overtaken = FALSE
    BY DEF ProjInit, ProjInitWith
<1>2. [n \in Node |-> IF n \in Task THEN NewNode ELSE Absent] \in [Node -> NodeRecord]
    BY NodesThere, Zenon
<1>3. /\ project \in StateRecord /\ project.gates = "none"
      /\ project.node = [n \in Node |-> IF n \in Task THEN NewNode ELSE Absent]
    BY <1>1, <1>2, Bounds, SMT DEF ProjectOf, StateRecord
<1>4. /\ NewNode.life = "READY" /\ Absent.life = "absent"
      /\ NewNode.kind = "none" /\ Absent.kind = "none"
      /\ NewNode.open = FALSE /\ Absent.open = FALSE
      /\ NodeOK(NewNode) /\ NodeOK(Absent)
    BY Bounds, SMT DEF NewNode, Absent, NodeOK
<1>5. \A n \in Node : project.node[n] \in {NewNode, Absent}
    BY <1>3
<1>6. ASSUME NEW n \in Node
      PROVE  /\ project.node[n].life \in {"READY", "absent"} /\ project.node[n].kind = "none"
             /\ project.node[n].open = FALSE /\ NodeOK(project.node[n])
    BY <1>4, <1>5, Zenon
<1>7. NewRun \in RunRecord /\ NewRun.cand = 0
    BY Bounds, SMT DEF NewRun, RunRecord
<1>8. DriveTypeOK
  <2>1. ctl \in [Ctl -> DriveRecord] /\ run \in [Node -> RunRecord]
      BY <1>1, <1>7, OffIs, Zenon
  <2>2. reign \in [number : 0..MaxReign, who : Ctl \cup {"none", "operator"},
                   lease : {"held", "released", "lapsed"}]
      BY <1>1, Bounds, SMT
  <2>3. /\ timers \subseteq TimerRecord
        /\ mainline \subseteq Candidates /\ overtaken \in BOOLEAN
      BY <1>1
  <2>. QED BY <1>3, <2>1, <2>2, <2>3 DEF DriveTypeOK
<1>9. RunsInv
    BY <1>1, <1>7 DEF RunsInv, OnlyAcceptedMerged
<1>10. \A s \in Ctl : ctl[s].at = "off" /\ ctl[s].reign = 0
    BY <1>1, OffIs
<1>11. ReignInv
  <2>1. reign.number = 0 /\ reign.lease = "released"
      BY <1>1
  <2>. QED BY <1>10, <2>1, SMT DEF ReignInv, Current, CtlAt
<1>12. FileInv
  <2>1. StateOK(project)
      BY <1>3, <1>6 DEF StateOK, MergedIsThere
  <2>2. ~Disagrees(project) /\ Waits(project)
      BY <1>6 DEF Disagrees, Waits
  <2>. QED BY <1>3, <2>1, <2>2 DEF FileInv, Covered
<1>13. MemInv /\ MasterInv
    BY <1>10 DEF MemInv, MasterInv, Current
<1>. QED BY <1>8, <1>9, <1>11, <1>12, <1>13 DEF ProjInv

LEMMA StepKeeps == ASSUME ProjInv, [ProjNext]_projVars PROVE ProjInv'
<1>1. CASE UNCHANGED projVars
  <2>1. UNCHANGED <<project, timers, reign, ctl, run, mainline, accepted, overtaken>>
      BY <1>1 DEF projVars
  <2>2. Undisturbed /\ RunsInv' /\ DriveTypeOK'
      BY <2>1, Zenon DEF Undisturbed, ProjInv, RunsInv, OnlyAcceptedMerged, DriveTypeOK
  <2>3. \A m \in StateRecord : Waits(m) => Waits(m)'
      BY <2>1, Zenon DEF Waits
  <2>. QED BY <2>1, <2>2, <2>3, WorldStep, SMT
<1>2. ASSUME NEW s \in Ctl,
             \/ Drive(s) \/ Read(s) \/ Persist(s) \/ DisarmStale(s)
             \/ Arm(s) \/ Merge(s) \/ Authorise(s) \/ Launch(s) \/ Return(s)
             \/ MeasureClosure(s) \/ Closing(s) \/ Ended(s) \/ CtlDies(s)
      PROVE  ProjInv'
    BY <1>2, DriveKeeps, ReadKeeps, PersistKeeps, DisarmStaleKeeps, ArmKeeps, MergeKeeps,
       AuthoriseKeeps, LaunchKeeps, ReturnKeeps, MeasureClosureKeeps, ClosingKeeps, EndedKeeps,
       CtlDiesKeeps, Zenon
<1>3. ASSUME NEW s \in Ctl, NEW n \in Node,
             Evaluate(s, n) \/ Round(s, n) \/ Obstructed(s, n) \/ Wake(s, n)
      PROVE  ProjInv'
    BY <1>3, EvaluateKeeps, RoundKeeps, ObstructedKeeps, WakeKeeps, Zenon
<1>4. ASSUME NEW s \in Ctl, NEW v \in {"UNDETERMINED", "STORAGE_UNAVAILABLE"}, Refused(s, v)
      PROVE  ProjInv'
    BY <1>4, RefusedKeeps, Zenon
<1>5. ASSUME NEW s \in Ctl, NEW g \in {"GREEN", "RED", "NOT_RUN"}, GatesAnswer(s, g)
      PROVE  ProjInv'
    BY <1>5, GatesAnswerKeeps, Zenon
<1>6. ASSUME NEW n \in Node, RunStops(n) \/ RunVeiled(n) \/ UnblockNode(n) \/ Rearm(n)
      PROVE  ProjInv'
    BY <1>6, RunStopsKeeps, RunVeiledKeeps, UnblockNodeKeeps, RearmKeeps, Zenon
<1>7. CASE Lapses
    BY <1>7, LapsesKeeps
<1>. QED BY <1>1, <1>2, <1>3, <1>4, <1>5, <1>6, <1>7, Zenon DEF ProjNext

\* ProjInv is inductive: it holds at every place of every session's drive.
THEOREM ProjIsSound == ProjSpec => []ProjInv
BY InitKeeps, StepKeeps, PTL DEF ProjSpec

\* Whoever died or was replaced between two writes, the file's lifecycles and its log of
\* dispatches name the same nodes in flight, and what it calls merged is on the mainline.
THEOREM FileIsAlwaysTrue == ProjSpec => []FileIsTrue
<1>1. ProjInv => FileIsTrue
    BY Zenon DEF ProjInv, FileInv, StateOK, MergedIsThere, FileIsTrue
<1>. QED BY <1>1, ProjIsSound, PTL

\* Only what a run accepted reaches the mainline, and a project that reads as closed is
\* closed over everything that was merged.
THEOREM MainlineIsAlwaysEarned == ProjSpec => []MainlineIsEarned
<1>1. ProjInv => MainlineIsEarned
    BY Zenon DEF ProjInv, RunsInv, FileInv, Covered, MainlineIsEarned, ClosureCovers, RcClosed
<1>. QED BY <1>1, ProjIsSound, PTL

\* A node that waits for a time has the timer that wakes it.
THEOREM TimedWaitAlwaysHasTimer == ProjSpec => []TimedWaitHasTimer
<1>1. ProjInv => TimedWaitHasTimer
    BY Zenon DEF ProjInv, FileInv, Waits, TimedWaitHasTimer
<1>. QED BY <1>1, ProjIsSound, PTL

\* The state on file is of its type.
THEOREM ProjIsTyped == ProjSpec => []ProjTypeOK
<1>1. ASSUME ProjInv PROVE ProjTypeOK
  <2>1. /\ project \in StateRecord /\ reign.number \in 0..MaxReign
        /\ \A n \in Node : NodeOK(project.node[n])
        /\ timers \subseteq TimerRecord
      BY <1>1, SMT DEF ProjInv, DriveTypeOK, FileInv, StateOK
  <2>2. project.node \in [Node -> NodeRecord] /\ project.seq \in 0..MaxWrites
      BY <2>1, SMT DEF StateRecord
  <2>. QED BY <2>1, <2>2, Zenon DEF ProjTypeOK, NodeOK
<1>. QED BY <1>1, ProjIsSound, PTL

\* No step changes what is settled: not the write of a session that was replaced, and not
\* the one of a session whose state is behind the file.
LEMMA SettledStays ==
    ASSUME ProjInv, [ProjNext]_projVars, NEW n \in Node, project.node[n].life \in Settled
    PROVE  project'.node[n].life = project.node[n].life
<1>1. ASSUME NEW s \in Ctl, Persist(s)
      PROVE  project'.node[n].life = project.node[n].life
  <2>1. CASE project' = project
      BY <2>1
  <2>2. CASE MayWrite(s) /\ project' = [ctl[s].mem EXCEPT !.seq = @ + 1]
    <3>1. Current(s) /\ ctl[s].at = "persist"
        BY <1>1, <2>2, MasterIsCurrent DEF MayWrite, ProjInv, Persist, CtlAt
    <3>2. ctl[s].mem \in StateRecord /\ Mirrors(ctl[s])
        BY <3>1, AtWork, SMT
    <3>3. project'.node = ctl[s].mem.node
        BY <2>2, <3>2, SMT DEF StateRecord
    <3>4. ctl[s].mem.node[n].life = project.node[n].life
        BY <3>1, <3>2, Zenon DEF Mirrors
    <3>. QED BY <3>3, <3>4
  <2>. QED BY <1>1, <2>1, <2>2, Zenon DEF Persist
<1>2. ASSUME NEW k \in Node, Unblocked(k)
      PROVE  project'.node[n].life = project.node[n].life
  <2>1. /\ project.node[k].life = "BLOCKED"
        /\ \A j \in Node \ {k} : project'.node[j] = project.node[j]
      BY <1>2, UnblockedIs, Zenon
  <2>2. n # k
      BY <2>1 DEF Settled
  <2>. QED BY <2>1, <2>2
<1>3. \/ UNCHANGED project \/ (\E s \in Ctl : Persist(s)) \/ (\E k \in Node : Unblocked(k))
  <2>1. CASE UNCHANGED projVars
      BY <2>1 DEF projVars
  <2>2. ASSUME NEW s \in Ctl,
               \/ Drive(s) \/ Read(s) \/ Persist(s) \/ DisarmStale(s)
               \/ Arm(s) \/ Merge(s) \/ Authorise(s) \/ Launch(s) \/ Return(s)
               \/ MeasureClosure(s) \/ Closing(s) \/ Ended(s) \/ CtlDies(s)
        PROVE  UNCHANGED project \/ Persist(s)
      BY <2>2, Zenon DEF Drive, Read, DisarmStale, Arm, Merge, Authorise, Launch, Return,
                         MeasureClosure, Closing, Ended, CtlDies
  <2>3. ASSUME NEW s \in Ctl, NEW k \in Node,
               Evaluate(s, k) \/ Round(s, k) \/ Obstructed(s, k) \/ Wake(s, k)
        PROVE  UNCHANGED project \/ Unblocked(k)
      BY <2>3, Zenon DEF Evaluate, Round, Obstructed, Wake
  <2>4. ASSUME NEW s \in Ctl, NEW v, Refused(s, v)
        PROVE  UNCHANGED project
      BY <2>4, Zenon DEF Refused
  <2>5. ASSUME NEW s \in Ctl, NEW g, GatesAnswer(s, g)
        PROVE  UNCHANGED project
      BY <2>5, Zenon DEF GatesAnswer
  <2>6. ASSUME NEW k \in Node, RunStops(k) \/ RunVeiled(k) \/ UnblockNode(k) \/ Rearm(k)
        PROVE  UNCHANGED project \/ Unblocked(k)
      BY <2>6, Zenon DEF RunStops, RunVeiled, UnblockNode, Rearm
  <2>7. CASE Lapses
      BY <2>7 DEF Lapses
  <2>. QED BY <2>1, <2>2, <2>3, <2>4, <2>5, <2>6, <2>7, Zenon DEF ProjNext
<1>. QED BY <1>1, <1>2, <1>3

THEOREM SettledStaysFinal == ProjSpec => SettledIsFinal
<1>1. ProjInv /\ [ProjNext]_projVars
         => [\A n \in Node : project.node[n].life \in Settled
                               => project'.node[n].life = project.node[n].life]_projVars
    BY SettledStays
<1>. QED BY <1>1, ProjIsSound, PTL DEF ProjSpec, SettledIsFinal
=============================================================================
