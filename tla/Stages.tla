------------------------------- MODULE Stages -------------------------------
(***************************************************************************)
(* The state machine of the loop: every verb of src/hoh/stages.py, and the *)
(* two places that write the same fields beside it (governance and the     *)
(* storage park), as operators on a RunState record.  A verb that raises   *)
(* in the code has a guard operator here (CanX); its result is meaningful  *)
(* only when the guard holds.                                              *)
(*                                                                         *)
(* A git tree is abstracted to the set of acceptance criteria it satisfies:*)
(* that is all a runner receipt can tell about it.                         *)
(***************************************************************************)
EXTENDS Naturals

CONSTANTS Criteria,          \* ids of acceptance criteria
          NoTree,            \* "no candidate" (None)
          MaxIterations,     \* Budgets.max_iterations
          MaxLoops           \* Budgets.max_loops_without_progress

ASSUME NoTreeAssumption == \A t \in SUBSET Criteria : NoTree # t
ASSUME BudgetAssumption == /\ MaxIterations \in Nat \ {0}
                           /\ MaxLoops \in Nat \ {0}

Tree == SUBSET Criteria
OptTree == {NoTree} \cup Tree

Stage == {"NEW", "PLANNING", "DEVELOPING", "VERIFYING", "CHECKPOINTED",
          "READY_FOR_DELIVERY"}
Condition == {"ACTIVE", "PAUSED", "BLOCKED", "FAILED", "CANCELLED"}

\* The conditions from which no further dispatch may happen.
HALTED == {"PAUSED", "BLOCKED", "FAILED", "CANCELLED"}

\* blocked_kind: "none" is None; "automatic" stands for the provider waits of
\* hoh.failures and for "usage_limit", which the same consumer resumes.
Kind == {"none", "capability_violation", "automatic", "storage_pressure",
         "contract_stop", "parked_by_contract", "human"}

\* What a block becomes under the run's autonomy contract; "none": no contract.
Handling == {"none", "ask", "park", "stop"}

ALLOWED == [s \in Stage |->
    CASE s = "NEW"                -> {"PLANNING"}
      [] s = "PLANNING"           -> {"DEVELOPING"}
      [] s = "DEVELOPING"         -> {"VERIFYING"}
      [] s = "VERIFYING"          -> {"CHECKPOINTED", "PLANNING"}
      [] s = "CHECKPOINTED"       -> {"PLANNING", "READY_FOR_DELIVERY"}
      [] s = "READY_FOR_DELIVERY" -> {}]

RunState == [stage     : Stage,
             condition : Condition,
             kind      : Kind,
             iteration : Nat,
             attempt   : Nat,
             used      : Nat,       \* usage.iterations
             loops     : Nat,       \* usage.loops_without_progress
             resumes   : Nat,       \* resume_attempts
             base      : OptTree,   \* base_candidate
             frozen    : OptTree,   \* frozen_binding
             accepted  : OptTree,   \* last_accepted_candidate
             evidence  : Nat]       \* evidence_digest, 0 = None

NewState == [stage |-> "NEW", condition |-> "ACTIVE", kind |-> "none",
             iteration |-> 0, attempt |-> 0, used |-> 0, loops |-> 0,
             resumes |-> 0, base |-> NoTree, frozen |-> NoTree,
             accepted |-> NoTree, evidence |-> 0]

-----------------------------------------------------------------------------

ViolationUnresolved(s) == s.kind = "capability_violation"

CanTransition(s, target) == /\ s.condition \notin HALTED
                            /\ target \in ALLOWED[s.stage]

Thaw(s) == [s EXCEPT !.frozen = NoTree]

Transition(s, target) ==
    IF target = "PLANNING"
      THEN Thaw([s EXCEPT !.stage = target, !.iteration = @ + 1, !.attempt = 0])
      ELSE [s EXCEPT !.stage = target]

CanBeginIteration(s) ==
    /\ s.condition \notin HALTED
    /\ \/ s.stage \in {"PLANNING", "DEVELOPING", "VERIFYING"}
       \/ CanTransition(s, "PLANNING")

\* An aborted iteration is replanned under its own number and is not charged.
BeginIteration(s) ==
    CASE s.stage = "PLANNING" -> [s EXCEPT !.used = @ + 1]
      [] s.stage \in {"DEVELOPING", "VERIFYING"} ->
             Thaw([s EXCEPT !.stage = "PLANNING"])
      [] OTHER -> [Transition(s, "PLANNING") EXCEPT !.used = @ + 1]

\* Mutant: the binding is not recorded.
FreezeForgotten(s, tree) == s

Freeze(s, tree) == [s EXCEPT !.frozen = tree]

CanPause(s) == s.condition # "CANCELLED"
Pause(s) == [s EXCEPT !.condition = "PAUSED"]

CanResume(s) == s.condition = "PAUSED"

Resume(s) == IF ViolationUnresolved(s)
               THEN [s EXCEPT !.condition = "BLOCKED"]
               ELSE [s EXCEPT !.condition = "ACTIVE"]

\* quota: the reason carries a provider's quota phrase and may be scanned for it.
Block(s, quota) ==
    [s EXCEPT !.condition = "BLOCKED",
              !.kind = CASE ViolationUnresolved(s) -> "capability_violation"
                         [] quota /\ ~ViolationUnresolved(s) -> "automatic"
                         [] OTHER -> "none"]

CanUnblock(s) == s.condition = "BLOCKED"
Unblock(s) ==
    [s EXCEPT !.condition = "ACTIVE",
              !.kind = IF @ = "capability_violation" THEN "none" ELSE @]

Cancel(s) == [s EXCEPT !.condition = "CANCELLED"]
Fail(s) == [s EXCEPT !.condition = "FAILED"]

AcceptCheckpoint(s, tree) ==
    Thaw([Transition(s, "CHECKPOINTED") EXCEPT !.accepted = tree, !.loops = 0])

\* A rejection without a check behind it is an outage, not a lost loop.
RejectCandidate(s, unverified) ==
    Transition([s EXCEPT !.loops = IF unverified THEN @ ELSE @ + 1], "PLANNING")

-----------------------------------------------------------------------------

\* governance.block_under_contract: STOP and ABORT end the run, PARK and
\* COLLECT wait for a review, ASK waits for a person; the hold of a capability
\* violation keeps its kind through all of them.
BlockUnderContract(s, quota, handling) ==
    LET b    == Block(s, quota)
        kind == CASE handling = "stop" -> "contract_stop"
                  [] handling = "park" -> "parked_by_contract"
                  [] OTHER             -> "human"
    IN  CASE handling = "none" -> b
          [] handling = "stop" ->
               [b EXCEPT !.condition = "CANCELLED",
                         !.kind = IF ViolationUnresolved(b) THEN @ ELSE kind]
          [] OTHER -> [b EXCEPT !.kind = IF @ = "none" THEN kind ELSE @]

\* controller._block_violation
BlockViolation(s, handling) ==
    BlockUnderContract([s EXCEPT !.kind = "capability_violation"], FALSE, handling)

\* RunState.budget_exhausted, the two bounds that count iterations.
BudgetExhausted(s) == s.used >= MaxIterations \/ s.loops >= MaxLoops

\* Mutant: the iteration is refunded at whatever stage the role failed.
FailureWaitRefundsAlways(s, automatic, recorded, handling) ==
    LET r == [s EXCEPT !.used = @ - 1]
    IN  IF automatic /\ recorded /\ ~ViolationUnresolved(s)
          THEN [r EXCEPT !.condition = "BLOCKED", !.kind = "automatic"]
          ELSE BlockUnderContract(r, FALSE, handling)

\* controller._failure_wait: a wait or an operator action, never a verdict.
\* automatic: the class retries by itself; recorded: its receipt was written.
FailureWait(s, automatic, recorded, handling) ==
    LET r == IF s.stage = "PLANNING" /\ s.used > 0
               THEN [s EXCEPT !.used = @ - 1] ELSE s
    IN  IF automatic /\ recorded /\ ~ViolationUnresolved(s)
          THEN [r EXCEPT !.condition = "BLOCKED", !.kind = "automatic"]
          ELSE BlockUnderContract(r, FALSE, handling)

\* controller._workspace_blocked: the worktree is another writer's.
WorkspaceBlocked(s) ==
    LET b == Block(s, FALSE)
    IN  [b EXCEPT !.kind = IF ViolationUnresolved(b) THEN @ ELSE "human"]

\* storage_park.park_for_storage_pressure; armed: the recheck timer was armed.
StoragePark(s, armed) ==
    CASE ViolationUnresolved(s) -> Block(s, FALSE)
      [] armed /\ ~ViolationUnresolved(s) ->
             [s EXCEPT !.condition = "BLOCKED", !.kind = "storage_pressure"]
      [] OTHER -> [s EXCEPT !.condition = "PAUSED"]
=============================================================================
