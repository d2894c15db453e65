----------------------------- MODULE Leadership -----------------------------
(***************************************************************************)
(* Who drives a programme: the epoch chain (epoch.py), the leader lease    *)
(* (succession.py), the fenced write of the project state (projectstore.py)*)
(* and the rollover of the role to a fresh session (rollover.py with       *)
(* succession_capsule.py), up to the wake of a predecessor (wake.py).      *)
(*                                                                         *)
(* acquire, handoff, release and a fenced save take the programme's write  *)
(* lock, so each is one step.  Every acquire draws a token with its epoch, *)
(* so the epoch stands for the token.  Deadlines are flags that time       *)
(* lowers at any moment.                                                   *)
(***************************************************************************)
EXTENDS Naturals, Sequences

CONSTANTS Session, NoSession, NoLease, NoCapsule,
          MaxEpoch, MaxCycle, MaxFaults,   \* bounds
          MaxChanges    \* bound: saves of the project and moves of facts together

VARIABLES
    chain,      \* epochs.json and its versions: master and reason of every epoch
    lease,      \* leader lease on file
    handle,     \* the epoch (and token) each session acts under, 0 = none
    project,    \* project.json: the epoch stamped on it, how often masters saved it;
                \* facts: the version of what a capsule can bind beside it
    given,      \* saves and facts when the lease was handed to a named successor, until it is
                \* taken
    log,        \* last event of rollover.log.jsonl
    capsules,   \* frozen capsules; their number is the capsule id
    acks,       \* acknowledgement files
    aborted,    \* capsules with an abort marker
    receipts,   \* capsules with a receipt
    rot,        \* where a session's run_rollover is, and its capsule
    acc,        \* where a session's Successor.accept is, and its capsule
    leadFaults  \* how many faults have happened

leadVars == <<chain, lease, handle, project, given, log, capsules, acks, aborted, receipts,
              rot, acc, leadFaults>>

Reasons == {"INITIAL", "SUCCESSION", "RECOVERY"}
Capsules == 1..MaxCycle

Lease == [leader : Session, epoch : Nat, released : BOOLEAN,
          successor : Session \cup {NoSession},
          gone : BOOLEAN,      \* the holder's pid is gone, or its boot is another
          fresh : BOOLEAN]     \* expires_at lies ahead
\* A capsule binds HEAD, the branch, files, refs and run sets: what its input names, and
\* not the project's saves.  Each fact is compared by itself, so one stands for any of them;
\* one that comes back to what it was is one that never moved.
Capsule == [pred : Session, epoch : Nat, succ : Session, facts : Nat, late : BOOLEAN]

ASSUME LeadershipAssumption ==
    /\ NoSession \notin Session /\ NoLease \notin Lease /\ NoCapsule \notin Capsule
    /\ MaxEpoch \in Nat /\ MaxCycle \in Nat /\ MaxChanges \in Nat /\ MaxFaults \in Nat

\* What may follow what in the rollover log.
Starts == {"pending", "draining"}
Waiting == {"draining", "frozen", "launched", "ack", "handoff"}
Events == Waiting \cup {"none", "pending", "complete", "retired", "abort", "reclaimed"}
NextEvents ==
    [e \in Events |->
       CASE e = "pending"  -> {"draining", "abort"}
         [] e = "draining" -> {"frozen", "abort"}
         [] e = "frozen"   -> {"launched", "abort"}
         [] e = "launched" -> {"ack", "abort"}
         [] e = "ack"      -> {"handoff", "abort"}
         [] e = "handoff"  -> {"complete", "reclaimed", "abort"}
         [] e = "complete" -> {"retired"} \cup Starts
         [] OTHER          -> Starts]

NotGiven == [saves |-> 0, facts |-> 0]
Idle == [at |-> "idle", cap |-> 0]

LeadInit ==
    /\ chain = <<>> /\ lease = NoLease /\ handle = [s \in Session |-> 0]
    /\ project = [epoch |-> 0, saves |-> 0, facts |-> 0]
    /\ given = NotGiven
    /\ log = [event |-> "none", cap |-> 0, stale |-> FALSE]
    /\ capsules = [c \in Capsules |-> NoCapsule] /\ acks = [c \in Capsules |-> "none"]
    /\ aborted = {} /\ receipts = {}
    /\ rot = [s \in Session |-> Idle] /\ acc = [s \in Session |-> Idle]
    /\ leadFaults = 0

LeadFault == leadFaults < MaxFaults /\ leadFaults' = leadFaults + 1

-----------------------------------------------------------------------------
(* epoch.py and succession.py                                              *)

Epoch == Len(chain)

\* authority_problems: the chain stands at this handle's epoch, in its name.
Authority(s) == handle[s] # 0 /\ Epoch = handle[s] /\ chain[Epoch].master = s

\* check: the chain, and an unreleased lease with this token that has not run out.
Master(s) ==
    /\ Authority(s)
    /\ lease # NoLease /\ lease.leader = s /\ lease.epoch = handle[s]
    /\ ~lease.released /\ lease.fresh

\* holder_state is LIVE.
Live == lease # NoLease /\ ~lease.released /\ ~lease.gone /\ lease.fresh

\* A handover that has not lapsed is for its successor alone.
MayAcquire(s) ==
    /\ ~Live
    /\ lease # NoLease /\ lease.released /\ lease.fresh
         => lease.successor \in {NoSession, s}

ReasonOf(s) ==
    IF chain = <<>> THEN "INITIAL"
    ELSE IF lease # NoLease /\ lease.released /\ lease.successor = s THEN "SUCCESSION"
    ELSE "RECOVERY"

\* Epochs.begin: the next number, after everything that was ever recorded.
Begin(s) == chain' = Append(chain, [master |-> s, reason |-> ReasonOf(s)])

\* The epoch is begun, then the lease is written ...
TakeLease(s) ==
    /\ Begin(s)
    /\ lease' = [leader |-> s, epoch |-> Epoch + 1, released |-> FALSE,
                 successor |-> NoSession, gone |-> FALSE, fresh |-> TRUE]
    /\ handle' = [handle EXCEPT ![s] = Epoch + 1]
    /\ given' = NotGiven

\* ... and a crash or a failed write may come between the two.
TakeTorn(s) == Begin(s) /\ LeadFault /\ UNCHANGED <<lease, handle, given>>

Acquire(s) ==
    /\ MayAcquire(s) /\ rot[s] = Idle /\ acc[s] = Idle /\ Epoch < MaxEpoch
    /\ \/ TakeLease(s) /\ UNCHANGED leadFaults
       \/ TakeTorn(s)
    /\ UNCHANGED <<project, log, capsules, acks, aborted, receipts, rot, acc>>

\* renew, by the keepalive thread or the hold loop.
Renew(s) ==
    /\ Master(s)
    /\ lease' = [lease EXCEPT !.fresh = TRUE]
    /\ UNCHANGED <<chain, handle, project, given, log, capsules, acks, aborted, receipts, rot,
                   acc, leadFaults>>

ReleaseLease == lease' = [lease EXCEPT !.released = TRUE]

\* release: the hold loop gives the lease back, an operator's step-in ends.
Release(s) ==
    /\ Master(s) /\ rot[s] = Idle /\ acc[s] = Idle
    /\ ReleaseLease
    /\ UNCHANGED <<chain, handle, project, given, log, capsules, acks, aborted, receipts, rot,
                   acc, leadFaults>>

\* MasterAuthority.handoff.
GiveTo(t) ==
    /\ lease' = [lease EXCEPT !.released = TRUE, !.successor = t]
    /\ given' = [saves |-> project.saves, facts |-> project.facts]

\* `project handoff`: the lease is released to one named successor, without a capsule.
HandoffTo(s, t) ==
    /\ Master(s) /\ t # s /\ rot[s] = Idle /\ acc[s] = Idle
    /\ GiveTo(t)
    /\ UNCHANGED <<chain, handle, project, log, capsules, acks, aborted, receipts, rot,
                   acc, leadFaults>>

Changes == project.saves + project.facts

\* Mutant: the state is saved by whoever still has an epoch of his own.
SaveUnchecked(s) ==
    /\ handle[s] # 0 /\ Changes < MaxChanges
    /\ project' = [epoch |-> handle[s], saves |-> project.saves + 1, facts |-> project.facts]
    /\ UNCHANGED <<chain, lease, handle, given, log, capsules, acks, aborted, receipts, rot, acc,
                   leadFaults>>

\* _save under the write lock: stamp checks the master, write_state refuses a
\* state behind the disk.
Save(s) ==
    /\ Master(s) /\ handle[s] >= project.epoch /\ Changes < MaxChanges
    /\ project' = [epoch |-> handle[s], saves |-> project.saves + 1, facts |-> project.facts]
    /\ UNCHANGED <<chain, lease, handle, given, log, capsules, acks, aborted, receipts, rot, acc,
                   leadFaults>>

-----------------------------------------------------------------------------
(* rollover.py: the log, and the predecessor's side                        *)

CanRecord(e, c) ==
    /\ e \in NextEvents[log.event]
    /\ (e \notin Starts /\ e # "abort" /\ log.event \in Waiting \cup {"complete"})
         => c = log.cap

Recorded(e, c) == [event |-> e, cap |-> c, stale |-> FALSE]

\* RolloverLog.record, and what a refusal does: it ends the rotation.
Record(s, e, next) ==
    IF CanRecord(e, rot[s].cap)
    THEN log' = Recorded(e, rot[s].cap) /\ rot' = [rot EXCEPT ![s].at = next]
    ELSE UNCHANGED log /\ rot' = [rot EXCEPT ![s] = Idle]

\* The successor's process is stopped, if the stop succeeds.
Stop(c) == acc' \in {acc, [s \in Session |-> IF acc[s].cap = c THEN Idle ELSE acc[s]]}

\* abort: the marker, the log, the successor.
Abort(s) ==
    /\ aborted' = aborted \cup {rot[s].cap}
    /\ log' = IF CanRecord("abort", rot[s].cap) THEN Recorded("abort", rot[s].cap) ELSE log
    /\ rot' = [rot EXCEPT ![s] = Idle]

\* expire_stale: a cycle whose own deadline passed is ended on record.
Expired == IF log.event \in Waiting /\ log.stale THEN Recorded("abort", log.cap) ELSE log

\* new_capsule_id never returns an id twice.
UsedIds == {c \in Capsules : capsules[c] # NoCapsule} \cup aborted
              \cup {rot[s].cap : s \in Session} \cup {log.cap}

\* A successor is a session of its own: none is launched for two capsules.
NewSession == {t \in Session : acc[t] = Idle /\ \A c \in Capsules :
                  capsules[c] # NoCapsule => capsules[c].succ # t}

\* run_rollover up to DRAINING; without a safe point it is only noted as pending.
StartRollover(s, c) ==
    /\ rot[s] = Idle /\ acc[s] = Idle /\ Master(s) /\ Live /\ Epoch <= MaxEpoch
    /\ Expired.event \notin Waiting /\ NewSession \ {s} # {}
    /\ c \notin UsedIds /\ 1..(c - 1) \subseteq UsedIds
    /\ \/ /\ log' = Recorded("draining", c)
          /\ rot' = [rot EXCEPT ![s] = [at |-> "draining", cap |-> c]]
       \/ Expired.event # "pending" /\ log' = Recorded("pending", 0) /\ UNCHANGED rot
    /\ UNCHANGED <<chain, lease, handle, project, given, capsules, acks, aborted, receipts, acc,
                   leadFaults>>

\* freeze_capsule: only the live master freezes; what it freezes binds the
\* successor to this epoch, this token and the facts as they are, and leaves the master
\* free to work on: it may save and move them until it hands over.
Freeze(s, t) ==
    /\ rot[s].at = "draining" /\ t # s /\ (Master(s) => t \in NewSession)
    /\ IF Master(s)
       THEN /\ capsules' = [capsules EXCEPT ![rot[s].cap] =
                 [pred |-> s, epoch |-> handle[s], succ |-> t, facts |-> project.facts,
                  late |-> FALSE]]
            /\ Record(s, "frozen", "frozen")
            /\ UNCHANGED aborted
       ELSE Abort(s) /\ UNCHANGED capsules
    /\ UNCHANGED <<chain, lease, handle, project, given, acks, receipts, acc, leadFaults>>

\* The successor is launched, or the launch fails.
Launch(s) ==
    /\ rot[s].at = "frozen"
    /\ LET c == rot[s].cap IN
       \/ /\ acc' = [acc EXCEPT ![capsules[c].succ] = [at |-> "started", cap |-> c]]
          /\ Record(s, "launched", "launched") /\ UNCHANGED <<aborted, leadFaults>>
       \/ LeadFault /\ Abort(s) /\ UNCHANGED acc
    /\ UNCHANGED <<chain, lease, handle, project, given, capsules, acks, receipts>>

\* One turn of the wait: the lease is renewed, the acknowledgement read, the
\* deadline looked at last.
AwaitAck(s) ==
    /\ rot[s].at = "launched"
    /\ LET c == rot[s].cap IN
       \/ ~Master(s) /\ Abort(s) /\ Stop(c) /\ UNCHANGED lease
       \/ /\ Master(s) /\ lease' = [lease EXCEPT !.fresh = TRUE]
          /\ \/ acks[c] = "ok" /\ Record(s, "ack", "ack") /\ UNCHANGED <<acc, aborted>>
             \/ acks[c] = "bad" /\ Abort(s) /\ Stop(c)
             \/ acks[c] = "none" /\ capsules[c].late /\ Abort(s) /\ Stop(c)
    /\ UNCHANGED <<chain, handle, project, given, capsules, acks, receipts, leadFaults>>

\* handoff: the lease is released to the one successor; an exception after the
\* write stands.  A failure before it (the lock is busy) aborts.
Handover(s) ==
    /\ rot[s].at = "ack"
    /\ LET c == rot[s].cap IN
       \/ /\ Master(s)
          /\ GiveTo(capsules[c].succ)
          /\ rot' = [rot EXCEPT ![s].at = "given"]
          /\ UNCHANGED <<log, acc, aborted, leadFaults>>
       \/ ~Master(s) /\ Abort(s) /\ Stop(c) /\ UNCHANGED <<lease, given, leadFaults>>
       \/ LeadFault /\ Abort(s) /\ Stop(c) /\ UNCHANGED <<lease, given>>
    /\ UNCHANGED <<chain, handle, project, capsules, acks, receipts>>

\* The handover is on file; then it is recorded.
RecordHandover(s) ==
    /\ rot[s].at = "given"
    /\ Record(s, "handoff", "handed")
    /\ UNCHANGED <<chain, lease, handle, project, given, capsules, acks, aborted, receipts, acc,
                   leadFaults>>

\* successor_holds: where the handover stands, from the chain and the lease.
Seen(c) ==
    LET k == capsules[c] IN
    IF Epoch <= k.epoch THEN "waiting"
    ELSE IF Epoch # k.epoch + 1 \/ chain[Epoch].master # k.succ THEN "other"
    ELSE IF lease.leader # k.succ \/ lease.epoch # k.epoch + 1 THEN "waiting"
    ELSE IF lease.released THEN "gave_back" ELSE "holds"

\* Mutant: the predecessor waits for its successor, and for nothing else.
WatchForever(s) ==
    /\ rot[s].at = "handed" /\ Seen(rot[s].cap) = "holds"
    /\ rot' = [rot EXCEPT ![s] = Idle]
    /\ UNCHANGED <<chain, lease, handle, project, given, log, capsules, acks, aborted, receipts,
                   acc, leadFaults>>

\* The predecessor watches the handover until it is taken, given back or lapsed.
Watch(s) ==
    /\ rot[s].at = "handed"
    /\ LET c == rot[s].cap IN
       \/ Seen(c) = "other" /\ Abort(s)
       \/ /\ Seen(c) = "holds"
          /\ log' = IF CanRecord("complete", c) THEN Recorded("retired", c) ELSE log
          /\ rot' = [rot EXCEPT ![s] = Idle] /\ UNCHANGED aborted
       \/ /\ Seen(c) \in {"gave_back", "waiting"} /\ (Seen(c) = "waiting" => ~lease.fresh)
          /\ aborted' = aborted \cup {c}
          /\ rot' = [rot EXCEPT ![s].at = "reclaim"] /\ UNCHANGED log
    /\ UNCHANGED <<chain, lease, handle, project, given, capsules, acks, receipts, acc,
                   leadFaults>>

\* The role is taken back, unless somebody else holds it by now.
Reclaim(s) ==
    /\ rot[s].at = "reclaim"
    /\ LET c == rot[s].cap IN
       \/ /\ MayAcquire(s) /\ TakeLease(s) /\ UNCHANGED <<aborted, leadFaults>>
          /\ log' = IF CanRecord("reclaimed", c) THEN Recorded("reclaimed", c) ELSE log
          /\ rot' = [rot EXCEPT ![s] = Idle]
       \/ /\ MayAcquire(s) /\ TakeTorn(s)
          /\ rot' = [rot EXCEPT ![s] = Idle] /\ UNCHANGED <<aborted, log>>
       \/ ~MayAcquire(s) /\ Abort(s) /\ UNCHANGED <<chain, lease, handle, given, leadFaults>>
    /\ Stop(rot[s].cap)
    /\ UNCHANGED <<project, capsules, acks, receipts>>

-----------------------------------------------------------------------------
(* rollover.py: the successor's side                                       *)

\* verify_capsule re-derives everything: the chain, the lease and its token,
\* the facts; before the handover the predecessor is the live master, at the
\* handover the lease is released to this successor and has not lapsed.
Bound(c) == LET k == capsules[c] IN
    /\ Epoch = k.epoch /\ chain[Epoch].master = k.pred
    /\ lease # NoLease /\ lease.leader = k.pred /\ lease.epoch = k.epoch
Handed(c) == lease.released /\ lease.successor = capsules[c].succ /\ lease.fresh
Verified(c) == Bound(c) /\ Live /\ ~capsules[c].late /\ project.facts = capsules[c].facts
VerifiedHandover(c) == Bound(c) /\ Handed(c) /\ project.facts = capsules[c].facts

Accept(t, next) ==
    acc' = [acc EXCEPT ![t] = IF next = "out" THEN Idle ELSE [@ EXCEPT !.at = next]]

\* acknowledge: refused when aborted; verified, and then written once, also
\* when the verification failed.
Look(t) ==
    /\ acc[t].at = "started"
    /\ Accept(t, IF acc[t].cap \in aborted THEN "out"
                 ELSE IF Verified(acc[t].cap) THEN "sure" ELSE "unsure")
    /\ UNCHANGED <<chain, lease, handle, project, given, log, capsules, acks, aborted, receipts,
                   rot, leadFaults>>

Acknowledge(t) ==
    /\ acc[t].at \in {"sure", "unsure"}
    /\ LET c == acc[t].cap IN
       IF acks[c] # "none" THEN Accept(t, "out") /\ UNCHANGED acks
       ELSE /\ acks' = [acks EXCEPT ![c] = IF acc[t].at = "sure" THEN "ok" ELSE "bad"]
            /\ Accept(t, IF acc[t].at = "sure" THEN "acked" ELSE "out")
    /\ UNCHANGED <<chain, lease, handle, project, given, log, capsules, aborted, receipts, rot,
                   leadFaults>>

\* Mutant: what was acknowledged is not looked at again.
PollTrusting(t) ==
    /\ acc[t].at = "acked"
    /\ LET c == acc[t].cap IN
       \/ c \in aborted /\ Accept(t, "out")
       \/ c \notin aborted /\ lease.released /\ lease.epoch = capsules[c].epoch
          /\ lease.successor = t /\ Accept(t, "go")
    /\ UNCHANGED <<chain, lease, handle, project, given, log, capsules, acks, aborted, receipts,
                   rot, leadFaults>>

\* poll: wait for the handover, derive everything again, look for the marker.
Poll(t) ==
    /\ acc[t].at = "acked"
    /\ LET c == acc[t].cap IN
       \/ c \in aborted /\ Accept(t, "out") /\ UNCHANGED leadFaults
       \/ /\ c \notin aborted
          /\ lease.released /\ lease.successor = t /\ lease.epoch = capsules[c].epoch
          /\ Accept(t, IF VerifiedHandover(c) THEN "go" ELSE "out")
          /\ UNCHANGED leadFaults
       \/ LeadFault /\ Accept(t, "out")                    \* wait_s ran out
    /\ UNCHANGED <<chain, lease, handle, project, given, log, capsules, acks, aborted,
                   receipts, rot>>

\* Mutant: any handover to this session will do.
HandoverStandsLoose(t, c) ==
    lease # NoLease /\ lease.released /\ lease.successor = t /\ lease.fresh

\* only_handover, asked under the lock: the very handover that was verified.
HandoverStands(t, c) ==
    /\ lease # NoLease /\ lease.released /\ lease.successor = t /\ lease.fresh
    /\ lease.epoch = capsules[c].epoch /\ Epoch = capsules[c].epoch

Take(t) ==
    /\ acc[t].at = "go"
    /\ LET c == acc[t].cap IN
       \/ HandoverStands(t, c) /\ TakeLease(t) /\ Accept(t, "took") /\ UNCHANGED leadFaults
       \/ HandoverStands(t, c) /\ TakeTorn(t) /\ Accept(t, "out")
       \/ ~HandoverStands(t, c) /\ Accept(t, "out")
          /\ UNCHANGED <<chain, lease, handle, given, leadFaults>>
    /\ UNCHANGED <<project, log, capsules, acks, aborted, receipts, rot>>

\* take: the token and the receipt are written, or the lease is given back.
Receipt(t) ==
    /\ acc[t].at = "took"
    /\ \/ receipts' = receipts \cup {acc[t].cap} /\ UNCHANGED <<lease, leadFaults>>
       \/ /\ LeadFault /\ UNCHANGED receipts
          /\ IF Master(t) THEN ReleaseLease ELSE UNCHANGED lease
    /\ Accept(t, "out")
    /\ UNCHANGED <<chain, handle, project, given, log, capsules, acks, aborted, rot>>

-----------------------------------------------------------------------------
(* wake.py: whom may the master wake?                                      *)

ReceiptOf(s, e) == {c \in receipts : capsules[c].succ = s /\ capsules[c].epoch + 1 = e}

\* Mutant: the nearest receipt is taken, however the epochs since were won.
AnchorNearest(s) ==
    LET mine == {c \in receipts : capsules[c].succ = s} IN
    {c \in mine : \A d \in mine : capsules[d].epoch <= capsules[c].epoch}

\* anchor_through_recovery: the walk goes down past every epoch the session re-armed itself
\* for; it ends with the one receipt that names the session where a rollover began.
Rearmed(s, e) ==
    chain[e].master = s /\ chain[e].reason = "RECOVERY" /\ ReceiptOf(s, e) = {}
Reached(s) == {e \in 1..handle[s] : \A f \in e + 1 .. handle[s] : Rearmed(s, f)}
Alone(S) == \A c, d \in S : c = d
Anchor(s) ==
    {c \in receipts : \E e \in Reached(s) :
       /\ c \in ReceiptOf(s, e) /\ Alone(ReceiptOf(s, e))
       /\ e < handle[s] => chain[e].master = s /\ chain[e].reason = "SUCCESSION"}

\* plan_wake: the capsule of the predecessor the master may wake.
MayWake(s) ==
    IF ~Master(s) THEN {}
    ELSE {c \in Anchor(s) : LET k == capsules[c] IN
             /\ k.pred # s /\ chain[k.epoch].master = k.pred
             /\ Alone(ReceiptOf(k.pred, k.epoch))}

-----------------------------------------------------------------------------
(* Time and failures.                                                      *)

\* The lease's end is reached; a session's renewals were late, or it is gone.
LeaseExpires ==
    /\ lease # NoLease /\ lease.fresh
    /\ lease' = [lease EXCEPT !.fresh = FALSE]
    /\ UNCHANGED <<chain, handle, project, given, log, capsules, acks, aborted, receipts,
                   rot, acc,
                   leadFaults>>

\* Nobody renews a lease that waits for its successor.
HandoverLapses == lease # NoLease /\ lease.released /\ LeaseExpires

\* The process that took the lease ends, its machine reboots, or another machine
\* looks at it; the session's other processes still have the token.
HolderGone ==
    /\ lease # NoLease /\ ~lease.gone /\ LeadFault
    /\ lease' = [lease EXCEPT !.gone = TRUE]
    /\ UNCHANGED <<chain, handle, project, given, log, capsules, acks, aborted, receipts,
                   rot, acc>>

CapsuleLapses(c) ==
    /\ capsules[c] # NoCapsule /\ ~capsules[c].late
    /\ capsules' = [capsules EXCEPT ![c].late = TRUE]
    /\ UNCHANGED <<chain, lease, handle, project, given, log, acks, aborted, receipts, rot, acc,
                   leadFaults>>

\* The deadline of the cycle on record; a handover's lies behind the lease's own.
LogLapses ==
    /\ log.event \in Waiting /\ ~log.stale
    /\ log.event \in {"frozen", "launched"} => capsules[log.cap].late
    /\ log.event \in {"ack", "handoff"} => lease.epoch # capsules[log.cap].epoch \/ ~lease.fresh
    /\ log' = [log EXCEPT !.stale = TRUE]
    /\ UNCHANGED <<chain, lease, handle, project, given, capsules, acks, aborted, receipts,
                   rot, acc,
                   leadFaults>>

\* Whoever it is commits, switches the branch, starts a run or edits a file: a fact that a
\* capsule binds moves, at any moment.
GroundMoves ==
    /\ Changes < MaxChanges
    /\ project' = [project EXCEPT !.facts = @ + 1]
    /\ UNCHANGED <<chain, lease, handle, given, log, capsules, acks, aborted, receipts, rot,
                   acc, leadFaults>>

\* A session's processes die; its token may survive in a file, and `accept` may be
\* run again.
SessionCrash(s) ==
    /\ LeadFault
    /\ rot[s] # Idle \/ acc[s] # Idle
    /\ rot' = [rot EXCEPT ![s] = Idle]
    /\ \/ acc' = [acc EXCEPT ![s] = Idle]
       \/ acc[s] # Idle /\ acc' = [acc EXCEPT ![s].at = "started"]
    /\ handle' \in {handle, [handle EXCEPT ![s] = 0]}
    /\ UNCHANGED <<chain, lease, project, given, log, capsules, acks, aborted, receipts>>

RolloverStep(s) ==
    \/ \E t \in Session : Freeze(s, t)
    \/ Launch(s) \/ AwaitAck(s) \/ Handover(s) \/ RecordHandover(s) \/ Watch(s) \/ Reclaim(s)

SuccessorStep(t) == Look(t) \/ Acknowledge(t) \/ Poll(t) \/ Take(t) \/ Receipt(t)

LeadNext ==
    \/ \E s \in Session :
          \/ Acquire(s) \/ Renew(s) \/ Release(s) \/ Save(s)
          \/ \E t \in Session : HandoffTo(s, t)
          \/ \E c \in Capsules : StartRollover(s, c)
          \/ RolloverStep(s) \/ SuccessorStep(s) \/ SessionCrash(s)
    \/ LeaseExpires \/ HolderGone \/ LogLapses \/ GroundMoves
    \/ \E c \in Capsules : CapsuleLapses(c)

LeadSpec == LeadInit /\ [][LeadNext]_leadVars

-----------------------------------------------------------------------------
(* Properties.                                                             *)

\* Every variable keeps to its type.
RotAt == {"draining", "frozen", "launched", "ack", "given", "handed", "reclaim"}
AccAt == {"started", "sure", "unsure", "acked", "go", "took"}
LeadTypeOK ==
    /\ chain \in Seq([master : Session, reason : Reasons])
    /\ lease \in {NoLease} \cup Lease /\ handle \in [Session -> Nat]
    /\ project \in [epoch : Nat, saves : Nat, facts : Nat]
    /\ given \in [saves : Nat, facts : Nat]
    /\ log \in [event : Events, cap : 0..MaxCycle, stale : BOOLEAN]
    /\ capsules \in [Capsules -> {NoCapsule} \cup Capsule]
    /\ acks \in [Capsules -> {"none", "ok", "bad"}]
    /\ aborted \subseteq Capsules /\ receipts \subseteq Capsules
    /\ rot \in [Session -> {Idle} \cup [at : RotAt, cap : Capsules]]
    /\ acc \in [Session -> {Idle} \cup [at : AccAt, cap : Capsules]]

\* A superseded master writes nothing: every save of the project is made under the
\* epoch the chain stands at, whatever crashed between an epoch and its lease, and
\* the epoch on file never goes back (stamp, write_state, authority_problems).
SavesAreFenced ==
    [][project'.saves # project.saves => /\ project'.epoch = Len(chain)
                                         /\ project'.epoch >= project.epoch]_leadVars

\* The role moves by a rollover only on the ground it was frozen on: whatever the master did
\* after the freeze, who reclaimed, recovered or handed over again meanwhile, at the handover
\* that is taken no fact the capsule binds had moved, and no master saved the project since
\* (poll derives everything again after the handover, only_handover).  Not claimed: that no
\* fact moves between that second look and the takeover, nor that nothing was saved between
\* the freeze and the handover.
TakenAsFrozen ==
    [][\A t \in Session : acc[t].at = "go" /\ acc'[t].at = "took"
          => /\ given.facts = capsules[acc[t].cap].facts
             /\ project.saves = given.saves]_leadVars

\* A receipt tells the truth for good: its successor holds, in the chain, the epoch right
\* after the predecessor's, and by succession (build_receipt, write_receipt).
ReceiptIsInChain ==
    \A c \in receipts : LET k == capsules[c] IN
       /\ k.epoch + 1 <= Epoch
       /\ chain[k.epoch].master = k.pred
       /\ chain[k.epoch + 1] = [master |-> k.succ, reason |-> "SUCCESSION"]

\* A master that got the role by a rollover, however often it re-armed itself since, finds
\* exactly the capsule of that rollover (wake.read_succession, anchor_through_recovery).
WakeIsAnchored ==
    \A s \in Session : Master(s) =>
       MayWake(s) = {c \in receipts : LET k == capsules[c] IN
                        /\ k.succ = s /\ k.epoch + 1 <= Epoch
                        /\ \A e \in k.epoch + 1 .. Epoch : chain[e].master = s
                        /\ \A e \in k.epoch + 2 .. Epoch : chain[e].reason = "RECOVERY"}

\* A rotation ends, and so does its successor's wait, whoever dies or is superseded
\* on the way: the predecessor's waits all have deadlines.
LeadFairness ==
    /\ \A s \in Session : WF_leadVars(RolloverStep(s))
    /\ \A c \in Capsules : WF_leadVars(CapsuleLapses(c))
    /\ WF_leadVars(HandoverLapses)
LeadFairSpec == LeadSpec /\ LeadFairness
RotationEnds == \A s \in Session : rot[s] # Idle ~> rot[s] = Idle

-----------------------------------------------------------------------------
(* The inductive invariants behind the properties.                         *)

\* A capsule is of an epoch that is or was; a rotation that is still draining is the only
\* one of its capsule, which is not frozen yet; whoever is past that has a frozen one.
CapsulesArePast ==
    \A c \in Capsules : capsules[c] # NoCapsule => capsules[c].epoch <= Epoch
OneFreezes ==
    \A s \in Session : rot[s].at = "draining" =>
       /\ capsules[rot[s].cap] = NoCapsule
       /\ \A x \in Session : x # s /\ rot[x] # Idle => rot[x].cap # rot[s].cap
RotatesFrozen ==
    \A s \in Session : rot[s].at \notin {"idle", "draining"} => capsules[rot[s].cap] # NoCapsule
AcceptsFrozen == \A t \in Session : acc[t] # Idle => capsules[acc[t].cap] # NoCapsule
\* A lease that is not released names no successor; one that was handed over in this epoch
\* stands on the ground of every capsule of the epoch or on a later one, and nobody has saved.
FactsArePast ==
    /\ given.facts <= project.facts
    /\ \A c \in Capsules : capsules[c] # NoCapsule => capsules[c].facts <= project.facts
GivenStands ==
    lease # NoLease /\ lease.successor # NoSession =>
       /\ lease.released /\ lease.epoch <= Epoch
       /\ lease.epoch = Epoch =>
             /\ project.saves = given.saves
             /\ \A c \in Capsules : capsules[c] # NoCapsule /\ capsules[c].epoch = Epoch
                   => capsules[c].facts <= given.facts
\* As long as no epoch was begun since, a handover that was verified still stands, though
\* perhaps lapsed, and it was made on the ground of its capsule.
GoStands ==
    \A t \in Session :
       acc[t].at = "go" /\ capsules[acc[t].cap].epoch = Epoch
          => /\ lease.released /\ lease.epoch = Epoch /\ lease.successor # NoSession
             /\ given.facts = capsules[acc[t].cap].facts
TakenInv == /\ CapsulesArePast /\ OneFreezes /\ RotatesFrozen /\ AcceptsFrozen
            /\ FactsArePast /\ GivenStands /\ GoStands

\* A capsule names the master of its epoch; a successor accepts what names it; and one that
\* took over did so in the next epoch, by succession.
CapsulesInChain ==
    \A c \in Capsules : capsules[c] # NoCapsule =>
       /\ capsules[c].epoch \in 1..Epoch
       /\ chain[capsules[c].epoch].master = capsules[c].pred
AcceptsOwn == \A t \in Session : acc[t] # Idle => capsules[acc[t].cap].succ = t
TookOver(c) ==
    /\ capsules[c] # NoCapsule /\ capsules[c].epoch + 1 <= Epoch
    /\ chain[capsules[c].epoch + 1] = [master |-> capsules[c].succ, reason |-> "SUCCESSION"]
TakersTookOver == \A t \in Session : acc[t].at = "took" => TookOver(acc[t].cap)
ReceiptInv == /\ CapsulesInChain /\ AcceptsOwn /\ TakersTookOver
              /\ \A c \in receipts : TookOver(c)

\* Of the rollovers of one epoch one succeeded, to another session.
Taken == receipts \cup {acc[t].cap : t \in {x \in Session : acc[x].at = "took"}}
OneSucceeds == \A c, d \in Taken : capsules[c].epoch = capsules[d].epoch => c = d
PassesOn == \A c \in Capsules : capsules[c] # NoCapsule => capsules[c].pred # capsules[c].succ
WakeInv == OneSucceeds /\ PassesOn
=============================================================================
