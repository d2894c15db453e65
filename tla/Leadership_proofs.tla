------------------------- MODULE Leadership_proofs -------------------------
(***************************************************************************)
(* Proofs about Leadership, for any number of sessions, epochs, rotations, *)
(* saves, moves of facts and faults.                                       *)
(***************************************************************************)
EXTENDS Leadership, TLAPS

LogSet == [event : Events, cap : 0..MaxCycle, stale : BOOLEAN]
RotSet == [Session -> {Idle} \cup [at : RotAt, cap : Capsules]]
AccSet == [Session -> {Idle} \cup [at : AccAt, cap : Capsules]]
ChainSet == Seq([master : Session, reason : Reasons])
GivenSet == [saves : Nat, facts : Nat]

-----------------------------------------------------------------------------
(* What the parts of an action do to the variables they change.            *)

\* Beginning an epoch makes the chain longer by one.
LEMMA BeginType ==
    ASSUME LeadTypeOK, NEW s \in Session, Begin(s)
    PROVE  chain' \in ChainSet /\ Len(chain') = Len(chain) + 1
<1>1. ReasonOf(s) \in Reasons
  BY DEF ReasonOf, Reasons
<1>2. [master |-> s, reason |-> ReasonOf(s)] \in [master : Session, reason : Reasons]
  BY <1>1
<1>. QED  BY <1>2 DEF Begin, LeadTypeOK, ChainSet

\* Taking the lease yields a lease and a handle of the new epoch.
LEMMA TakeLeaseType ==
    ASSUME LeadTypeOK, NEW s \in Session, TakeLease(s)
    PROVE  /\ chain' \in ChainSet /\ Len(chain') = Len(chain) + 1
           /\ lease' \in Lease /\ handle' \in [Session -> Nat] /\ given' \in GivenSet
<1>1. Epoch + 1 \in Nat
  BY DEF LeadTypeOK, Epoch
<1>2. lease' \in Lease
  BY <1>1 DEF TakeLease, Lease
<1>3. handle' \in [Session -> Nat]
  BY <1>1 DEF TakeLease, LeadTypeOK
<1>4. given' \in GivenSet
  BY DEF TakeLease, NotGiven, GivenSet
<1>. QED  BY <1>2, <1>3, <1>4, BeginType DEF TakeLease

\* The same for an acquire that may be torn.
LEMMA TakeType ==
    ASSUME LeadTypeOK, NEW s \in Session, TakeLease(s) \/ TakeTorn(s)
    PROVE  /\ chain' \in ChainSet /\ Len(chain') = Len(chain) + 1
           /\ lease' \in {NoLease} \cup Lease /\ handle' \in [Session -> Nat]
           /\ given' \in GivenSet
<1>1. CASE TakeLease(s)
  BY <1>1, TakeLeaseType
<1>2. CASE TakeTorn(s)
  BY <1>2, BeginType DEF TakeTorn, LeadTypeOK, GivenSet
<1>. QED  BY <1>1, <1>2

\* A row of the rollover log is well formed.
LEMMA RecordedType ==
    ASSUME LeadershipAssumption, NEW e \in Events, NEW c \in {0} \cup Capsules
    PROVE  Recorded(e, c) \in LogSet
BY DEF Recorded, LogSet, Capsules, LeadershipAssumption

\* Recording moves one rotation on, or ends it.
LEMMA RecordType ==
    ASSUME LeadershipAssumption, LeadTypeOK, NEW s \in Session, rot[s] # Idle,
           NEW e \in Events, NEW next \in RotAt, Record(s, e, next)
    PROVE  /\ log' \in LogSet /\ rot' \in RotSet
           /\ \A x \in Session : x # s => rot'[x] = rot[x]
           /\ rot'[s] \in {Idle, [at |-> next, cap |-> rot[s].cap]}
<1>1. rot[s] \in [at : RotAt, cap : Capsules]
  BY DEF LeadTypeOK
<1>2. CASE CanRecord(e, rot[s].cap)
  <2>1. log' = Recorded(e, rot[s].cap) /\ rot' = [rot EXCEPT ![s].at = next]
    BY <1>2 DEF Record
  <2>2. log' \in LogSet
    BY <1>1, <2>1, RecordedType
  <2>3. [rot[s] EXCEPT !.at = next] = [at |-> next, cap |-> rot[s].cap]
    BY <1>1
  <2>4. rot' = [rot EXCEPT ![s] = [at |-> next, cap |-> rot[s].cap]]
    BY <2>1, <2>3
  <2>. QED  BY <1>1, <2>2, <2>4 DEF LeadTypeOK, RotSet
<1>3. CASE ~CanRecord(e, rot[s].cap)
  BY <1>3 DEF Record, LeadTypeOK, LogSet, RotSet
<1>. QED  BY <1>2, <1>3

\* An abort ends one rotation.
LEMMA AbortType ==
    ASSUME LeadershipAssumption, LeadTypeOK, NEW s \in Session, rot[s] # Idle, Abort(s)
    PROVE  /\ aborted' \subseteq Capsules /\ log' \in LogSet /\ rot' \in RotSet
           /\ \A x \in Session : rot'[x] \in {rot[x], Idle}
<1>1. rot[s].cap \in Capsules
  BY DEF LeadTypeOK
<1>2. Recorded("abort", rot[s].cap) \in LogSet
  BY <1>1, RecordedType DEF Events
<1>. QED  BY <1>1, <1>2 DEF Abort, LeadTypeOK, LogSet, RotSet

\* Stopping a successor leaves nothing but idle sessions behind.
LEMMA StopType ==
    ASSUME LeadTypeOK, NEW c, Stop(c)
    PROVE  acc' \in AccSet /\ \A t \in Session : acc'[t] \in {acc[t], Idle}
BY DEF Stop, LeadTypeOK, AccSet

\* A step of one successor.
LEMMA AcceptType ==
    ASSUME LeadTypeOK, NEW t \in Session, acc[t] # Idle,
           NEW next \in AccAt \cup {"out"}, Accept(t, next)
    PROVE  /\ acc' \in AccSet
           /\ \A x \in Session : x # t => acc'[x] = acc[x]
           /\ acc'[t] = IF next = "out" THEN Idle ELSE [at |-> next, cap |-> acc[t].cap]
<1>1. acc[t] \in [at : AccAt, cap : Capsules]
  BY DEF LeadTypeOK
<1>2. CASE next = "out"
  BY <1>2 DEF Accept, LeadTypeOK, AccSet
<1>3. CASE next # "out"
  <2>1. [acc[t] EXCEPT !.at = next] = [at |-> next, cap |-> acc[t].cap]
    BY <1>1
  <2>2. acc' = [acc EXCEPT ![t] = [at |-> next, cap |-> acc[t].cap]]
    BY <1>3, <2>1 DEF Accept
  <2>3. [at |-> next, cap |-> acc[t].cap] \in [at : AccAt, cap : Capsules]
    BY <1>1, <1>3 DEF AccAt
  <2>. QED  BY <1>3, <2>2, <2>3 DEF LeadTypeOK, AccSet
<1>. QED  BY <1>2, <1>3

\* A lease that is changed in one of its flags is a lease.
LEMMA LeaseType ==
    ASSUME LeadTypeOK, lease # NoLease, NEW t \in Session
    PROVE  /\ [lease EXCEPT !.fresh = TRUE] \in Lease
           /\ [lease EXCEPT !.fresh = FALSE] \in Lease
           /\ [lease EXCEPT !.gone = TRUE] \in Lease
           /\ [lease EXCEPT !.released = TRUE] \in Lease
           /\ [lease EXCEPT !.released = TRUE, !.successor = t] \in Lease
<1>1. lease \in Lease
  BY DEF LeadTypeOK
<1>. QED  BY <1>1 DEF Lease

\* Giving the lease to a successor leaves a lease, and what was given.
LEMMA GiveType ==
    ASSUME LeadTypeOK, lease # NoLease, NEW t \in Session, GiveTo(t)
    PROVE  lease' \in Lease /\ given' \in GivenSet
<1>1. lease' \in Lease
  BY LeaseType DEF GiveTo
<1>2. given' \in GivenSet
  BY DEF GiveTo, LeadTypeOK, GivenSet
<1>. QED  BY <1>1, <1>2

\* What a save and a move of facts do to the project.
ProjectSet == [epoch : Nat, saves : Nat, facts : Nat]

LEMMA SaveType ==
    ASSUME LeadTypeOK, NEW s \in Session, Save(s)
    PROVE  /\ project' \in ProjectSet
           /\ project'.epoch = handle[s] /\ project'.facts = project.facts
<1>1. project \in ProjectSet /\ handle[s] \in Nat
  BY DEF LeadTypeOK, ProjectSet
<1>2. project' = [epoch |-> handle[s], saves |-> project.saves + 1, facts |-> project.facts]
  BY DEF Save
<1>. QED  BY <1>1, <1>2 DEF ProjectSet

LEMMA MoveType ==
    ASSUME LeadTypeOK, GroundMoves
    PROVE  /\ project' \in ProjectSet
           /\ project'.saves = project.saves /\ project'.facts = project.facts + 1
<1>1. project \in ProjectSet
  BY DEF LeadTypeOK, ProjectSet
<1>2. project' = [project EXCEPT !.facts = @ + 1]
  BY DEF GroundMoves
<1>. QED  BY <1>1, <1>2 DEF ProjectSet

-----------------------------------------------------------------------------
(* Types.                                                                  *)

\* The master's actions and the operator's keep the types.
LEMMA MasterType ==
    ASSUME LeadershipAssumption, LeadTypeOK, NEW s \in Session,
           \/ Acquire(s) \/ Renew(s) \/ Release(s) \/ Save(s)
           \/ \E t \in Session : HandoffTo(s, t)
           \/ \E c \in Capsules : StartRollover(s, c)
    PROVE  LeadTypeOK'
<1>1. CASE Acquire(s)
  BY <1>1, TakeType DEF Acquire, LeadTypeOK, ChainSet, GivenSet
<1>2. CASE Renew(s)
  BY <1>2, LeaseType DEF Renew, Master, LeadTypeOK
<1>3. CASE Release(s)
  BY <1>3, LeaseType DEF Release, ReleaseLease, Master, LeadTypeOK
<1>4. CASE Save(s)
  <2>1. project' \in ProjectSet
    BY <1>4, SaveType
  <2>. QED  BY <1>4, <2>1 DEF Save, LeadTypeOK, ProjectSet
<1>5. CASE \E t \in Session : HandoffTo(s, t)
  <2>. PICK t \in Session : HandoffTo(s, t)
    BY <1>5
  <2>1. lease' \in Lease /\ given' \in GivenSet
    BY GiveType DEF HandoffTo, Master
  <2>. QED  BY <2>1 DEF HandoffTo, LeadTypeOK, GivenSet
<1>6. CASE \E c \in Capsules : StartRollover(s, c)
  <2>. PICK c \in Capsules : StartRollover(s, c)
    BY <1>6
  <2>1. Recorded("draining", c) \in LogSet /\ Recorded("pending", 0) \in LogSet
    BY RecordedType DEF Events, Waiting
  <2>2. [at |-> "draining", cap |-> c] \in [at : RotAt, cap : Capsules]
    BY DEF RotAt
  <2>3. log' \in LogSet
    BY <2>1 DEF StartRollover, LogSet
  <2>4. rot' \in RotSet
    BY <2>2 DEF StartRollover, LeadTypeOK, RotSet
  <2>. QED  BY <2>3, <2>4 DEF StartRollover, LeadTypeOK, LogSet, RotSet
<1>. QED  BY <1>1, <1>2, <1>3, <1>4, <1>5, <1>6

\* The predecessor's side keeps the types.
LEMMA RotationType ==
    ASSUME LeadershipAssumption, LeadTypeOK, RotatesFrozen, NEW s \in Session, RolloverStep(s)
    PROVE  LeadTypeOK'
<1>0. {"frozen", "launched", "ack", "handoff", "abort", "retired", "reclaimed"} \subseteq Events
      /\ RotAt \ {"draining"} \subseteq RotAt
      /\ {"frozen", "launched", "ack", "given", "handed", "reclaim"} \subseteq RotAt
  BY DEF Events, Waiting, RotAt
<1>1. ASSUME NEW t \in Session, Freeze(s, t) PROVE LeadTypeOK'
  <2>1. rot[s] # Idle /\ rot[s].cap \in Capsules
    BY <1>1 DEF Freeze, LeadTypeOK, Idle
  <2>2. CASE Master(s)
    <3>1. [pred |-> s, epoch |-> handle[s], succ |-> t, facts |-> project.facts,
           late |-> FALSE] \in Capsule
      BY DEF LeadTypeOK, Capsule
    <3>2. capsules' \in [Capsules -> {NoCapsule} \cup Capsule]
      BY <1>1, <2>1, <2>2, <3>1 DEF Freeze, LeadTypeOK
    <3>3. log' \in LogSet /\ rot' \in RotSet
      BY <1>0, <1>1, <2>1, <2>2, RecordType DEF Freeze
    <3>. QED  BY <1>1, <2>2, <3>2, <3>3 DEF Freeze, LeadTypeOK, LogSet, RotSet
  <2>3. CASE ~Master(s)
    BY <1>1, <2>1, <2>3, AbortType DEF Freeze, LeadTypeOK, LogSet, RotSet
  <2>. QED  BY <2>2, <2>3
<1>2. ASSUME Launch(s) PROVE LeadTypeOK'
  <2>. DEFINE c == rot[s].cap
  <2>1. rot[s] # Idle /\ c \in Capsules
    BY <1>2 DEF Launch, LeadTypeOK, Idle
  <2>2. CASE Record(s, "launched", "launched")
             /\ acc' = [acc EXCEPT ![capsules[c].succ] = [at |-> "started", cap |-> c]]
             /\ UNCHANGED aborted
    <3>1. log' \in LogSet /\ rot' \in RotSet
      BY <1>0, <2>1, <2>2, RecordType
    <3>2. acc' \in AccSet
      BY <2>1, <2>2 DEF LeadTypeOK, AccSet, AccAt
    <3>. QED  BY <1>2, <2>2, <3>1, <3>2 DEF Launch, LeadTypeOK, LogSet, RotSet, AccSet
  <2>3. CASE Abort(s) /\ UNCHANGED acc
    BY <1>2, <2>1, <2>3, AbortType DEF Launch, LeadTypeOK, LogSet, RotSet
  <2>. QED  BY <1>2, <2>2, <2>3 DEF Launch
<1>3. ASSUME AwaitAck(s) PROVE LeadTypeOK'
  <2>1. rot[s] # Idle
    BY <1>3 DEF AwaitAck, Idle
  <2>2. lease' \in {NoLease} \cup Lease
    BY <1>3, LeaseType DEF AwaitAck, Master, LeadTypeOK
  <2>3. CASE Abort(s) /\ Stop(rot[s].cap)
    BY <1>3, <2>1, <2>2, <2>3, AbortType, StopType
       DEF AwaitAck, LeadTypeOK, LogSet, RotSet, AccSet
  <2>4. CASE Record(s, "ack", "ack") /\ UNCHANGED <<acc, aborted>>
    <3>1. log' \in LogSet /\ rot' \in RotSet
      BY <1>0, <2>1, <2>4, RecordType
    <3>. QED  BY <1>3, <2>2, <2>4, <3>1 DEF AwaitAck, LeadTypeOK, LogSet, RotSet
  <2>. QED  BY <1>3, <2>3, <2>4 DEF AwaitAck
<1>4. ASSUME Handover(s) PROVE LeadTypeOK'
  <2>1. rot[s] # Idle /\ rot[s] \in [at : RotAt, cap : Capsules]
    BY <1>4 DEF Handover, LeadTypeOK, Idle
  <2>2. CASE Abort(s) /\ Stop(rot[s].cap) /\ UNCHANGED <<lease, given>>
    BY <1>4, <2>1, <2>2, AbortType, StopType
       DEF Handover, LeadTypeOK, LogSet, RotSet, AccSet
  <2>3. CASE /\ Master(s)
             /\ GiveTo(capsules[rot[s].cap].succ)
             /\ rot' = [rot EXCEPT ![s].at = "given"]
             /\ UNCHANGED <<log, acc, aborted>>
    <3>0. capsules[rot[s].cap] \in Capsule
      BY <1>4, <2>1 DEF Handover, RotatesFrozen, LeadTypeOK
    <3>1. lease' \in Lease /\ given' \in GivenSet
      BY <2>3, <3>0, GiveType DEF Master, Capsule
    <3>2. rot' \in RotSet
      BY <2>1, <2>3 DEF LeadTypeOK, RotSet, RotAt
    <3>. QED  BY <1>4, <2>3, <3>1, <3>2 DEF Handover, LeadTypeOK, RotSet, GivenSet
  <2>. QED  BY <1>4, <2>2, <2>3 DEF Handover
<1>5. ASSUME RecordHandover(s) PROVE LeadTypeOK'
  <2>1. rot[s] # Idle
    BY <1>5 DEF RecordHandover, Idle
  <2>2. log' \in LogSet /\ rot' \in RotSet
    BY <1>0, <1>5, <2>1, RecordType DEF RecordHandover
  <2>. QED  BY <1>5, <2>2 DEF RecordHandover, LeadTypeOK, LogSet, RotSet
<1>6. ASSUME Watch(s) PROVE LeadTypeOK'
  <2>. DEFINE c == rot[s].cap
  <2>1. rot[s] # Idle /\ rot[s] \in [at : RotAt, cap : Capsules]
    BY <1>6 DEF Watch, LeadTypeOK, Idle
  <2>2. CASE Abort(s)
    BY <1>6, <2>1, <2>2, AbortType DEF Watch, LeadTypeOK, LogSet, RotSet
  <2>3. CASE /\ log' = IF CanRecord("complete", c) THEN Recorded("retired", c) ELSE log
             /\ rot' = [rot EXCEPT ![s] = Idle] /\ UNCHANGED aborted
    <3>1. Recorded("retired", c) \in LogSet
      BY <1>0, <2>1, RecordedType
    <3>. QED  BY <1>6, <2>3, <3>1 DEF Watch, LeadTypeOK, LogSet
  <2>4. CASE /\ aborted' = aborted \cup {c}
             /\ rot' = [rot EXCEPT ![s].at = "reclaim"] /\ UNCHANGED log
    <3>1. rot' \in RotSet
      BY <2>1, <2>4 DEF LeadTypeOK, RotSet, RotAt
    <3>. QED  BY <1>6, <2>1, <2>4, <3>1 DEF Watch, LeadTypeOK, RotSet
  <2>. QED  BY <1>6, <2>2, <2>3, <2>4 DEF Watch
<1>7. ASSUME Reclaim(s) PROVE LeadTypeOK'
  <2>. DEFINE c == rot[s].cap
  <2>1. rot[s] # Idle /\ c \in Capsules
    BY <1>7 DEF Reclaim, LeadTypeOK, Idle
  <2>2. acc' \in AccSet
    BY <1>7, StopType DEF Reclaim
  <2>3. CASE Abort(s) /\ UNCHANGED <<chain, lease, handle, given>>
    BY <1>7, <2>1, <2>2, <2>3, AbortType DEF Reclaim, LeadTypeOK, LogSet, RotSet, AccSet
  <2>4. CASE /\ TakeLease(s) \/ TakeTorn(s)
             /\ log' \in {log, Recorded("reclaimed", c)}
             /\ rot' = [rot EXCEPT ![s] = Idle] /\ UNCHANGED aborted
    <3>1. Recorded("reclaimed", c) \in LogSet
      BY <1>0, <2>1, RecordedType
    <3>2. /\ chain' \in ChainSet
          /\ lease' \in {NoLease} \cup Lease /\ handle' \in [Session -> Nat]
          /\ given' \in GivenSet
      BY <2>4, TakeType
    <3>. QED  BY <1>7, <2>2, <2>4, <3>1, <3>2
              DEF Reclaim, LeadTypeOK, LogSet, AccSet, ChainSet, GivenSet
  <2>. QED  BY <1>7, <2>3, <2>4 DEF Reclaim
<1>. QED  BY <1>1, <1>2, <1>3, <1>4, <1>5, <1>6, <1>7 DEF RolloverStep

\* The successor's side keeps the types.
LEMMA SuccessorType ==
    ASSUME LeadershipAssumption, LeadTypeOK, NEW t \in Session, SuccessorStep(t)
    PROVE  LeadTypeOK'
<1>0. {"out", "sure", "unsure", "acked", "go", "took"} \subseteq AccAt \cup {"out"}
  BY DEF AccAt
<1>1. ASSUME Look(t) PROVE LeadTypeOK'
  <2>1. acc[t] # Idle
    BY <1>1 DEF Look, Idle
  <2>2. acc' \in AccSet
    BY <1>0, <1>1, <2>1, AcceptType DEF Look
  <2>. QED  BY <1>1, <2>2 DEF Look, LeadTypeOK, AccSet
<1>2. ASSUME Acknowledge(t) PROVE LeadTypeOK'
  <2>1. acc[t] # Idle
    BY <1>2 DEF Acknowledge, Idle
  <2>2. acc' \in AccSet
    BY <1>0, <1>2, <2>1, AcceptType DEF Acknowledge
  <2>3. acks' \in [Capsules -> {"none", "ok", "bad"}]
    BY SMTT(60), <1>2 DEF Acknowledge, LeadTypeOK
  <2>. QED  BY <1>2, <2>2, <2>3 DEF Acknowledge, LeadTypeOK, AccSet
<1>3. ASSUME Poll(t) PROVE LeadTypeOK'
  <2>1. acc[t] # Idle
    BY <1>3 DEF Poll, Idle
  <2>2. acc' \in AccSet
    BY <1>0, <1>3, <2>1, AcceptType DEF Poll
  <2>. QED  BY <1>3, <2>2 DEF Poll, LeadTypeOK, AccSet
<1>4. ASSUME Take(t) PROVE LeadTypeOK'
  <2>1. acc[t] # Idle
    BY <1>4 DEF Take, Idle
  <2>2. acc' \in AccSet
    BY <1>0, <1>4, <2>1, AcceptType DEF Take
  <2>3. CASE TakeLease(t) \/ TakeTorn(t)
    BY <1>4, <2>2, <2>3, TakeType DEF Take, LeadTypeOK, AccSet, ChainSet, GivenSet
  <2>4. CASE UNCHANGED <<chain, lease, handle, given>>
    BY <1>4, <2>2, <2>4 DEF Take, LeadTypeOK, AccSet
  <2>. QED  BY <1>4, <2>3, <2>4 DEF Take
<1>5. ASSUME Receipt(t) PROVE LeadTypeOK'
  <2>1. acc[t] # Idle /\ acc[t].cap \in Capsules
    BY <1>5 DEF Receipt, LeadTypeOK, Idle
  <2>2. acc' \in AccSet
    BY <1>0, <1>5, <2>1, AcceptType DEF Receipt
  <2>3. lease' \in {NoLease} \cup Lease
    BY <1>5, LeaseType DEF Receipt, ReleaseLease, Master, LeadTypeOK
  <2>4. receipts' \subseteq Capsules
    BY <1>5, <2>1 DEF Receipt, LeadTypeOK
  <2>. QED  BY <1>5, <2>2, <2>3, <2>4 DEF Receipt, LeadTypeOK, AccSet
<1>. QED  BY <1>1, <1>2, <1>3, <1>4, <1>5 DEF SuccessorStep

\* So do time and failures.
LEMMA NatureType ==
    ASSUME LeadershipAssumption, LeadTypeOK,
           \/ \E s \in Session : SessionCrash(s)
           \/ LeaseExpires \/ HolderGone \/ LogLapses \/ GroundMoves
           \/ \E c \in Capsules : CapsuleLapses(c)
    PROVE  LeadTypeOK'
<1>1. ASSUME NEW s \in Session, SessionCrash(s) PROVE LeadTypeOK'
  <2>0. rot' \in RotSet
    BY <1>1 DEF SessionCrash, LeadTypeOK, RotSet
  <2>1. handle' \in [Session -> Nat]
    <3>1. handle \in [Session -> Nat] /\ handle' \in {handle, [handle EXCEPT ![s] = 0]}
      BY <1>1 DEF SessionCrash, LeadTypeOK
    <3>. QED  BY <3>1
  <2>2. CASE acc' = [acc EXCEPT ![s] = Idle]
    <3>1. acc' \in AccSet
      BY <2>2 DEF LeadTypeOK, AccSet
    <3>. QED  BY <1>1, <2>0, <2>1, <3>1 DEF SessionCrash, LeadTypeOK, RotSet, AccSet
  <2>3. CASE acc[s] # Idle /\ acc' = [acc EXCEPT ![s].at = "started"]
    <3>0. acc[s] \in [at : AccAt, cap : Capsules]
      BY <2>3 DEF LeadTypeOK
    <3>1. [acc[s] EXCEPT !.at = "started"] \in [at : AccAt, cap : Capsules]
      BY <3>0 DEF AccAt
    <3>2. acc' \in AccSet
      <4>1. acc' = [acc EXCEPT ![s] = [acc[s] EXCEPT !.at = "started"]]
        BY <2>3
      <4>. QED  BY <3>1, <4>1 DEF LeadTypeOK, AccSet
    <3>. QED  BY <1>1, <2>0, <2>1, <3>2 DEF SessionCrash, LeadTypeOK, RotSet, AccSet
  <2>. QED  BY <1>1, <2>2, <2>3 DEF SessionCrash
<1>2. CASE LeaseExpires
  <2>1. lease \in Lease /\ lease.leader \in Session
    BY <1>2 DEF LeaseExpires, LeadTypeOK, Lease
  <2>2. lease' \in Lease
    BY <1>2, <2>1, LeaseType DEF LeaseExpires
  <2>. QED  BY <1>2, <2>2 DEF LeaseExpires, LeadTypeOK
<1>3. CASE HolderGone
  <2>1. lease \in Lease /\ lease.leader \in Session
    BY <1>3 DEF HolderGone, LeadTypeOK, Lease
  <2>2. lease' \in Lease
    BY <1>3, <2>1, LeaseType DEF HolderGone
  <2>. QED  BY <1>3, <2>2 DEF HolderGone, LeadTypeOK
<1>4. CASE LogLapses
  BY <1>4 DEF LogLapses, LeadTypeOK
<1>5. ASSUME NEW c \in Capsules, CapsuleLapses(c) PROVE LeadTypeOK'
  <2>0. capsules[c] \in Capsule
    BY <1>5 DEF CapsuleLapses, LeadTypeOK
  <2>1. [capsules[c] EXCEPT !.late = TRUE] \in Capsule
    BY <2>0 DEF Capsule
  <2>. QED  BY <1>5, <2>1 DEF CapsuleLapses, LeadTypeOK
<1>6. CASE GroundMoves
  <2>1. project' \in ProjectSet
    BY <1>6, MoveType
  <2>. QED  BY <1>6, <2>1 DEF GroundMoves, LeadTypeOK, ProjectSet
<1>. QED  BY <1>1, <1>2, <1>3, <1>4, <1>5, <1>6


-----------------------------------------------------------------------------
(* What most steps leave as it is.                                         *)

\* No capsule is frozen, and none changes what it binds.
CapFrame ==
    \A c \in Capsules :
       \/ capsules'[c] = capsules[c]
       \/ /\ capsules[c] # NoCapsule /\ capsules'[c] # NoCapsule
          /\ capsules'[c].epoch = capsules[c].epoch /\ capsules'[c].facts = capsules[c].facts
\* No rotation begins, and none freezes.
RotFrame ==
    \A s \in Session :
       \/ rot'[s] \in {Idle, rot[s]}
       \/ /\ rot[s].at \notin {"idle", "draining"} /\ rot'[s].at \notin {"idle", "draining"}
          /\ rot'[s].cap = rot[s].cap
\* No successor is launched, and none sees its handover.
AccFrame ==
    \A t \in Session :
       \/ acc'[t] \in {Idle, acc[t]}
       \/ acc[t] # Idle /\ acc'[t].cap = acc[t].cap /\ acc'[t].at # "go"
\* A lease that was handed over stays so, and nobody saves or gives it away anew, until the
\* next epoch.
HandFrame ==
    \/ Epoch' = Epoch + 1
    \/ /\ Epoch' = Epoch
       /\ lease.released /\ lease.epoch = Epoch
             => /\ lease'.released /\ lease'.epoch = Epoch
                /\ lease'.successor = lease.successor /\ given' = given

\* The part of the invariant that is about what is frozen, apart from what was given.
FrozenInv == CapsulesArePast /\ OneFreezes /\ RotatesFrozen /\ AcceptsFrozen /\ GoStands

LEMMA CapsulesStayPast ==
    ASSUME LeadTypeOK, CapsulesArePast, CapFrame, HandFrame
    PROVE  CapsulesArePast'
<1>1. Epoch \in Nat /\ Epoch' >= Epoch
  BY DEF LeadTypeOK, Epoch, HandFrame
<1>2. Epoch' \in Nat
  BY <1>1 DEF HandFrame
<1>3. SUFFICES ASSUME NEW c \in Capsules, capsules'[c] # NoCapsule
               PROVE  capsules'[c].epoch <= Epoch'
  BY DEF CapsulesArePast
<1>4. capsules[c] # NoCapsule /\ capsules'[c].epoch = capsules[c].epoch
  BY <1>3 DEF CapFrame
<1>5. capsules[c].epoch \in Nat /\ capsules[c].epoch <= Epoch
  BY <1>4 DEF CapsulesArePast, LeadTypeOK, Capsule
<1>. QED  BY <1>1, <1>2, <1>4, <1>5

LEMMA RotationsKeep ==
    ASSUME LeadTypeOK, OneFreezes, RotatesFrozen, CapFrame, RotFrame
    PROVE  OneFreezes' /\ RotatesFrozen'
<1>0. \A s \in Session : rot[s] = Idle \/ rot[s] \in [at : RotAt, cap : Capsules]
  BY DEF LeadTypeOK
<1>1. \A s \in Session : rot'[s] # Idle => rot[s] # Idle /\ rot'[s].cap = rot[s].cap
  BY DEF RotFrame, Idle
<1>2. ASSUME NEW s \in Session, rot'[s].at = "draining"
      PROVE  /\ capsules'[rot'[s].cap] = NoCapsule
             /\ \A x \in Session : x # s /\ rot'[x] # Idle => rot'[x].cap # rot'[s].cap
  <2>1. rot'[s] = rot[s] /\ rot[s].at = "draining"
    BY <1>2 DEF RotFrame, Idle
  <2>2. rot[s].cap \in Capsules
    BY <1>0, <2>1 DEF Idle
  <2>3. capsules'[rot[s].cap] = NoCapsule
    BY <2>1, <2>2 DEF OneFreezes, CapFrame
  <2>. QED  BY <1>1, <2>1, <2>3 DEF OneFreezes
<1>3. ASSUME NEW s \in Session, rot'[s].at \notin {"idle", "draining"}
      PROVE  capsules'[rot'[s].cap] # NoCapsule
  <2>1. rot[s].at \notin {"idle", "draining"} /\ rot'[s].cap = rot[s].cap
    BY <1>3 DEF RotFrame, Idle
  <2>2. rot[s].cap \in Capsules
    BY <1>0, <2>1 DEF Idle
  <2>. QED  BY <2>1, <2>2 DEF RotatesFrozen, CapFrame
<1>. QED  BY <1>2, <1>3 DEF OneFreezes, RotatesFrozen

LEMMA AcceptsKeep ==
    ASSUME LeadTypeOK, AcceptsFrozen, CapFrame, AccFrame
    PROVE  AcceptsFrozen'
<1>1. SUFFICES ASSUME NEW t \in Session, acc'[t] # Idle
               PROVE  capsules'[acc'[t].cap] # NoCapsule
  BY DEF AcceptsFrozen
<1>2. acc[t] # Idle /\ acc'[t].cap = acc[t].cap
  BY <1>1 DEF AccFrame
<1>3. acc[t].cap \in Capsules
  BY <1>2 DEF LeadTypeOK
<1>. QED  BY <1>2, <1>3 DEF AcceptsFrozen, CapFrame

LEMMA GoKeeps ==
    ASSUME LeadTypeOK, CapsulesArePast, AcceptsFrozen, GoStands, CapFrame, AccFrame, HandFrame
    PROVE  GoStands'
<1>1. SUFFICES ASSUME NEW t \in Session, acc'[t].at = "go",
                      capsules'[acc'[t].cap].epoch = Epoch'
               PROVE  /\ lease'.released /\ lease'.epoch = Epoch'
                      /\ lease'.successor # NoSession
                      /\ given'.facts = capsules'[acc'[t].cap].facts
  BY DEF GoStands
<1>2. acc'[t] = acc[t] /\ acc[t] # Idle
  BY <1>1 DEF AccFrame, Idle
<1>3. acc[t].cap \in Capsules /\ capsules[acc[t].cap] # NoCapsule
  BY <1>2 DEF LeadTypeOK, AcceptsFrozen
<1>4. /\ capsules'[acc[t].cap].epoch = capsules[acc[t].cap].epoch
      /\ capsules'[acc[t].cap].facts = capsules[acc[t].cap].facts
  BY <1>3 DEF CapFrame
<1>5. capsules[acc[t].cap].epoch \in Nat /\ capsules[acc[t].cap].epoch <= Epoch /\ Epoch \in Nat
  BY <1>3 DEF CapsulesArePast, LeadTypeOK, Capsule, Epoch
<1>6. Epoch' = Epoch
  BY <1>1, <1>2, <1>4, <1>5 DEF HandFrame
<1>7. /\ lease.released /\ lease.epoch = Epoch /\ lease.successor # NoSession
      /\ given.facts = capsules[acc[t].cap].facts
  BY <1>1, <1>2, <1>4, <1>6 DEF GoStands
<1>8. Epoch' # Epoch + 1
  BY <1>5, <1>6
<1>. QED  BY <1>2, <1>4, <1>6, <1>7, <1>8 DEF HandFrame

\* A step that keeps to all four frames keeps the invariant.
LEMMA FrameKeeps ==
    ASSUME LeadTypeOK, TakenInv, CapFrame, RotFrame, AccFrame, HandFrame
    PROVE  FrozenInv'
BY CapsulesStayPast, RotationsKeep, AcceptsKeep, GoKeeps DEF TakenInv, FrozenInv

-----------------------------------------------------------------------------
(* Which steps keep to which frame.                                        *)

\* A released lease has no master, and a torn or a taken one begins an epoch.
LEMMA TakeHands ==
    ASSUME LeadTypeOK, NEW s \in Session, TakeLease(s) \/ TakeTorn(s)
    PROVE  HandFrame
BY TakeType DEF HandFrame, Epoch

LEMMA RecordFrame ==
    ASSUME LeadTypeOK, NEW s \in Session, rot[s].at \notin {"idle", "draining"},
           NEW e, NEW next \in RotAt \ {"draining"}, Record(s, e, next)
    PROVE  RotFrame
<1>1. rot[s] \in [at : RotAt, cap : Capsules]
  BY DEF LeadTypeOK, Idle
<1>2. \A x \in Session : x # s => rot'[x] = rot[x]
  BY DEF Record, LeadTypeOK
<1>3. CASE CanRecord(e, rot[s].cap)
  <2>1. rot' = [rot EXCEPT ![s].at = next]
    BY <1>3 DEF Record
  <2>2. rot'[s] = [rot[s] EXCEPT !.at = next]
    BY <2>1 DEF LeadTypeOK
  <2>3. rot'[s].cap = rot[s].cap /\ rot'[s].at = next
    BY <1>1, <2>2
  <2>. QED  BY <1>2, <2>3 DEF RotFrame, RotAt
<1>4. CASE ~CanRecord(e, rot[s].cap)
  BY <1>4 DEF Record, LeadTypeOK, RotFrame
<1>. QED  BY <1>3, <1>4

LEMMA AbortFrame ==
    ASSUME LeadTypeOK, NEW s \in Session, Abort(s)
    PROVE  RotFrame
BY DEF Abort, LeadTypeOK, RotFrame

LEMMA StopFrame ==
    ASSUME LeadTypeOK, NEW c, Stop(c)
    PROVE  AccFrame
BY DEF Stop, AccFrame

LEMMA AcceptFrame ==
    ASSUME LeadTypeOK, NEW t \in Session, acc[t] # Idle,
           NEW next \in (AccAt \ {"go"}) \cup {"out"}, Accept(t, next)
    PROVE  AccFrame
<1>1. next \in AccAt \cup {"out"} /\ (next # "out" => next # "go")
  OBVIOUS
<1>2. /\ \A x \in Session : x # t => acc'[x] = acc[x]
      /\ acc'[t] = IF next = "out" THEN Idle ELSE [at |-> next, cap |-> acc[t].cap]
  BY <1>1, AcceptType
<1>. QED  BY <1>1, <1>2 DEF AccFrame

\* What the master and the operator do, but for the start of a rotation.
LEMMA MasterFrames ==
    ASSUME LeadTypeOK, NEW s \in Session,
           \/ Acquire(s) \/ Renew(s) \/ Release(s) \/ Save(s)
           \/ \E t \in Session : HandoffTo(s, t)
    PROVE  CapFrame /\ RotFrame /\ AccFrame /\ HandFrame
<1>1. CASE Acquire(s)
  BY <1>1, TakeHands DEF Acquire, CapFrame, RotFrame, AccFrame
<1>2. CASE Renew(s)
  BY <1>2 DEF Renew, Master, CapFrame, RotFrame, AccFrame, HandFrame, Epoch
<1>3. CASE Release(s)
  BY <1>3 DEF Release, Master, CapFrame, RotFrame, AccFrame, HandFrame, Epoch
<1>4. CASE Save(s)
  BY <1>4 DEF Save, Master, CapFrame, RotFrame, AccFrame, HandFrame, Epoch
<1>5. CASE \E t \in Session : HandoffTo(s, t)
  BY <1>5 DEF HandoffTo, Master, CapFrame, RotFrame, AccFrame, HandFrame, Epoch
<1>. QED  BY <1>1, <1>2, <1>3, <1>4, <1>5

\* What the predecessor does after the freeze and the launch.
LEMMA RotationFrames ==
    ASSUME LeadTypeOK, NEW s \in Session,
           AwaitAck(s) \/ Handover(s) \/ RecordHandover(s) \/ Watch(s) \/ Reclaim(s)
    PROVE  CapFrame /\ RotFrame /\ AccFrame /\ HandFrame
<1>0. {"ack", "handed", "given", "reclaim"} \subseteq RotAt \ {"draining"}
  BY DEF RotAt
<1>1. CASE AwaitAck(s)
  <2>1. HandFrame
    BY <1>1 DEF AwaitAck, Master, HandFrame, Epoch
  <2>2. RotFrame
    BY <1>0, <1>1, AbortFrame, RecordFrame DEF AwaitAck
  <2>3. AccFrame
    BY <1>1, StopFrame DEF AwaitAck, AccFrame
  <2>. QED  BY <1>1, <2>1, <2>2, <2>3 DEF AwaitAck, CapFrame
<1>2. CASE Handover(s)
  <2>1. HandFrame
    BY <1>2 DEF Handover, Master, HandFrame, Epoch
  <2>2. rot' = [rot EXCEPT ![s].at = "given"] => RotFrame
    <3>1. rot[s] \in [at : RotAt, cap : Capsules] /\ rot[s].at = "ack"
      BY <1>2 DEF Handover, LeadTypeOK, Idle
    <3>2. SUFFICES ASSUME rot' = [rot EXCEPT ![s].at = "given"] PROVE RotFrame
      OBVIOUS
    <3>3. rot'[s] = [rot[s] EXCEPT !.at = "given"]
      BY <3>2 DEF LeadTypeOK
    <3>4. rot'[s].at = "given" /\ rot'[s].cap = rot[s].cap
      BY <3>1, <3>3
    <3>5. \A x \in Session : x # s => rot'[x] = rot[x]
      BY <3>2 DEF LeadTypeOK
    <3>. QED  BY <3>1, <3>4, <3>5 DEF RotFrame
  <2>3. RotFrame
    BY <1>2, <2>2, AbortFrame DEF Handover
  <2>4. AccFrame
    BY <1>2, StopFrame DEF Handover, AccFrame
  <2>. QED  BY <1>2, <2>1, <2>3, <2>4 DEF Handover, CapFrame
<1>3. CASE RecordHandover(s)
  <2>1. RotFrame
    BY <1>0, <1>3, RecordFrame DEF RecordHandover
  <2>. QED  BY <1>3, <2>1 DEF RecordHandover, CapFrame, AccFrame, HandFrame, Epoch
<1>4. CASE Watch(s)
  <2>1. rot[s] \in [at : RotAt, cap : Capsules] /\ rot[s].at = "handed"
    BY <1>4 DEF Watch, LeadTypeOK, Idle
  <2>2. CASE rot' = [rot EXCEPT ![s] = Idle]
    BY <1>4, <2>2 DEF Watch, LeadTypeOK, RotFrame, CapFrame, AccFrame, HandFrame, Epoch
  <2>3. CASE rot' = [rot EXCEPT ![s].at = "reclaim"]
    <3>1. rot'[s] = [rot[s] EXCEPT !.at = "reclaim"]
      BY <2>3 DEF LeadTypeOK
    <3>2. rot'[s].at = "reclaim" /\ rot'[s].cap = rot[s].cap
      BY <2>1, <3>1
    <3>3. \A x \in Session : x # s => rot'[x] = rot[x]
      BY <2>3 DEF LeadTypeOK
    <3>4. RotFrame
      BY <2>1, <3>2, <3>3 DEF RotFrame
    <3>. QED  BY <1>4, <3>4 DEF Watch, CapFrame, AccFrame, HandFrame, Epoch
  <2>. QED  BY <1>4, <2>2, <2>3 DEF Watch, Abort
<1>5. CASE Reclaim(s)
  <2>1. HandFrame
    BY <1>5, TakeHands DEF Reclaim, HandFrame, Epoch
  <2>2. rot' = [rot EXCEPT ![s] = Idle]
    BY <1>5 DEF Reclaim, Abort
  <2>3. AccFrame
    BY <1>5, StopFrame DEF Reclaim
  <2>. QED  BY <1>5, <2>1, <2>2, <2>3 DEF Reclaim, LeadTypeOK, CapFrame, RotFrame
<1>. QED  BY <1>1, <1>2, <1>3, <1>4, <1>5

\* What the successor does, but for the look at the handover.
LEMMA SuccessorFrames ==
    ASSUME LeadTypeOK, NEW t \in Session,
           Look(t) \/ Acknowledge(t) \/ Take(t) \/ Receipt(t)
    PROVE  CapFrame /\ RotFrame /\ AccFrame /\ HandFrame
<1>0. {"out", "sure", "unsure", "acked", "took"} \subseteq (AccAt \ {"go"}) \cup {"out"}
  BY DEF AccAt
<1>1. acc[t] # Idle
  BY DEF Look, Acknowledge, Take, Receipt, Idle
<1>2. AccFrame
  BY <1>0, <1>1, AcceptFrame DEF Look, Acknowledge, Take, Receipt
<1>3. CASE Look(t) \/ Acknowledge(t)
  BY <1>2, <1>3 DEF Look, Acknowledge, CapFrame, RotFrame, HandFrame, Epoch
<1>4. CASE Take(t)
  BY <1>2, <1>4, TakeHands DEF Take, CapFrame, RotFrame, HandFrame, Epoch
<1>5. CASE Receipt(t)
  BY <1>2, <1>5 DEF Receipt, Master, CapFrame, RotFrame, HandFrame, Epoch
<1>. QED  BY <1>3, <1>4, <1>5

\* Time and failures.
LEMMA NatureFrames ==
    ASSUME LeadTypeOK,
           \/ \E s \in Session : SessionCrash(s)
           \/ LeaseExpires \/ HolderGone \/ LogLapses \/ GroundMoves
           \/ \E c \in Capsules : CapsuleLapses(c)
    PROVE  CapFrame /\ RotFrame /\ AccFrame /\ HandFrame
<1>1. ASSUME NEW s \in Session, SessionCrash(s)
      PROVE  CapFrame /\ RotFrame /\ AccFrame /\ HandFrame
  <2>1. RotFrame
    BY <1>1 DEF SessionCrash, LeadTypeOK, RotFrame
  <2>2. CASE acc' = [acc EXCEPT ![s] = Idle]
    BY <1>1, <2>1, <2>2 DEF SessionCrash, LeadTypeOK, CapFrame, AccFrame, HandFrame, Epoch
  <2>3. CASE acc[s] # Idle /\ acc' = [acc EXCEPT ![s].at = "started"]
    <3>1. acc[s] \in [at : AccAt, cap : Capsules]
      BY <2>3 DEF LeadTypeOK
    <3>2. acc'[s] = [acc[s] EXCEPT !.at = "started"]
      BY <2>3 DEF LeadTypeOK
    <3>3. acc'[s].at = "started" /\ acc'[s].cap = acc[s].cap
      BY <3>1, <3>2
    <3>4. \A x \in Session : x # s => acc'[x] = acc[x]
      BY <2>3 DEF LeadTypeOK
    <3>5. AccFrame
      BY <2>3, <3>3, <3>4 DEF AccFrame
    <3>. QED  BY <1>1, <2>1, <3>5 DEF SessionCrash, CapFrame, HandFrame, Epoch
  <2>. QED  BY <1>1, <2>2, <2>3 DEF SessionCrash
<1>2. CASE LeaseExpires
  <2>1. /\ lease'.released = lease.released /\ lease'.epoch = lease.epoch
        /\ lease'.successor = lease.successor
    BY <1>2 DEF LeaseExpires, LeadTypeOK, Lease
  <2>. QED  BY <1>2, <2>1 DEF LeaseExpires, CapFrame, RotFrame, AccFrame, HandFrame, Epoch
<1>3. CASE HolderGone
  <2>1. /\ lease'.released = lease.released /\ lease'.epoch = lease.epoch
        /\ lease'.successor = lease.successor
    BY <1>3 DEF HolderGone, LeadTypeOK, Lease
  <2>. QED  BY <1>3, <2>1 DEF HolderGone, CapFrame, RotFrame, AccFrame, HandFrame, Epoch
<1>4. CASE LogLapses
  BY <1>4 DEF LogLapses, CapFrame, RotFrame, AccFrame, HandFrame, Epoch
<1>5. ASSUME NEW c \in Capsules, CapsuleLapses(c)
      PROVE  CapFrame /\ RotFrame /\ AccFrame /\ HandFrame
  <2>0. capsules[c] \in Capsule /\ capsules[c] # NoCapsule
    BY <1>5 DEF CapsuleLapses, LeadTypeOK
  <2>1. capsules'[c] = [capsules[c] EXCEPT !.late = TRUE]
    BY <1>5 DEF CapsuleLapses, LeadTypeOK
  <2>2. /\ capsules'[c] \in Capsule
        /\ capsules'[c].epoch = capsules[c].epoch /\ capsules'[c].facts = capsules[c].facts
    BY <2>0, <2>1 DEF Capsule
  <2>3. \A d \in Capsules : d # c => capsules'[d] = capsules[d]
    BY <1>5 DEF CapsuleLapses, LeadTypeOK
  <2>4. CapFrame
    BY <2>0, <2>2, <2>3, LeadershipAssumption DEF CapFrame, LeadershipAssumption
  <2>. QED  BY <1>5, <2>4 DEF CapsuleLapses, RotFrame, AccFrame, HandFrame, Epoch
<1>6. CASE GroundMoves
  BY <1>6 DEF GroundMoves, CapFrame, RotFrame, AccFrame, HandFrame, Epoch
<1>. QED  BY <1>1, <1>2, <1>3, <1>4, <1>5, <1>6

-----------------------------------------------------------------------------
(* The four steps that leave a frame.                                      *)

\* A rotation starts with an id that nobody ever used.
LEMMA StartKeeps ==
    ASSUME LeadTypeOK, TakenInv, NEW s \in Session, NEW c \in Capsules, StartRollover(s, c)
    PROVE  FrozenInv'
<1>1. CapFrame /\ AccFrame /\ HandFrame
  BY DEF StartRollover, CapFrame, AccFrame, HandFrame, Epoch
<1>2. CASE UNCHANGED rot
  BY <1>1, <1>2, FrameKeeps DEF RotFrame
<1>3. CASE rot' = [rot EXCEPT ![s] = [at |-> "draining", cap |-> c]]
  <2>1. capsules[c] = NoCapsule /\ \A x \in Session : rot[x].cap # c
    BY DEF StartRollover, UsedIds
  <2>2. rot'[s] = [at |-> "draining", cap |-> c] /\ \A x \in Session : x # s => rot'[x] = rot[x]
    BY <1>3 DEF LeadTypeOK
  <2>3. capsules' = capsules
    BY DEF StartRollover
  <2>4. OneFreezes'
    BY <2>1, <2>2, <2>3 DEF OneFreezes, TakenInv
  <2>5. RotatesFrozen'
    BY <2>2, <2>3 DEF RotatesFrozen, TakenInv
  <2>. QED
    BY <1>1, <2>4, <2>5, CapsulesStayPast, AcceptsKeep, GoKeeps DEF TakenInv, FrozenInv
<1>. QED  BY <1>2, <1>3 DEF StartRollover

\* A capsule is frozen once, by the one rotation that has its id, for the epoch of now.
LEMMA FreezeKeeps ==
    ASSUME LeadTypeOK, TakenInv, NEW s \in Session, NEW t \in Session, Freeze(s, t)
    PROVE  FrozenInv'
<1>. DEFINE c == rot[s].cap
<1>1. AccFrame /\ HandFrame
  BY DEF Freeze, AccFrame, HandFrame, Epoch
<1>2. rot[s] \in [at : RotAt, cap : Capsules] /\ rot[s].at = "draining" /\ c \in Capsules
  BY DEF Freeze, LeadTypeOK, Idle
<1>3. CASE ~Master(s)
  <2>1. CapFrame
    BY <1>3 DEF Freeze, CapFrame
  <2>2. RotFrame
    BY <1>3, AbortFrame DEF Freeze
  <2>. QED  BY <1>1, <2>1, <2>2, FrameKeeps
<1>4. CASE Master(s)
  <2>. DEFINE k == [pred |-> s, epoch |-> handle[s], succ |-> t, facts |-> project.facts,
                    late |-> FALSE]
  <2>1. capsules' = [capsules EXCEPT ![c] = k]
    BY <1>4 DEF Freeze
  <2>2. k \in Capsule /\ k.epoch = Epoch /\ Epoch \in Nat
    BY <1>4 DEF Master, Authority, LeadTypeOK, Capsule, Epoch
  <2>3. k # NoCapsule
    BY <2>2, LeadershipAssumption DEF LeadershipAssumption
  <2>. HIDE DEF k
  <2>4. capsules'[c] = k /\ \A d \in Capsules : d # c => capsules'[d] = capsules[d]
    BY <1>2, <2>1 DEF LeadTypeOK
  <2>. HIDE DEF c
  <2>5. Epoch' = Epoch
    BY DEF Freeze, Epoch
  <2>6. CapsulesArePast'
    BY <2>2, <2>4, <2>5 DEF CapsulesArePast, TakenInv
  <2>7. capsules[c] = NoCapsule /\ \A x \in Session : x # s /\ rot[x] # Idle => rot[x].cap # c
    BY <1>2 DEF OneFreezes, TakenInv, c
  <2>8. \A x \in Session : acc[x] # Idle => acc[x].cap \in Capsules /\ acc[x].cap # c
    BY <2>7 DEF AcceptsFrozen, TakenInv, LeadTypeOK
  <2>9. acc' = acc /\ lease' = lease /\ given' = given
    BY DEF Freeze
  <2>10. AcceptsFrozen'
    BY <2>4, <2>8, <2>9 DEF AcceptsFrozen, TakenInv
  <2>11. GoStands'
    <3>1. SUFFICES ASSUME NEW x \in Session, acc[x].at = "go",
                          capsules'[acc[x].cap].epoch = Epoch
                   PROVE  /\ lease.released /\ lease.epoch = Epoch
                          /\ lease.successor # NoSession
                          /\ given.facts = capsules'[acc[x].cap].facts
      BY <2>5, <2>9 DEF GoStands
    <3>2. acc[x].cap \in Capsules /\ acc[x].cap # c
      BY <2>8, <3>1 DEF Idle
    <3>. QED  BY <2>4, <3>1, <3>2 DEF GoStands, TakenInv
  <2>12. /\ \A x \in Session : x # s => rot'[x] = rot[x]
         /\ rot'[s] \in {Idle, [at |-> "frozen", cap |-> c]}
    <3>1. Record(s, "frozen", "frozen") /\ rot[s] # Idle
      BY <1>2, <1>4 DEF Freeze, Idle
    <3>2. "frozen" \in Events /\ "frozen" \in RotAt
      BY DEF Events, Waiting, RotAt
    <3>. QED  BY <3>1, <3>2, RecordType, LeadershipAssumption DEF c
  <2>13. \A x \in Session : x # s /\ rot[x] # Idle => rot[x].cap \in Capsules
    BY DEF LeadTypeOK
  <2>14. OneFreezes'
    <3>1. SUFFICES ASSUME NEW x \in Session, rot'[x].at = "draining"
                   PROVE  /\ capsules'[rot'[x].cap] = NoCapsule
                          /\ \A y \in Session :
                                y # x /\ rot'[y] # Idle => rot'[y].cap # rot'[x].cap
      BY DEF OneFreezes
    <3>2. x # s /\ rot'[x] = rot[x] /\ rot[x] # Idle
      BY <2>12, <3>1 DEF Idle
    <3>3. /\ capsules[rot[x].cap] = NoCapsule
          /\ \A y \in Session : y # x /\ rot[y] # Idle => rot[y].cap # rot[x].cap
      BY <3>1, <3>2 DEF OneFreezes, TakenInv
    <3>4. rot[x].cap \in Capsules /\ rot[x].cap # c
      BY <2>7, <2>13, <3>2
    <3>. QED  BY <2>4, <2>12, <3>2, <3>3, <3>4
  <2>15. RotatesFrozen'
    <3>1. SUFFICES ASSUME NEW x \in Session, rot'[x].at \notin {"idle", "draining"}
                   PROVE  capsules'[rot'[x].cap] # NoCapsule
      BY DEF RotatesFrozen
    <3>2. CASE x = s
      BY <2>3, <2>4, <2>12, <3>1, <3>2 DEF Idle
    <3>3. CASE x # s
      <4>1. rot'[x] = rot[x] /\ rot[x] # Idle
        BY <2>12, <3>1, <3>3 DEF Idle
      <4>2. rot[x].cap \in Capsules /\ rot[x].cap # c
        BY <2>7, <2>13, <3>3, <4>1
      <4>. QED  BY <2>4, <3>1, <4>1, <4>2 DEF RotatesFrozen, TakenInv
    <3>. QED  BY <3>2, <3>3
  <2>. QED  BY <2>6, <2>10, <2>11, <2>14, <2>15 DEF FrozenInv
<1>. QED  BY <1>3, <1>4

\* A successor is launched with a capsule that is frozen.
LEMMA LaunchKeeps ==
    ASSUME LeadTypeOK, TakenInv, NEW s \in Session, Launch(s)
    PROVE  FrozenInv'
<1>. DEFINE c == rot[s].cap
<1>1. CapFrame /\ HandFrame
  BY DEF Launch, CapFrame, HandFrame, Epoch
<1>2. rot[s] \in [at : RotAt, cap : Capsules] /\ capsules[c] # NoCapsule
  BY DEF Launch, LeadTypeOK, Idle, RotatesFrozen, TakenInv
<1>3. RotFrame
  <2>1. "launched" \in RotAt \ {"draining"}
    BY DEF RotAt
  <2>. QED  BY <2>1, AbortFrame, RecordFrame DEF Launch
<1>4. CASE UNCHANGED acc
  BY <1>1, <1>3, <1>4, FrameKeeps DEF AccFrame
<1>5. CASE acc' = [acc EXCEPT ![capsules[c].succ] = [at |-> "started", cap |-> c]]
  <2>1. \A t \in Session : acc'[t] \in {acc[t], [at |-> "started", cap |-> c]}
    BY <1>5 DEF LeadTypeOK
  <2>2. capsules' = capsules /\ Epoch' = Epoch /\ lease' = lease /\ given' = given
    BY DEF Launch, Epoch
  <2>3. AcceptsFrozen'
    BY <1>2, <2>1, <2>2 DEF AcceptsFrozen, TakenInv
  <2>4. GoStands'
    BY <2>1, <2>2 DEF GoStands, TakenInv
  <2>. QED  BY <1>1, <1>3, <2>3, <2>4, CapsulesStayPast, RotationsKeep DEF TakenInv, FrozenInv
<1>. QED  BY <1>4, <1>5 DEF Launch

\* A successor goes on only with a handover it has derived again.
LEMMA PollKeeps ==
    ASSUME LeadTypeOK, TakenInv, NEW t \in Session, Poll(t)
    PROVE  FrozenInv'
<1>. DEFINE c == acc[t].cap
<1>1. CapFrame /\ RotFrame /\ HandFrame
  BY DEF Poll, CapFrame, RotFrame, HandFrame, Epoch
<1>2. acc[t] # Idle
  BY DEF Poll, Idle
<1>3. CASE Accept(t, "out")
  <2>1. AccFrame
    BY <1>2, <1>3, AcceptFrame
  <2>. QED  BY <1>1, <2>1, FrameKeeps
<1>4. CASE VerifiedHandover(c) /\ Accept(t, "go")
  <2>1. /\ \A x \in Session : x # t => acc'[x] = acc[x]
        /\ acc'[t] = [at |-> "go", cap |-> c]
    <3>1. "go" \in AccAt \cup {"out"} /\ "go" # "out"
      BY DEF AccAt
    <3>. QED  BY <1>2, <1>4, <3>1, AcceptType
  <2>2. capsules' = capsules /\ Epoch' = Epoch /\ lease' = lease /\ given' = given
    BY DEF Poll, Epoch
  <2>3. AcceptsFrozen'
    BY <1>2, <2>1, <2>2 DEF AcceptsFrozen, TakenInv
  <2>4. /\ lease # NoLease /\ lease.released /\ lease.epoch = Epoch
        /\ lease.successor = capsules[c].succ /\ capsules[c].epoch = Epoch
        /\ project.facts = capsules[c].facts
    BY <1>4 DEF VerifiedHandover, Bound, Handed
  <2>6. c \in Capsules /\ capsules[c] # NoCapsule /\ capsules[c] \in Capsule
    BY <1>2 DEF AcceptsFrozen, TakenInv, LeadTypeOK
  <2>7. lease.successor # NoSession
    BY <2>4, <2>6, LeadershipAssumption DEF LeadershipAssumption, Capsule
  <2>8. capsules[c].facts <= given.facts /\ given.facts <= project.facts
    BY <2>4, <2>6, <2>7 DEF GivenStands, FactsArePast, TakenInv
  <2>9. given.facts \in Nat /\ project.facts \in Nat
    BY DEF LeadTypeOK
  <2>10. given.facts = capsules[c].facts
    BY <2>4, <2>8, <2>9
  <2>5. GoStands'
    BY <2>1, <2>2, <2>4, <2>7, <2>10 DEF GoStands, TakenInv
  <2>. QED  BY <1>1, <2>3, <2>5, CapsulesStayPast, RotationsKeep DEF TakenInv, FrozenInv
<1>. QED  BY <1>3, <1>4 DEF Poll

-----------------------------------------------------------------------------
(* What was given.                                                         *)

\* A step does nothing to the lease, the project and what was given, or one of these.
Quiet == UNCHANGED <<chain, lease, given, project>>
Flagged ==
    /\ lease # NoLease /\ UNCHANGED <<chain, given, project>>
    /\ lease' \in {[lease EXCEPT !.fresh = TRUE], [lease EXCEPT !.fresh = FALSE],
                   [lease EXCEPT !.gone = TRUE], [lease EXCEPT !.released = TRUE]}
Begun == UNCHANGED project /\ \E s \in Session : TakeLease(s) \/ TakeTorn(s)
Gave ==
    /\ UNCHANGED <<chain, project>>
    /\ \E s, t \in Session : Master(s) /\ GiveTo(t)
Saved == UNCHANGED <<chain, lease, given>> /\ \E s \in Session : Save(s)
Moved == UNCHANGED <<chain, lease, given>> /\ GroundMoves

LEMMA StepKinds ==
    ASSUME LeadTypeOK, TakenInv, LeadNext
    PROVE  Quiet \/ Flagged \/ Begun \/ Gave \/ Saved \/ Moved
<1>1. ASSUME NEW s \in Session,
             \/ Acquire(s) \/ Renew(s) \/ Release(s) \/ Save(s)
             \/ \E t \in Session : HandoffTo(s, t)
             \/ \E c \in Capsules : StartRollover(s, c)
      PROVE  Quiet \/ Flagged \/ Begun \/ Gave \/ Saved
  BY <1>1 DEF Acquire, Renew, Release, ReleaseLease, Save, HandoffTo, StartRollover, Master,
     Quiet, Flagged, Begun, Gave, Saved
<1>2. ASSUME NEW s \in Session, Handover(s) PROVE Quiet \/ Gave
  <2>0. rot[s].at = "ack" /\ rot[s] \in {Idle} \cup [at : RotAt, cap : Capsules]
    BY <1>2 DEF Handover, LeadTypeOK
  <2>1. rot[s].cap \in Capsules /\ capsules[rot[s].cap] # NoCapsule
    BY <2>0 DEF Idle, RotatesFrozen, TakenInv
  <2>2. capsules[rot[s].cap].succ \in Session
    <3>1. capsules[rot[s].cap] \in Capsule
      BY <2>1 DEF LeadTypeOK
    <3>. QED  BY <3>1 DEF Capsule
  <2>. QED  BY <1>2, <2>2 DEF Handover, Quiet, Gave
<1>3. ASSUME NEW s \in Session,
             \/ \E t \in Session : Freeze(s, t)
             \/ Launch(s) \/ AwaitAck(s) \/ RecordHandover(s) \/ Watch(s) \/ Reclaim(s)
      PROVE  Quiet \/ Flagged \/ Begun
  BY <1>3 DEF Freeze, Launch, AwaitAck, RecordHandover, Watch, Reclaim, Master,
     Quiet, Flagged, Begun
<1>4. ASSUME NEW t \in Session, SuccessorStep(t) PROVE Quiet \/ Flagged \/ Begun
  BY <1>4 DEF SuccessorStep, Look, Acknowledge, Poll, Take, Receipt, ReleaseLease, Master,
     Quiet, Flagged, Begun
<1>5. CASE \/ \E s \in Session : SessionCrash(s)
           \/ LeaseExpires \/ HolderGone \/ LogLapses \/ GroundMoves
           \/ \E c \in Capsules : CapsuleLapses(c)
  BY <1>5 DEF SessionCrash, LeaseExpires, HolderGone, LogLapses, GroundMoves, CapsuleLapses,
     Quiet, Flagged, Moved
<1>. QED  BY <1>1, <1>2, <1>3, <1>4, <1>5 DEF LeadNext, RolloverStep

\* A capsule that is new binds the ground of now, and then the lease names no successor.
CapStep ==
    \A c \in Capsules :
       \/ capsules'[c] = capsules[c]
       \/ /\ capsules[c] # NoCapsule
          /\ capsules'[c].epoch = capsules[c].epoch /\ capsules'[c].facts = capsules[c].facts
       \/ /\ capsules'[c].facts = project.facts /\ UNCHANGED <<lease, given, project>>
          /\ lease # NoLease /\ lease.successor = NoSession

LEMMA FreezeCaps ==
    ASSUME LeadTypeOK, TakenInv, NEW s \in Session, NEW t \in Session, Freeze(s, t)
    PROVE  CapStep
<1>. DEFINE c == rot[s].cap
            k == [pred |-> s, epoch |-> handle[s], succ |-> t, facts |-> project.facts,
                  late |-> FALSE]
<1>1. CASE ~Master(s)
  BY <1>1 DEF Freeze, CapStep
<1>2. CASE Master(s)
  <2>1. capsules' = [capsules EXCEPT ![c] = k] /\ UNCHANGED <<lease, given, project>>
    BY <1>2 DEF Freeze
  <2>2. lease # NoLease /\ lease.successor = NoSession
    BY <1>2 DEF Master, GivenStands, TakenInv
  <2>3. k.facts = project.facts
    OBVIOUS
  <2>. HIDE DEF k, c
  <2>4. \A d \in Capsules : capsules'[d] \in {capsules[d], k}
    BY <2>1 DEF LeadTypeOK
  <2>. QED  BY <2>1, <2>2, <2>3, <2>4 DEF CapStep
<1>. QED  BY <1>1, <1>2

LEMMA FactsKeep ==
    ASSUME LeadTypeOK, TakenInv, CapStep,
           Quiet \/ Flagged \/ Begun \/ Gave \/ Saved \/ Moved
    PROVE  FactsArePast'
<1>1. project.facts \in Nat /\ given.facts <= project.facts /\ given.facts \in Nat
  BY DEF LeadTypeOK, FactsArePast, TakenInv
<1>2. project'.facts \in Nat /\ project.facts <= project'.facts
  <2>1. CASE UNCHANGED project
    BY <1>1, <2>1
  <2>2. CASE Saved
    BY <1>1, <2>2, SaveType DEF Saved
  <2>3. CASE Moved
    BY <1>1, <2>3, MoveType DEF Moved
  <2>. QED  BY <2>1, <2>2, <2>3 DEF Quiet, Flagged, Begun, Gave
<1>3. given'.facts <= project'.facts
  <2>1. CASE UNCHANGED given
    BY <1>1, <1>2, <2>1
  <2>2. CASE Begun
    <3>1. given' = given \/ given' = NotGiven
      BY <2>2 DEF Begun, TakeLease, TakeTorn
    <3>. QED  BY <1>1, <1>2, <3>1 DEF NotGiven
  <2>3. CASE Gave
    <3>0. given' = [saves |-> project.saves, facts |-> project.facts]
      BY <2>3 DEF Gave, GiveTo
    <3>1. given'.facts = project.facts
      BY <3>0
    <3>. QED  BY <1>1, <1>2, <3>1
  <2>. QED  BY <2>1, <2>2, <2>3 DEF Quiet, Flagged, Saved, Moved
<1>4. ASSUME NEW c \in Capsules, capsules'[c] # NoCapsule
      PROVE  capsules'[c].facts <= project'.facts
  <2>1. \/ capsules'[c].facts = project.facts
        \/ capsules[c] # NoCapsule /\ capsules'[c].facts = capsules[c].facts
    BY <1>4 DEF CapStep
  <2>2. ASSUME capsules[c] # NoCapsule
        PROVE  capsules[c].facts \in Nat /\ capsules[c].facts <= project.facts
    <3>1. capsules[c] \in Capsule
      BY <2>2 DEF LeadTypeOK
    <3>. QED  BY <2>2, <3>1 DEF Capsule, FactsArePast, TakenInv
  <2>. QED  BY <1>1, <1>2, <2>1, <2>2
<1>. QED  BY <1>3, <1>4 DEF FactsArePast

LEMMA GivenKeeps ==
    ASSUME LeadTypeOK, TakenInv, CapStep,
           Quiet \/ Flagged \/ Begun \/ Gave \/ Saved \/ Moved
    PROVE  GivenStands'
<1>0. Epoch \in Nat
  BY DEF LeadTypeOK, Epoch
<1>. SUFFICES ASSUME lease' # NoLease, lease'.successor # NoSession
              PROVE  /\ lease'.released /\ lease'.epoch <= Epoch'
                     /\ lease'.epoch = Epoch' =>
                          /\ project'.saves = given'.saves
                          /\ \A c \in Capsules :
                               capsules'[c] # NoCapsule /\ capsules'[c].epoch = Epoch'
                                 => capsules'[c].facts <= given'.facts
  BY DEF GivenStands
<1>1. CASE Gave
  <2>1. PICK s \in Session, t \in Session : Master(s) /\ GiveTo(t)
    BY <1>1 DEF Gave
  <2>2. lease \in Lease /\ lease.epoch = Epoch /\ Epoch' = Epoch /\ UNCHANGED project
    BY <1>1, <2>1 DEF Gave, Master, Authority, LeadTypeOK, Epoch
  <2>3. lease'.released /\ lease'.epoch = Epoch
    BY <2>1, <2>2 DEF GiveTo, Lease
  <2>4. given'.saves = project.saves /\ given'.facts = project.facts
    BY <2>1 DEF GiveTo
  <2>5. FactsArePast'
    BY FactsKeep, <1>1
  <2>. QED  BY <1>0, <2>2, <2>3, <2>4, <2>5 DEF FactsArePast
<1>2. CASE Begun
  <2>1. PICK s \in Session : TakeLease(s) \/ TakeTorn(s)
    BY <1>2 DEF Begun
  <2>2. TakeTorn(s)
    BY <2>1 DEF TakeLease
  <2>3. Epoch' = Epoch + 1 /\ lease' = lease
    BY <2>2, BeginType DEF TakeTorn, Epoch
  <2>4. lease \in Lease /\ lease.released /\ lease.epoch <= Epoch
    BY <2>3 DEF GivenStands, TakenInv, LeadTypeOK
  <2>5. lease.epoch \in Nat
    BY <2>4 DEF Lease
  <2>. QED  BY <1>0, <2>3, <2>4, <2>5
<1>3. CASE Quiet \/ Flagged \/ Saved \/ Moved
  <2>1. Epoch' = Epoch /\ given' = given
    BY <1>3 DEF Quiet, Flagged, Saved, Moved, Epoch
  <2>2. lease # NoLease /\ lease \in Lease
    BY <1>3 DEF Quiet, Flagged, Saved, Moved, LeadTypeOK
  <2>3. /\ lease'.successor = lease.successor /\ lease'.epoch = lease.epoch
        /\ lease.released => lease'.released
    BY <1>3, <2>2 DEF Quiet, Flagged, Saved, Moved, Lease
  <2>4. /\ lease.released /\ lease.epoch <= Epoch
        /\ lease.epoch = Epoch =>
             /\ project.saves = given.saves
             /\ \A c \in Capsules : capsules[c] # NoCapsule /\ capsules[c].epoch = Epoch
                   => capsules[c].facts <= given.facts
    BY <2>2, <2>3 DEF GivenStands, TakenInv
  <2>5. project'.saves = project.saves
    BY <1>3, <2>4 DEF Quiet, Flagged, Saved, Moved, Save, Master, GroundMoves, LeadTypeOK
  <2>6. \A c \in Capsules :
           \/ capsules'[c] = capsules[c]
           \/ /\ capsules[c] # NoCapsule
              /\ capsules'[c].epoch = capsules[c].epoch
              /\ capsules'[c].facts = capsules[c].facts
    BY <2>3 DEF CapStep
  <2>. QED  BY <2>1, <2>3, <2>4, <2>5, <2>6
<1>. QED  BY <1>1, <1>2, <1>3

-----------------------------------------------------------------------------
(* Which steps take over, and which save.                                  *)

\* A successor that goes on to the takeover found the handover as it was verified.
LEMMA TookIsTaken ==
    ASSUME LeadTypeOK, TakenInv, LeadNext, NEW t \in Session,
           acc[t].at = "go", acc'[t].at = "took"
    PROVE  HandoverStands(t, acc[t].cap)
<1>0. acc[t] # Idle /\ acc' # acc
  BY DEF Idle
<1>1. ASSUME NEW u \in Session, SuccessorStep(u) PROVE HandoverStands(t, acc[t].cap)
  <2>1. acc[u] # Idle
    BY <1>1 DEF SuccessorStep, Look, Acknowledge, Poll, Take, Receipt, Idle
  <2>2. CASE Take(u)
    <3>1. CASE u = t
      <4>1. ~Accept(t, "out")
        <5>1. SUFFICES ASSUME Accept(t, "out") PROVE FALSE
          OBVIOUS
        <5>2. acc' = [acc EXCEPT ![t] = Idle]
          BY <5>1 DEF Accept
        <5>. QED  BY <5>2 DEF LeadTypeOK, Idle
      <4>. QED  BY <2>2, <3>1, <4>1 DEF Take
    <3>2. CASE u # t
      BY <2>1, <2>2, <3>2, AcceptType DEF Take, AccAt
    <3>. QED  BY <3>1, <3>2
  <2>3. CASE ~Take(u)
    <3>1. PICK next \in {"out", "sure", "unsure", "acked", "go"} : Accept(u, next)
      BY <1>1, <2>3 DEF SuccessorStep, Look, Acknowledge, Poll, Receipt
    <3>2. next \in AccAt \cup {"out"} /\ next # "took"
      BY <3>1 DEF AccAt
    <3>3. acc'[u] = IF next = "out" THEN Idle ELSE [at |-> next, cap |-> acc[u].cap]
      BY <2>1, <3>1, <3>2, AcceptType
    <3>4. acc'[u].at # "took" \/ u # t
      BY <3>2, <3>3 DEF Idle
    <3>5. \A x \in Session : x # u => acc'[x] = acc[x]
      BY <2>1, <3>1, <3>2, AcceptType
    <3>. QED  BY <3>4, <3>5
  <2>. QED  BY <2>2, <2>3
<1>2. CASE \E s \in Session : Launch(s)
  <2>1. acc'[t] \in {acc[t]} \cup [at : {"started"}, cap : {rot[s].cap : s \in Session}]
    BY <1>2 DEF Launch, LeadTypeOK
  <2>. QED  BY <2>1
<1>3. CASE \E s \in Session : AwaitAck(s) \/ Handover(s) \/ Reclaim(s)
  <2>1. acc'[t] \in {acc[t], Idle}
    BY <1>3 DEF AwaitAck, Handover, Reclaim, Stop
  <2>. QED  BY <2>1 DEF Idle
<1>4. CASE \E s \in Session : SessionCrash(s)
  <2>1. PICK s \in Session : SessionCrash(s)
    BY <1>4
  <2>2. acc' \in {[acc EXCEPT ![s] = Idle], [acc EXCEPT ![s].at = "started"]}
    BY <2>1 DEF SessionCrash
  <2>3. acc'[t] \in {acc[t], Idle, [acc[t] EXCEPT !.at = "started"]}
    <3>1. CASE acc' = [acc EXCEPT ![s] = Idle]
      BY <3>1 DEF LeadTypeOK
    <3>2. CASE acc' = [acc EXCEPT ![s].at = "started"]
      BY <3>2 DEF LeadTypeOK
    <3>. QED  BY <2>2, <3>1, <3>2
  <2>4. acc[t] \in [at : AccAt, cap : Capsules]
    BY <1>0 DEF LeadTypeOK
  <2>5. [acc[t] EXCEPT !.at = "started"].at = "started"
    BY <2>4
  <2>6. Idle.at # "took" /\ acc[t].at # "took"
    BY DEF Idle
  <2>. HIDE DEF Idle
  <2>. QED  BY <2>3, <2>5, <2>6
<1>. QED
  BY <1>0, <1>1, <1>2, <1>3, <1>4
     DEF LeadNext, RolloverStep, Acquire, Renew, Release, Save, HandoffTo, StartRollover,
         Freeze, RecordHandover, Watch, LeaseExpires, HolderGone, LogLapses, GroundMoves,
         CapsuleLapses

\* The project is saved by a save.
LEMMA OnlySaves ==
    ASSUME LeadTypeOK, TakenInv, LeadNext, project'.saves # project.saves
    PROVE  \E s \in Session : Save(s)
<1>1. ~GroundMoves
  BY MoveType
<1>. QED  BY <1>1, StepKinds DEF Quiet, Flagged, Begun, Gave, Saved, Moved

-----------------------------------------------------------------------------
(* Receipts.  Most steps leave what a receipt says as it is.               *)

ChainGrows ==
    /\ Epoch \in Nat /\ Epoch' \in Nat /\ Epoch <= Epoch'
    /\ \A e \in 1..Epoch : chain'[e] = chain[e]
\* No capsule is frozen, and none changes whom it binds.
BoundFrame ==
    \A c \in Capsules :
       \/ capsules'[c] = capsules[c]
       \/ /\ capsules[c] # NoCapsule /\ capsules'[c] # NoCapsule
          /\ capsules'[c].epoch = capsules[c].epoch
          /\ capsules'[c].pred = capsules[c].pred /\ capsules'[c].succ = capsules[c].succ
\* No successor is launched, and none takes over.
TookFrame ==
    \A t \in Session :
       \/ acc'[t] \in {Idle, acc[t]}
       \/ acc[t] # Idle /\ acc'[t].cap = acc[t].cap /\ acc'[t].at # "took"

LEMMA SameChain == ASSUME LeadTypeOK, UNCHANGED chain PROVE ChainGrows
BY DEF LeadTypeOK, ChainGrows, Epoch

LEMMA BeginGrows == ASSUME LeadTypeOK, NEW s \in Session, Begin(s) PROVE ChainGrows
<1>1. ReasonOf(s) \in Reasons
  BY DEF ReasonOf, Reasons
<1>. QED  BY <1>1 DEF Begin, LeadTypeOK, ChainGrows, Epoch

\* What is in the chain stays in it.
LEMMA TookOverStays ==
    ASSUME LeadTypeOK, ChainGrows, BoundFrame, NEW c \in Capsules, TookOver(c)
    PROVE  TookOver(c)'
<1>1. capsules[c].epoch \in Nat /\ capsules[c].epoch + 1 \in 1..Epoch
  BY DEF TookOver, LeadTypeOK, Capsule, ChainGrows
<1>2. /\ capsules'[c] # NoCapsule /\ capsules'[c].epoch = capsules[c].epoch
      /\ capsules'[c].succ = capsules[c].succ
  BY DEF TookOver, BoundFrame
<1>. QED  BY <1>1, <1>2 DEF TookOver, ChainGrows

LEMMA CapsulesStayInChain ==
    ASSUME LeadTypeOK, ChainGrows, BoundFrame, CapsulesInChain
    PROVE  CapsulesInChain'
<1>1. SUFFICES ASSUME NEW c \in Capsules, capsules'[c] # NoCapsule
               PROVE  /\ capsules'[c].epoch \in 1..Epoch'
                      /\ chain'[capsules'[c].epoch].master = capsules'[c].pred
  BY DEF CapsulesInChain
<1>2. /\ capsules[c] # NoCapsule /\ capsules'[c].epoch = capsules[c].epoch
      /\ capsules'[c].pred = capsules[c].pred
  BY <1>1 DEF BoundFrame
<1>. QED  BY <1>2 DEF CapsulesInChain, ChainGrows

LEMMA AcceptsStay ==
    ASSUME LeadTypeOK, AcceptsFrozen, AcceptsOwn, TakersTookOver, ChainGrows, BoundFrame,
           TookFrame
    PROVE  AcceptsOwn' /\ TakersTookOver'
<1>1. ASSUME NEW t \in Session, acc'[t] # Idle
      PROVE  /\ acc[t] # Idle /\ acc'[t].cap = acc[t].cap /\ acc[t].cap \in Capsules
             /\ acc'[t].at = "took" => acc[t].at = "took"
  BY <1>1 DEF TookFrame, LeadTypeOK
<1>2. ASSUME NEW t \in Session, acc'[t] # Idle PROVE capsules'[acc'[t].cap].succ = t
  <2>1. capsules[acc[t].cap] # NoCapsule /\ capsules[acc[t].cap].succ = t
    BY <1>1, <1>2 DEF AcceptsFrozen, AcceptsOwn
  <2>. QED  BY <1>1, <1>2, <2>1 DEF BoundFrame
<1>3. ASSUME NEW t \in Session, acc'[t].at = "took" PROVE TookOver(acc[t].cap)'
  <2>1. acc'[t] # Idle
    BY <1>3 DEF Idle
  <2>. QED  BY <1>1, <1>3, <2>1, TookOverStays DEF TakersTookOver
<1>4. \A t \in Session : acc'[t].at = "took" => acc'[t].cap = acc[t].cap
  BY <1>1 DEF Idle
<1>5. TakersTookOver'
  <2>1. SUFFICES ASSUME NEW t \in Session, acc'[t].at = "took"
                 PROVE  TookOver(acc[t].cap)'
    BY <1>4 DEF TakersTookOver, TookOver
  <2>. QED  BY <1>3, <2>1
<1>. QED  BY <1>2, <1>5 DEF AcceptsOwn

LEMMA ReceiptsStay ==
    ASSUME LeadTypeOK, ReceiptInv, ChainGrows, BoundFrame, UNCHANGED receipts
    PROVE  \A c \in receipts' : TookOver(c)'
BY TookOverStays DEF ReceiptInv, LeadTypeOK

\* A step that keeps to the frames keeps the invariant.
LEMMA ReceiptFrames ==
    ASSUME LeadTypeOK, AcceptsFrozen, ReceiptInv, ChainGrows, BoundFrame, TookFrame,
           UNCHANGED receipts
    PROVE  ReceiptInv'
BY CapsulesStayInChain, AcceptsStay, ReceiptsStay DEF ReceiptInv

\* A step of a successor that does not take over.
LEMMA AcceptTook ==
    ASSUME LeadTypeOK, NEW t \in Session, acc[t] # Idle,
           NEW next \in {"out", "sure", "unsure", "acked", "go"}, Accept(t, next)
    PROVE  TookFrame
<1>1. next \in AccAt \cup {"out"} /\ next # "took"
  BY DEF AccAt
<1>2. /\ \A x \in Session : x # t => acc'[x] = acc[x]
      /\ acc'[t] = IF next = "out" THEN Idle ELSE [at |-> next, cap |-> acc[t].cap]
  BY <1>1, AcceptType
<1>. QED  BY <1>1, <1>2 DEF TookFrame

LEMMA StopTook == ASSUME LeadTypeOK, NEW c, Stop(c) PROVE TookFrame
BY DEF Stop, TookFrame

\* The steps that keep to the frames: the master's, the predecessor's but for the freeze and
\* the launch ...
LEMMA PredecessorReceipts ==
    ASSUME LeadTypeOK, NEW s \in Session,
           \/ Acquire(s) \/ Renew(s) \/ Release(s) \/ Save(s)
           \/ \E t \in Session : HandoffTo(s, t)
           \/ \E c \in Capsules : StartRollover(s, c)
           \/ AwaitAck(s) \/ Handover(s) \/ RecordHandover(s) \/ Watch(s) \/ Reclaim(s)
    PROVE  ChainGrows /\ BoundFrame /\ TookFrame /\ UNCHANGED receipts
<1>1. UNCHANGED <<capsules, receipts>>
  BY DEF Acquire, Renew, Release, Save, HandoffTo, StartRollover, AwaitAck, Handover,
         RecordHandover, Watch, Reclaim
<1>2. ChainGrows
  BY SameChain, BeginGrows DEF Acquire, Renew, Release, Save, HandoffTo, StartRollover,
     AwaitAck, Handover, RecordHandover, Watch, Reclaim, TakeLease, TakeTorn
<1>3. TookFrame
  <2>1. CASE UNCHANGED acc
    BY <2>1 DEF TookFrame
  <2>2. CASE \E c : Stop(c)
    BY <2>2, StopTook
  <2>. QED  BY <2>1, <2>2 DEF Acquire, Renew, Release, Save, HandoffTo, StartRollover,
               AwaitAck, Handover, RecordHandover, Watch, Reclaim
<1>. QED  BY <1>1, <1>2, <1>3 DEF BoundFrame

\* ... the successor's but for the takeover and the receipt ...
LEMMA SuccessorReceipts ==
    ASSUME LeadTypeOK, NEW t \in Session, Look(t) \/ Acknowledge(t) \/ Poll(t)
    PROVE  ChainGrows /\ BoundFrame /\ TookFrame /\ UNCHANGED receipts
<1>1. UNCHANGED <<chain, capsules, receipts>> /\ acc[t] # Idle
  BY DEF Look, Acknowledge, Poll, Idle
<1>2. PICK next \in {"out", "sure", "unsure", "acked", "go"} : Accept(t, next)
  BY DEF Look, Acknowledge, Poll
<1>. QED  BY <1>1, <1>2, SameChain, AcceptTook DEF BoundFrame

\* ... and time and failures.
LEMMA NatureReceipts ==
    ASSUME LeadTypeOK,
           \/ \E s \in Session : SessionCrash(s)
           \/ LeaseExpires \/ HolderGone \/ LogLapses \/ GroundMoves
           \/ \E c \in Capsules : CapsuleLapses(c)
    PROVE  ChainGrows /\ BoundFrame /\ TookFrame /\ UNCHANGED receipts
<1>1. ChainGrows /\ UNCHANGED receipts
  BY SameChain
     DEF SessionCrash, LeaseExpires, HolderGone, LogLapses, GroundMoves, CapsuleLapses
<1>2. CASE LeaseExpires \/ HolderGone \/ LogLapses \/ GroundMoves
  BY <1>1, <1>2 
     DEF LeaseExpires, HolderGone, LogLapses, GroundMoves, BoundFrame, TookFrame
<1>3. CASE \E c \in Capsules : CapsuleLapses(c)
  <2>1. PICK c \in Capsules : CapsuleLapses(c)
    BY <1>3
  <2>2. capsules[c] \in Capsule /\ capsules[c] # NoCapsule
    BY <2>1 DEF CapsuleLapses, LeadTypeOK
  <2>3. capsules' = [capsules EXCEPT ![c].late = TRUE] /\ UNCHANGED acc
    BY <2>1 DEF CapsuleLapses
  <2>4. capsules'[c] = [capsules[c] EXCEPT !.late = TRUE]
    BY <2>3 DEF LeadTypeOK
  <2>5. /\ capsules'[c] \in Capsule /\ capsules'[c].epoch = capsules[c].epoch
        /\ capsules'[c].pred = capsules[c].pred /\ capsules'[c].succ = capsules[c].succ
    BY <2>2, <2>4 DEF Capsule
  <2>6. \A d \in Capsules : d # c => capsules'[d] = capsules[d]
    BY <2>3 DEF LeadTypeOK
  <2>7. BoundFrame
    BY <2>2, <2>5, <2>6, LeadershipAssumption DEF BoundFrame, LeadershipAssumption
  <2>. QED  BY <1>1, <2>3, <2>7 DEF TookFrame
<1>4. CASE \E s \in Session : SessionCrash(s)
  <2>1. PICK s \in Session : SessionCrash(s)
    BY <1>4
  <2>2. CASE acc' = [acc EXCEPT ![s] = Idle]
    BY <1>1, <2>1, <2>2 DEF SessionCrash, LeadTypeOK, BoundFrame, TookFrame
  <2>3. CASE acc[s] # Idle /\ acc' = [acc EXCEPT ![s].at = "started"]
    <3>1. acc[s] \in [at : AccAt, cap : Capsules]
      BY <2>3 DEF LeadTypeOK
    <3>2. acc'[s] = [acc[s] EXCEPT !.at = "started"]
      BY <2>3 DEF LeadTypeOK
    <3>3. acc'[s].at = "started" /\ acc'[s].cap = acc[s].cap
      BY <3>1, <3>2
    <3>4. \A x \in Session : x # s => acc'[x] = acc[x]
      BY <2>3 DEF LeadTypeOK
    <3>5. TookFrame
      BY <2>3, <3>3, <3>4 DEF TookFrame
    <3>. QED  BY <1>1, <2>1, <3>5 DEF SessionCrash, BoundFrame
  <2>. QED  BY <2>1, <2>2, <2>3 DEF SessionCrash
<1>. QED  BY <1>2, <1>3, <1>4

\* A capsule is frozen by the master of the epoch it names.
LEMMA FreezeReceipts ==
    ASSUME LeadTypeOK, TakenInv, ReceiptInv, NEW s \in Session, NEW t \in Session, Freeze(s, t)
    PROVE  ReceiptInv'
<1>. DEFINE c == rot[s].cap
<1>1. ChainGrows /\ UNCHANGED <<acc, receipts, chain>>
  BY SameChain DEF Freeze
<1>2. CASE ~Master(s)
  BY <1>1, <1>2, ReceiptFrames DEF Freeze, BoundFrame, TookFrame, TakenInv
<1>3. CASE Master(s)
  <2>. DEFINE k == [pred |-> s, epoch |-> handle[s], succ |-> t, facts |-> project.facts,
                    late |-> FALSE]
  <2>1. capsules' = [capsules EXCEPT ![c] = k] /\ c \in Capsules /\ capsules[c] = NoCapsule
    BY <1>3 DEF Freeze, LeadTypeOK, Idle, OneFreezes, TakenInv
  <2>2. /\ k.pred = s /\ k.epoch = Epoch /\ Epoch \in 1..Epoch
        /\ chain[Epoch].master = s
    BY <1>3 DEF Master, Authority, LeadTypeOK, Epoch
  <2>. HIDE DEF k, c
  <2>3. capsules'[c] = k /\ \A d \in Capsules : d # c => capsules'[d] = capsules[d]
    BY <2>1 DEF LeadTypeOK
  <2>4. CapsulesInChain'
    <3>1. Epoch' = Epoch /\ chain' = chain
      BY <1>1 DEF Epoch
    <3>. QED  BY <2>2, <2>3, <3>1 DEF CapsulesInChain, ReceiptInv
  <2>5. \A d \in Capsules : capsules[d] # NoCapsule => capsules'[d] = capsules[d]
    BY <2>1, <2>3
  <2>6. AcceptsOwn'
    <3>1. \A x \in Session : acc[x] # Idle => /\ acc[x].cap \in Capsules
                                              /\ capsules[acc[x].cap] # NoCapsule
      BY DEF AcceptsFrozen, TakenInv, LeadTypeOK
    <3>. QED  BY <1>1, <2>5, <3>1 DEF AcceptsOwn, ReceiptInv
  <2>7. \A d \in Capsules : TookOver(d) => TookOver(d)'
    BY <1>1, <2>5 DEF TookOver, Epoch
  <2>8. \A x \in Session : acc[x].at = "took" => acc[x].cap \in Capsules
    BY DEF LeadTypeOK, Idle
  <2>9. TakersTookOver'
    <3>. SUFFICES ASSUME NEW x \in Session, acc'[x].at = "took"
                  PROVE  TookOver(acc[x].cap)'
      BY DEF TakersTookOver
    <3>1. acc'[x].cap = acc[x].cap /\ acc[x].cap \in Capsules /\ TookOver(acc[x].cap)
      BY <1>1, <2>8 DEF TakersTookOver, ReceiptInv
    <3>2. \A d \in Capsules : d = acc[x].cap => TookOver(d)'
      BY <2>7, <3>1
    <3>. QED  BY <3>1, <3>2 DEF TookOver
  <2>10. \A d \in receipts' : TookOver(d)'
    BY <1>1, <2>7 DEF ReceiptInv, LeadTypeOK
  <2>. QED  BY <2>4, <2>6, <2>9, <2>10 DEF ReceiptInv
<1>. QED  BY <1>2, <1>3

\* A successor is launched with the capsule that names it.
LEMMA LaunchReceipts ==
    ASSUME LeadTypeOK, TakenInv, ReceiptInv, NEW s \in Session, Launch(s)
    PROVE  ReceiptInv'
<1>. DEFINE c == rot[s].cap
<1>1. ChainGrows /\ BoundFrame /\ UNCHANGED <<capsules, receipts, chain>>
  BY SameChain DEF Launch, BoundFrame
<1>2. CASE UNCHANGED acc
  BY <1>1, <1>2, ReceiptFrames DEF TookFrame, TakenInv
<1>3. CASE acc' = [acc EXCEPT ![capsules[c].succ] = [at |-> "started", cap |-> c]]
  <2>1. c \in Capsules /\ capsules[c] # NoCapsule
    BY DEF Launch, LeadTypeOK, Idle, RotatesFrozen, TakenInv
  <2>2. \A x \in Session : \/ acc'[x] = acc[x] /\ x # capsules[c].succ
                           \/ x = capsules[c].succ /\ acc'[x] = [at |-> "started", cap |-> c]
    BY <1>3 DEF LeadTypeOK
  <2>. HIDE DEF c
  <2>3. AcceptsOwn'
    BY <1>1, <2>2 DEF AcceptsOwn, ReceiptInv
  <2>4. TakersTookOver'
    <3>1. \A x \in Session : acc'[x].at = "took" => acc'[x] = acc[x]
      BY <2>2
    <3>. QED  BY <1>1, <3>1 DEF TakersTookOver, ReceiptInv, TookOver, Epoch
  <2>. QED  BY <1>1, <2>3, <2>4, CapsulesStayInChain, ReceiptsStay DEF ReceiptInv
<1>. QED  BY <1>2, <1>3 DEF Launch

\* A takeover, under the lock, begins the epoch after the capsule's, by succession.
LEMMA TakeReceipts ==
    ASSUME LeadTypeOK, TakenInv, ReceiptInv, NEW t \in Session, Take(t)
    PROVE  ReceiptInv'
<1>. DEFINE c == acc[t].cap
<1>1. UNCHANGED <<capsules, receipts>> /\ BoundFrame
  BY DEF Take, BoundFrame
<1>2. ChainGrows
  BY SameChain, BeginGrows DEF Take, TakeLease, TakeTorn
<1>3. acc[t] # Idle /\ c \in Capsules /\ acc[t].at = "go"
  BY DEF Take, Idle, LeadTypeOK
<1>4. CASE Accept(t, "out")
  BY <1>1, <1>2, <1>3, <1>4, AcceptTook, ReceiptFrames DEF TakenInv
<1>5. CASE HandoverStands(t, c) /\ TakeLease(t) /\ Accept(t, "took")
  <2>1. /\ \A x \in Session : x # t => acc'[x] = acc[x]
        /\ acc'[t] = [at |-> "took", cap |-> c]
    <3>1. "took" \in AccAt \cup {"out"} /\ "took" # "out"
      BY DEF AccAt
    <3>. QED  BY <1>3, <1>5, <3>1, AcceptType
  <2>2. capsules[c] # NoCapsule /\ capsules[c].succ = t /\ capsules[c].epoch = Epoch
    BY <1>3, <1>5 DEF AcceptsFrozen, TakenInv, AcceptsOwn, ReceiptInv, HandoverStands
  <2>3. Epoch \in Nat /\ Epoch # 0
    BY <1>3, <2>2 DEF CapsulesInChain, ReceiptInv, LeadTypeOK, Epoch
  <2>4. ReasonOf(t) = "SUCCESSION"
    BY <1>5, <2>3 DEF ReasonOf, HandoverStands, Epoch
  <2>5. Epoch' = Epoch + 1 /\ chain'[Epoch + 1] = [master |-> t, reason |-> "SUCCESSION"]
    BY <1>5, <2>4 DEF TakeLease, Begin, LeadTypeOK, Epoch
  <2>. HIDE DEF c
  <2>6. \A d \in Capsules : d = c => TookOver(d)'
    BY <1>1, <2>2, <2>3, <2>5 DEF TookOver
  <2>7. AcceptsOwn'
    BY <1>1, <2>1, <2>2 DEF AcceptsOwn, ReceiptInv
  <2>8. \A d \in Capsules : TookOver(d) => TookOver(d)'
    BY <1>1, <1>2, TookOverStays
  <2>9. TakersTookOver'
    <3>. SUFFICES ASSUME NEW x \in Session, acc'[x].at = "took"
                  PROVE  TookOver(acc[x].cap)'
      BY DEF TakersTookOver
    <3>1. PICK d \in Capsules : acc'[x].cap = d /\ (d = c \/ TookOver(d))
      <4>1. CASE x = t
        BY <1>3, <2>1, <4>1
      <4>2. CASE x # t
        <5>1. acc'[x] = acc[x] /\ acc[x] # Idle
          BY <2>1, <4>2 DEF Idle
        <5>. QED  BY <5>1 DEF TakersTookOver, ReceiptInv, LeadTypeOK
      <4>. QED  BY <4>1, <4>2
    <3>2. TookOver(d)'
      BY <2>6, <2>8, <3>1
    <3>. QED  BY <3>1, <3>2 DEF TookOver
  <2>. QED  BY <1>1, <1>2, <2>7, <2>9, CapsulesStayInChain, ReceiptsStay DEF ReceiptInv
<1>. QED  BY <1>4, <1>5 DEF Take

\* The receipt is written by the one that took over.
LEMMA ReceiptReceipts ==
    ASSUME LeadTypeOK, TakenInv, ReceiptInv, NEW t \in Session, Receipt(t)
    PROVE  ReceiptInv'
<1>1. UNCHANGED <<chain, capsules>> /\ ChainGrows /\ BoundFrame /\ acc[t] # Idle
  BY SameChain DEF Receipt, BoundFrame, Idle
<1>2. TookFrame
  BY <1>1, AcceptTook DEF Receipt
<1>3. receipts' \subseteq receipts \cup {acc[t].cap} /\ TookOver(acc[t].cap)
  BY DEF Receipt, TakersTookOver, ReceiptInv
<1>4. \A c \in receipts' : TookOver(c)'
  BY <1>1, <1>3 DEF ReceiptInv, TookOver, Epoch
<1>. QED  BY <1>1, <1>2, <1>4, CapsulesStayInChain, AcceptsStay DEF ReceiptInv, TakenInv

-----------------------------------------------------------------------------
(* The theorems.                                                           *)

LeadInv == LeadTypeOK /\ TakenInv

LEMMA LeadInductive == LeadInit => LeadInv
<1>1. ASSUME LeadInit PROVE LeadTypeOK
  BY <1>1, LeadershipAssumption
     DEF LeadInit, LeadTypeOK, NotGiven, Idle, Events, Waiting, Capsules, LeadershipAssumption
<1>2. ASSUME LeadInit PROVE TakenInv
  BY <1>2 DEF LeadInit, TakenInv, CapsulesArePast, OneFreezes, RotatesFrozen, AcceptsFrozen,
              FactsArePast, GivenStands, GoStands, NotGiven, Idle
<1>. QED  BY <1>1, <1>2 DEF LeadInv

LEMMA LeadStep == LeadInv /\ [LeadNext]_leadVars => LeadInv'
<1>1. ASSUME LeadInv, LeadNext PROVE LeadTypeOK'
  BY <1>1, LeadershipAssumption, MasterType, RotationType, SuccessorType, NatureType
     DEF LeadNext, LeadInv, TakenInv
<1>2. ASSUME LeadInv, LeadNext PROVE FrozenInv'
  <2>. USE <1>2 DEF LeadInv
  <2>1. CASE \E s \in Session : \E c \in Capsules : StartRollover(s, c)
    BY <2>1, StartKeeps
  <2>2. CASE \E s \in Session : \E t \in Session : Freeze(s, t)
    BY <2>2, FreezeKeeps
  <2>3. CASE \E s \in Session : Launch(s)
    BY <2>3, LaunchKeeps
  <2>4. CASE \E t \in Session : Poll(t)
    BY <2>4, PollKeeps
  <2>5. CASE \E s \in Session : \/ Acquire(s) \/ Renew(s) \/ Release(s) \/ Save(s)
                                \/ \E t \in Session : HandoffTo(s, t)
    BY <2>5, MasterFrames, FrameKeeps
  <2>6. CASE \E s \in Session :
                AwaitAck(s) \/ Handover(s) \/ RecordHandover(s) \/ Watch(s) \/ Reclaim(s)
    BY <2>6, RotationFrames, FrameKeeps
  <2>7. CASE \E t \in Session : Look(t) \/ Acknowledge(t) \/ Take(t) \/ Receipt(t)
    BY <2>7, SuccessorFrames, FrameKeeps
  <2>8. CASE \/ \E s \in Session : SessionCrash(s)
             \/ LeaseExpires \/ HolderGone \/ LogLapses \/ GroundMoves
             \/ \E c \in Capsules : CapsuleLapses(c)
    BY <2>8, NatureFrames, FrameKeeps
  <2>. QED
    BY <1>2, <2>1, <2>2, <2>3, <2>4, <2>5, <2>6, <2>7, <2>8
       DEF LeadNext, RolloverStep, SuccessorStep
<1>3. ASSUME LeadInv, LeadNext PROVE FactsArePast' /\ GivenStands'
  <2>. USE <1>3 DEF LeadInv
  <2>1. CapStep
    <3>1. CASE \E s \in Session : \E t \in Session : Freeze(s, t)
      BY <3>1, FreezeCaps
    <3>2. CASE \E c \in Capsules : CapsuleLapses(c)
      BY <3>2, NatureFrames DEF CapFrame, CapStep
    <3>3. CASE UNCHANGED capsules
      BY <3>3 DEF CapStep
    <3>. QED
      BY <1>3, <3>1, <3>2, <3>3
         DEF LeadNext, RolloverStep, SuccessorStep, Acquire, Renew, Release, Save, HandoffTo,
             StartRollover, Launch, AwaitAck, Handover, RecordHandover, Watch, Reclaim, Look,
             Acknowledge, Poll, Take, Receipt, LeaseExpires, HolderGone, LogLapses,
             GroundMoves, SessionCrash
  <2>. QED  BY <1>3, <2>1, StepKinds, FactsKeep, GivenKeeps
<1>4. ASSUME LeadInv, UNCHANGED leadVars PROVE LeadInv'
  BY <1>4 DEF LeadInv, leadVars, LeadTypeOK, TakenInv, CapsulesArePast, OneFreezes,
              RotatesFrozen, AcceptsFrozen, FactsArePast, GivenStands, GoStands, Epoch
<1>. QED  BY <1>1, <1>2, <1>3, <1>4 DEF LeadInv, TakenInv, FrozenInv

\* Every variable keeps to its type, for any sessions and any faults (epoch.py,
\* succession.py, rollover.py).
THEOREM LeadTyping == LeadSpec => []LeadTypeOK
<1>1. LeadInv => LeadTypeOK
  BY DEF LeadInv
<1>. QED  BY <1>1, LeadInductive, LeadStep, PTL DEF LeadSpec

\* A rollover is taken over on the ground its predecessor froze, for any number of sessions,
\* epochs, rotations, saves, moves and faults: no fact the capsule binds had moved at the
\* handover that is taken, and nobody has saved since (poll, only_handover).
THEOREM TakenAsFrozenHolds == LeadSpec => TakenAsFrozen
<1>1. ASSUME LeadInv, [LeadNext]_leadVars, NEW t \in Session,
             acc[t].at = "go", acc'[t].at = "took"
      PROVE  given.facts = capsules[acc[t].cap].facts /\ project.saves = given.saves
  <2>1. acc' # acc
    BY <1>1
  <2>2. LeadNext
    BY <1>1, <2>1 DEF leadVars
  <2>3. HandoverStands(t, acc[t].cap)
    BY <1>1, <2>2, TookIsTaken DEF LeadInv
  <2>. QED  BY <1>1, <2>3 DEF HandoverStands, LeadInv, TakenInv, GoStands, GivenStands
<1>2. LeadInv /\ [LeadNext]_leadVars
        => [\A t \in Session : acc[t].at = "go" /\ acc'[t].at = "took"
              => /\ given.facts = capsules[acc[t].cap].facts
                 /\ project.saves = given.saves]_leadVars
  BY <1>1
<1>. QED  BY <1>2, LeadInductive, LeadStep, PTL DEF LeadSpec, TakenAsFrozen

\* No superseded session saves the project, however an epoch and its lease came apart
\* (stamp, write_state).
THEOREM SavesAreFencedHolds == LeadSpec => SavesAreFenced
<1>1. ASSUME LeadInv, LeadNext, project'.saves # project.saves
      PROVE  project'.epoch = Len(chain) /\ project'.epoch >= project.epoch
  <2>1. PICK s \in Session : Save(s)
    BY <1>1, OnlySaves DEF LeadInv
  <2>2. project'.epoch = handle[s]
    BY <1>1, <2>1, SaveType DEF LeadInv
  <2>. QED  BY <2>1, <2>2 DEF Save, Master, Authority, Epoch
<1>2. ASSUME LeadInv, [LeadNext]_leadVars
      PROVE  [project'.saves # project.saves
                => /\ project'.epoch = Len(chain)
                   /\ project'.epoch >= project.epoch]_leadVars
  BY <1>1, <1>2 DEF leadVars
<1>. QED  BY <1>2, LeadInductive, LeadStep, PTL DEF LeadSpec, SavesAreFenced

LEMMA ReceiptStep == LeadInv /\ ReceiptInv /\ [LeadNext]_leadVars => ReceiptInv'
<1>1. ASSUME LeadInv, ReceiptInv, LeadNext PROVE ReceiptInv'
  <2>. USE <1>1 DEF LeadInv
  <2>1. CASE \E s \in Session :
               \/ Acquire(s) \/ Renew(s) \/ Release(s) \/ Save(s)
               \/ \E t \in Session : HandoffTo(s, t)
               \/ \E c \in Capsules : StartRollover(s, c)
               \/ AwaitAck(s) \/ Handover(s) \/ RecordHandover(s) \/ Watch(s) \/ Reclaim(s)
    BY <2>1, PredecessorReceipts, ReceiptFrames DEF TakenInv
  <2>2. CASE \E t \in Session : Look(t) \/ Acknowledge(t) \/ Poll(t)
    BY <2>2, SuccessorReceipts, ReceiptFrames DEF TakenInv
  <2>3. CASE \/ \E s \in Session : SessionCrash(s)
             \/ LeaseExpires \/ HolderGone \/ LogLapses \/ GroundMoves
             \/ \E c \in Capsules : CapsuleLapses(c)
    BY <2>3, NatureReceipts, ReceiptFrames DEF TakenInv
  <2>4. CASE \E s \in Session : \E t \in Session : Freeze(s, t)
    BY <2>4, FreezeReceipts
  <2>5. CASE \E s \in Session : Launch(s) \/ Take(s) \/ Receipt(s)
    BY <2>5, LaunchReceipts, TakeReceipts, ReceiptReceipts
  <2>. QED
    BY <1>1, <2>1, <2>2, <2>3, <2>4, <2>5 DEF LeadNext, RolloverStep, SuccessorStep
<1>2. ReceiptInv /\ UNCHANGED leadVars => ReceiptInv'
  BY DEF leadVars, ReceiptInv, CapsulesInChain, AcceptsOwn, TakersTookOver, TookOver, Epoch
<1>. QED  BY <1>1, <1>2

\* A receipt tells the truth for good: whoever steps in, reclaims or recovers later, the
\* successor holds the epoch after its predecessor's by succession (build_receipt).
THEOREM ReceiptIsAlwaysInChain == LeadSpec => []ReceiptIsInChain
<1>1. LeadInit => ReceiptInv
  BY DEF LeadInit, ReceiptInv, CapsulesInChain, AcceptsOwn, TakersTookOver, Idle
<1>4. LeadInv /\ ReceiptInv /\ [LeadNext]_leadVars => ReceiptInv'
  BY ReceiptStep
<1>5. LeadInv /\ ReceiptInv => ReceiptIsInChain
  <2>1. SUFFICES ASSUME LeadInv, ReceiptInv, NEW c \in receipts
                 PROVE  LET k == capsules[c] IN
                        /\ k.epoch + 1 <= Epoch
                        /\ chain[k.epoch].master = k.pred
                        /\ chain[k.epoch + 1] = [master |-> k.succ, reason |-> "SUCCESSION"]
    BY DEF ReceiptIsInChain
  <2>. QED  BY <2>1 DEF ReceiptInv, TookOver, CapsulesInChain, LeadInv, LeadTypeOK
<1>. QED  BY <1>1, <1>4, <1>5, LeadInductive, LeadStep, PTL DEF LeadSpec

-----------------------------------------------------------------------------
(* The wake.  Of the rollovers of an epoch one succeeds.                   *)

LEMMA TakenAre ==
    ASSUME LeadTypeOK, ReceiptInv, NEW c \in Taken
    PROVE  c \in Capsules /\ TookOver(c) /\ capsules[c] # NoCapsule
<1>1. CASE c \in receipts
  BY <1>1 DEF ReceiptInv, LeadTypeOK, TookOver
<1>2. ASSUME NEW t \in Session, acc[t].at = "took", c = acc[t].cap
      PROVE  c \in Capsules /\ TookOver(c) /\ capsules[c] # NoCapsule
  <2>1. acc[t] # Idle
    BY <1>2 DEF Idle
  <2>2. c \in Capsules
    BY <1>2, <2>1 DEF LeadTypeOK
  <2>. QED  BY <1>2, <2>2 DEF ReceiptInv, TakersTookOver, TookOver
<1>. QED  BY <1>1, <1>2 DEF Taken

\* A step that takes over with no capsule, and changes none.
LEMMA WakeFrames ==
    ASSUME LeadTypeOK, ReceiptInv, WakeInv, BoundFrame,
           \A t \in Session : acc'[t].at = "took" => acc'[t] = acc[t],
           receipts' \subseteq Taken
    PROVE  WakeInv'
<1>1. Taken' \subseteq Taken
  BY DEF Taken
<1>2. \A c \in Taken : c \in Capsules /\ capsules[c] # NoCapsule
  BY TakenAre
<1>3. \A c \in Taken : capsules'[c].epoch = capsules[c].epoch
  BY <1>2 DEF BoundFrame
<1>4. OneSucceeds'
  BY <1>1, <1>3 DEF OneSucceeds, WakeInv
<1>5. PassesOn'
  BY DEF PassesOn, WakeInv, BoundFrame
<1>. QED  BY <1>4, <1>5 DEF WakeInv

LEMMA TookStays ==
    ASSUME TookFrame, NEW t \in Session, acc'[t].at = "took"
    PROVE  acc'[t] = acc[t]
BY DEF TookFrame, Idle

\* A capsule is frozen for another session than the one that freezes it.
LEMMA FreezeWakes ==
    ASSUME LeadTypeOK, TakenInv, ReceiptInv, WakeInv,
           NEW s \in Session, NEW t \in Session, Freeze(s, t)
    PROVE  WakeInv'
<1>. DEFINE c == rot[s].cap
<1>1. UNCHANGED <<acc, receipts>> /\ s # t
  BY DEF Freeze
<1>2. CASE ~Master(s)
  <2>1. BoundFrame
    BY <1>2 DEF Freeze, BoundFrame
  <2>. QED  BY <1>1, <2>1, WakeFrames DEF Taken
<1>3. CASE Master(s)
  <2>. DEFINE k == [pred |-> s, epoch |-> handle[s], succ |-> t, facts |-> project.facts,
                    late |-> FALSE]
  <2>1. capsules' = [capsules EXCEPT ![c] = k] /\ c \in Capsules /\ capsules[c] = NoCapsule
    BY <1>3 DEF Freeze, LeadTypeOK, Idle, OneFreezes, TakenInv
  <2>2. k.pred # k.succ
    BY <1>1
  <2>. HIDE DEF k, c
  <2>3. capsules'[c] = k /\ \A d \in Capsules : d # c => capsules'[d] = capsules[d]
    BY <2>1 DEF LeadTypeOK
  <2>4. PassesOn'
    BY <2>2, <2>3 DEF PassesOn, WakeInv
  <2>5. Taken' = Taken
    BY <1>1 DEF Taken
  <2>6. \A d \in Taken : d \in Capsules /\ d # c
    BY <2>1, TakenAre
  <2>7. OneSucceeds'
    BY <2>3, <2>5, <2>6 DEF OneSucceeds, WakeInv
  <2>. QED  BY <2>4, <2>7 DEF WakeInv
<1>. QED  BY <1>2, <1>3

LEMMA LaunchWakes ==
    ASSUME LeadTypeOK, ReceiptInv, WakeInv, NEW s \in Session, Launch(s)
    PROVE  WakeInv'
<1>1. BoundFrame /\ UNCHANGED receipts
  BY DEF Launch, BoundFrame
<1>2. ASSUME NEW t \in Session, acc'[t].at = "took" PROVE acc'[t] = acc[t]
  <2>1. CASE UNCHANGED acc
    BY <2>1
  <2>2. CASE acc' = [acc EXCEPT ![capsules[rot[s].cap].succ] =
                        [at |-> "started", cap |-> rot[s].cap]]
    BY <1>2, <2>2 DEF LeadTypeOK
  <2>. QED  BY <2>1, <2>2 DEF Launch
<1>. QED  BY <1>1, <1>2, WakeFrames DEF Taken

\* The takeover of a capsule begins the epoch after it; whoever took over with another
\* capsule of that epoch would have begun it before.
LEMMA TakeWakes ==
    ASSUME LeadTypeOK, TakenInv, ReceiptInv, WakeInv, NEW t \in Session, Take(t)
    PROVE  WakeInv'
<1>. DEFINE c == acc[t].cap
<1>1. UNCHANGED <<capsules, receipts>> /\ BoundFrame
  BY DEF Take, BoundFrame
<1>2. acc[t] # Idle /\ c \in Capsules /\ acc[t].at = "go"
  BY DEF Take, Idle, LeadTypeOK
<1>3. CASE Accept(t, "out")
  <2>1. TookFrame
    BY <1>2, <1>3, AcceptTook
  <2>. QED  BY <1>1, <2>1, TookStays, WakeFrames DEF Taken
<1>4. CASE HandoverStands(t, c) /\ TakeLease(t) /\ Accept(t, "took")
  <2>1. /\ \A x \in Session : x # t => acc'[x] = acc[x]
        /\ acc'[t] = [at |-> "took", cap |-> c]
    <3>1. "took" \in AccAt \cup {"out"} /\ "took" # "out"
      BY DEF AccAt
    <3>. QED  BY <1>2, <1>4, <3>1, AcceptType
  <2>2. capsules[c].epoch = Epoch
    BY <1>4 DEF HandoverStands
  <2>. HIDE DEF c
  <2>3. ASSUME NEW d \in Taken PROVE capsules[d].epoch # Epoch
    <3>1. TookOver(d) /\ d \in Capsules
      BY TakenAre
    <3>. QED  BY <3>1 DEF TookOver, LeadTypeOK, Capsule, Epoch
  <2>4. Taken' \subseteq Taken \cup {c}
    <3>. SUFFICES ASSUME NEW x \in Session, acc'[x].at = "took", acc'[x].cap # c
                  PROVE  acc'[x].cap \in Taken
      BY <1>1 DEF Taken
    <3>1. x # t /\ acc'[x] = acc[x]
      BY <2>1
    <3>. QED  BY <3>1 DEF Taken
  <2>5. OneSucceeds'
    BY <1>1, <2>2, <2>3, <2>4 DEF OneSucceeds, WakeInv
  <2>6. PassesOn'
    BY <1>1 DEF PassesOn, WakeInv
  <2>. QED  BY <2>5, <2>6 DEF WakeInv
<1>. QED  BY <1>3, <1>4 DEF Take

LEMMA ReceiptWakes ==
    ASSUME LeadTypeOK, ReceiptInv, WakeInv, NEW t \in Session, Receipt(t)
    PROVE  WakeInv'
<1>1. BoundFrame /\ acc[t] # Idle
  BY DEF Receipt, BoundFrame, Idle
<1>2. TookFrame
  BY <1>1, AcceptTook DEF Receipt
<1>3. receipts' \subseteq Taken
  BY DEF Receipt, Taken
<1>. QED  BY <1>1, <1>2, <1>3, TookStays, WakeFrames

LEMMA WakeStep ==
    ASSUME LeadInv, ReceiptInv, WakeInv, LeadNext
    PROVE  WakeInv'
<1>. USE DEF LeadInv
<1>1. CASE \E s \in Session :
              \/ Acquire(s) \/ Renew(s) \/ Release(s) \/ Save(s)
              \/ \E t \in Session : HandoffTo(s, t)
              \/ \E c \in Capsules : StartRollover(s, c)
              \/ AwaitAck(s) \/ Handover(s) \/ RecordHandover(s) \/ Watch(s) \/ Reclaim(s)
  <2>1. BoundFrame /\ TookFrame /\ UNCHANGED receipts
    BY <1>1, PredecessorReceipts
  <2>. QED  BY <2>1, TookStays, WakeFrames DEF Taken
<1>2. CASE \E t \in Session : Look(t) \/ Acknowledge(t) \/ Poll(t)
  <2>1. BoundFrame /\ TookFrame /\ UNCHANGED receipts
    BY <1>2, SuccessorReceipts
  <2>. QED  BY <2>1, TookStays, WakeFrames DEF Taken
<1>3. CASE \/ \E s \in Session : SessionCrash(s)
           \/ LeaseExpires \/ HolderGone \/ LogLapses \/ GroundMoves
           \/ \E c \in Capsules : CapsuleLapses(c)
  <2>1. BoundFrame /\ TookFrame /\ UNCHANGED receipts
    BY <1>3, NatureReceipts
  <2>. QED  BY <2>1, TookStays, WakeFrames DEF Taken
<1>4. CASE \E s \in Session : \E t \in Session : Freeze(s, t)
  BY <1>4, FreezeWakes
<1>5. CASE \E s \in Session : Launch(s) \/ Take(s) \/ Receipt(s)
  BY <1>5, LaunchWakes, TakeWakes, ReceiptWakes
<1>. QED
  BY <1>1, <1>2, <1>3, <1>4, <1>5 DEF LeadNext, RolloverStep, SuccessorStep

\* Two receipts of one epoch are one, also before an ambiguity is looked for.
LEMMA ReceiptsAlone ==
    ASSUME LeadTypeOK, ReceiptInv, WakeInv, NEW s, NEW e
    PROVE  Alone(ReceiptOf(s, e))
<1>. SUFFICES ASSUME NEW c \in ReceiptOf(s, e), NEW d \in ReceiptOf(s, e)
              PROVE  c = d
  BY DEF Alone
<1>1. c \in Taken /\ d \in Taken /\ TookOver(c) /\ TookOver(d)
      /\ c \in Capsules /\ d \in Capsules
  BY DEF ReceiptOf, Taken, ReceiptInv, LeadTypeOK
<1>2. capsules[c].epoch \in Nat /\ capsules[d].epoch \in Nat
  BY <1>1 DEF TookOver, LeadTypeOK, Capsule
<1>3. capsules[c].epoch + 1 = e /\ capsules[d].epoch + 1 = e
  BY DEF ReceiptOf
<1>4. capsules[c].epoch = capsules[d].epoch
  BY <1>2, <1>3
<1>. QED  BY <1>1, <1>4 DEF WakeInv, OneSucceeds

LEMMA WakeFollows ==
    ASSUME LeadTypeOK, ReceiptInv, WakeInv
    PROVE  WakeIsAnchored
<1>. SUFFICES ASSUME NEW s \in Session, Master(s), NEW c \in receipts
              PROVE  c \in MayWake(s) <=>
                        LET k == capsules[c] IN
                        /\ k.succ = s /\ k.epoch + 1 <= Epoch
                        /\ \A e \in k.epoch + 1 .. Epoch : chain[e].master = s
                        /\ \A e \in k.epoch + 2 .. Epoch : chain[e].reason = "RECOVERY"
  BY DEF WakeIsAnchored, MayWake, Anchor
<1>. DEFINE k == capsules[c]
            n == k.epoch + 1
<1>1. /\ c \in Capsules /\ k \in Capsule /\ TookOver(c) /\ k.epoch \in Nat /\ n \in Nat
      /\ Epoch \in Nat /\ handle[s] = Epoch /\ Epoch >= 1 /\ chain[Epoch].master = s
  BY DEF ReceiptInv, LeadTypeOK, TookOver, Capsule, Master, Authority, Epoch
<1>2. /\ n \in 1..Epoch /\ chain[n].master = k.succ /\ chain[n].reason = "SUCCESSION"
      /\ chain[k.epoch].master = k.pred /\ k.pred # k.succ
  BY <1>1 DEF TookOver, ReceiptInv, CapsulesInChain, WakeInv, PassesOn
<1>3. c \in MayWake(s) <=> c \in Anchor(s) /\ k.pred # s
  BY <1>2, ReceiptsAlone DEF MayWake
<1>4. \A e : c \in ReceiptOf(s, e) <=> k.succ = s /\ e = n
  BY DEF ReceiptOf
<1>. HIDE DEF k, n
<1>5. ASSUME NEW e \in 1..Epoch, chain[e].reason = "RECOVERY"
      PROVE  ReceiptOf(s, e) = {}
  <2>. SUFFICES ASSUME NEW d \in ReceiptOf(s, e) PROVE FALSE
    OBVIOUS
  <2>1. TookOver(d) /\ e = capsules[d].epoch + 1
    BY DEF ReceiptOf, ReceiptInv
  <2>. QED  BY <1>5, <2>1 DEF TookOver
<1>6. c \in Anchor(s) <=>
         /\ k.succ = s
         /\ \A f \in n + 1 .. Epoch : chain[f].master = s /\ chain[f].reason = "RECOVERY"
  <2>1. n \in Reached(s) <=>
           \A f \in n + 1 .. Epoch : chain[f].master = s /\ chain[f].reason = "RECOVERY"
    BY <1>1, <1>2, <1>5 DEF Reached, Rearmed
  <2>2. c \in Anchor(s) <=> n \in Reached(s) /\ k.succ = s
    BY <1>1, <1>2, <1>4, ReceiptsAlone DEF Anchor, Reached
  <2>. QED  BY <2>1, <2>2
<1>7. k.succ = s => k.pred # s /\ chain[n].master = s
  BY <1>2
<1>8. k.epoch + 1 = n /\ k.epoch + 2 = n + 1
  BY <1>1 DEF n
<1>9. (\A e \in n .. Epoch : chain[e].master = s)
         <=> chain[n].master = s /\ \A e \in n + 1 .. Epoch : chain[e].master = s
  BY <1>1, <1>2
<1>. QED  BY <1>1, <1>2, <1>3, <1>6, <1>7, <1>8, <1>9 DEF k

\* A master that got the role by a rollover finds exactly that rollover's capsule, after any
\* number of recoveries, rollovers that failed and sessions that crashed (read_succession,
\* anchor_through_recovery): no receipt is ambiguous, none is passed over.
THEOREM WakeIsAlwaysAnchored == LeadSpec => []WakeIsAnchored
<1>1. LeadInit => ReceiptInv /\ WakeInv
  BY DEF LeadInit, ReceiptInv, CapsulesInChain, AcceptsOwn, TakersTookOver, Idle,
         WakeInv, OneSucceeds, PassesOn, Taken
<1>2. LeadInv /\ ReceiptInv /\ [LeadNext]_leadVars => ReceiptInv'
  BY ReceiptStep
<1>3. WakeInv /\ UNCHANGED leadVars => WakeInv'
  BY DEF leadVars, WakeInv, OneSucceeds, PassesOn, Taken
<1>4. LeadInv /\ ReceiptInv /\ WakeInv /\ [LeadNext]_leadVars => WakeInv'
  BY <1>3, WakeStep
<1>5. LeadInv /\ ReceiptInv /\ WakeInv => WakeIsAnchored
  BY WakeFollows DEF LeadInv
<1>. QED  BY <1>1, <1>2, <1>4, <1>5, LeadInductive, LeadStep, PTL DEF LeadSpec
=============================================================================
