---------------------------- MODULE Machine_proofs -----------------------------
(***************************************************************************)
(* Proofs about what the processes of a machine take from one another: the *)
(* lease of a run (RunLease), for any number of drivers, hosts and         *)
(* namespaces, any lifetime and any deaths and troubles; the sessions of a *)
(* project and the owners of its workspaces (Sessions), for any processes, *)
(* sessions and faults; and the moves of a steward's passes (Relocation),  *)
(* for any stewards, items, entries, crashes and writers.                  *)
(***************************************************************************)
EXTENDS RunLease, Sessions, Relocation, TLAPS

-----------------------------------------------------------------------------
(* PART ONE: the lease of a run                                            *)

-----------------------------------------------------------------------------
(* What each action does to its driver, field by field.                    *)

Others(d) ==
    /\ drive' \in [Driver -> Drive]
    /\ \A e \in Driver : e # d => drive'[e] = drive[e]

LEMMA NamesDiffer ==
    RunLeaseAssumption => Keeper \notin Driver /\ Nobody \notin Driver /\ Keeper # Nobody
BY DEF RunLeaseAssumption, Keeper, Nobody

LEMMA NoneType == NoRecord \in Record /\ NoDrive \in Drive
BY DEF NoRecord, NoDrive, Record, Drive

LEMMA GrantedType ==
    ASSUME RunLeaseAssumption, LeaseTypeOK, NEW d \in Driver, NEW n \in Nat
    PROVE  /\ Granted(d, n) \in Record /\ Granted(d, n).holder = drive[d].life
           /\ Granted(d, n).generation = n /\ Granted(d, n).acquired = time
           /\ Granted(d, n).renewed = time /\ Granted(d, n).expires = time + Ttl
           /\ Granted(d, n).released = FALSE
<1>1. drive[d].life \in Nat
  BY DEF LeaseTypeOK, Drive
<1>. QED  BY <1>1 DEF Granted, Record, RunLeaseAssumption, LeaseTypeOK

LEMMA StartsDoes ==
    ASSUME LeaseTypeOK, NEW d \in Driver, Starts(d)
    PROVE  /\ Others(d) /\ drive[d].at = "off"
           /\ drive'[d].life = born + 1 /\ drive'[d].at = "locked"
           /\ drive'[d].handle = drive[d].handle /\ drive'[d].failed = drive[d].failed
<1>1. drive[d] \in Drive
  BY DEF LeaseTypeOK
<1>2. drive' = [drive EXCEPT ![d] = [drive[d] EXCEPT !.life = born + 1, !.at = "locked"]]
  BY DEF Starts, LeaseTypeOK
<1>0. born + 1 \in Nat
  BY DEF LeaseTypeOK
<1>3. [drive[d] EXCEPT !.life = born + 1, !.at = "locked"] \in Drive
  BY <1>0, <1>1 DEF Drive
<1>. QED  BY <1>1, <1>2, <1>3 DEF Starts, LeaseTypeOK, Others, Drive

LEMMA EndsDoes ==
    ASSUME LeaseTypeOK, NEW d \in Driver, drive' = [drive EXCEPT ![d] = NoDrive]
    PROVE  Others(d) /\ drive'[d] = NoDrive
BY NoneType DEF LeaseTypeOK, Others

LEMMA AcquireDoes ==
    ASSUME RunLeaseAssumption, LeaseTypeOK, NEW d \in Driver, Acquire(d), drive'[d] # NoDrive
    PROVE  /\ Others(d) /\ drive[d].at = "locked" /\ drive'[d].at = "parked"
           /\ drive'[d].life = drive[d].life /\ drive'[d].failed = drive[d].failed
           /\ drive'[d].handle = Granted(d, current.generation + 1)
           /\ current # NoRecord => Judge(d, current) # "LIVE" /\ ~Conflicts(current)
           /\ parked' = IF current = NoRecord THEN parked ELSE parked \cup {current}
           /\ short' = d
<1>1. drive[d] \in Drive
  BY DEF LeaseTypeOK
<1>. DEFINE g == Granted(d, current.generation + 1)
<1>0. current.generation + 1 \in Nat
  BY DEF LeaseTypeOK, Record
<1>2. g \in Record
  BY <1>0, GrantedType
<1>. HIDE DEF g
<1>3. ~(current # NoRecord /\ (Judge(d, current) = "LIVE" \/ Conflicts(current)))
  BY DEF Acquire, LeaseTypeOK
<1>4. drive' = [drive EXCEPT ![d] = [drive[d] EXCEPT !.at = "parked", !.handle = g]]
  BY <1>3 DEF Acquire, LeaseTypeOK, g
<1>5. [drive[d] EXCEPT !.at = "parked", !.handle = g] \in Drive
  BY <1>1, <1>2 DEF Drive
<1>6. drive'[d] = [drive[d] EXCEPT !.at = "parked", !.handle = g] /\ Others(d)
  BY <1>4, <1>5 DEF LeaseTypeOK, Others
<1>7. /\ drive'[d].at = "parked" /\ drive'[d].life = drive[d].life
      /\ drive'[d].failed = drive[d].failed /\ drive'[d].handle = g
  BY <1>1, <1>6 DEF Drive
<1>. QED  BY <1>3, <1>6, <1>7 DEF Acquire, g

LEMMA WriteDoes ==
    ASSUME RunLeaseAssumption, LeaseTypeOK, NEW d \in Driver, NEW synced \in BOOLEAN,
           WriteGrant(d, synced)
    PROVE  /\ Others(d) /\ drive[d].at = "parked"
           /\ drive'[d].at = IF synced THEN "driving" ELSE "ending"
           /\ drive'[d].life = drive[d].life /\ drive'[d].failed = drive[d].failed
           /\ drive'[d].handle = drive[d].handle /\ drive'[d].next = time + 1
<1>1. drive[d] \in Drive
  BY DEF LeaseTypeOK
<1>. DEFINE a == IF synced THEN "driving" ELSE "ending"
            new == [drive[d] EXCEPT !.at = a, !.next = time + 1]
<1>2. drive' = [drive EXCEPT ![d] = new]
  BY DEF WriteGrant, LeaseTypeOK
<1>0. time + 1 \in Nat /\ a \in {"driving", "ending"}
  BY DEF LeaseTypeOK
<1>. HIDE DEF a
<1>3. new \in Drive
  BY <1>0, <1>1 DEF Drive
<1>4. /\ new.at = a /\ new.life = drive[d].life /\ new.failed = drive[d].failed
      /\ new.handle = drive[d].handle /\ new.next = time + 1
  BY <1>1 DEF Drive
<1>. HIDE DEF new
<1>5. drive'[d] = new /\ Others(d)
  BY <1>2, <1>3 DEF LeaseTypeOK, Others
<1>. QED  BY <1>4, <1>5 DEF WriteGrant, a

\* A renewal, or a failed one that is counted, or a refused one.
Renewed(d) ==
    /\ SameGrant(d) /\ current.renewed <= time /\ time < current.expires
    /\ Changes([current EXCEPT !.renewed = time, !.expires = time + Ttl])
    /\ drive'[d].at = drive[d].at /\ drive'[d].handle = current'
    /\ drive'[d].next = time + 1 /\ drive'[d].failed = 0
Counted(d) ==
    /\ UNCHANGED <<current, late>> /\ drive'[d].handle = drive[d].handle
    /\ drive'[d].next = time + 1 /\ drive'[d].failed = drive[d].failed + 1
    /\ drive'[d].at = IF drive[d].failed + 1 >= MaxRenewFailures THEN "lost" ELSE "driving"
Refused(d) ==
    /\ UNCHANGED <<current, late>> /\ drive'[d].handle = drive[d].handle
    /\ drive'[d].at = "lost" /\ ~(SameGrant(d) /\ time < current.expires)

LEMMA RenewedType ==
    ASSUME RunLeaseAssumption, LeaseTypeOK
    PROVE  /\ [current EXCEPT !.renewed = time, !.expires = time + Ttl] \in Record
           /\ [current EXCEPT !.released = TRUE, !.ended = time] \in Record
<1>1. current \in Record /\ time \in Nat /\ time + Ttl \in Nat
  BY DEF LeaseTypeOK, RunLeaseAssumption
<1>. QED  BY <1>1 DEF Record

LEMMA CountDoes ==
    ASSUME LeaseTypeOK, NEW d \in Driver, drive[d].at = "driving",
           drive' = [drive EXCEPT ![d].failed = @ + 1, ![d].next = time + 1,
                              ![d].at = IF drive[d].failed + 1 >= MaxRenewFailures
                                        THEN "lost" ELSE @]
    PROVE  /\ Others(d) /\ drive'[d].life = drive[d].life
           /\ drive'[d].handle = drive[d].handle
           /\ drive'[d].next = time + 1 /\ drive'[d].failed = drive[d].failed + 1
           /\ drive'[d].at = IF drive[d].failed + 1 >= MaxRenewFailures THEN "lost" ELSE "driving"
<1>1. drive[d] \in Drive /\ drive[d].failed + 1 \in Nat /\ time + 1 \in Nat
  BY DEF LeaseTypeOK, Drive
<1>. DEFINE a == IF drive[d].failed + 1 >= MaxRenewFailures THEN "lost" ELSE "driving"
            new == [drive[d] EXCEPT !.failed = drive[d].failed + 1, !.next = time + 1, !.at = a]
<1>2. a \in {"lost", "driving"}
  OBVIOUS
<1>3. drive' = [drive EXCEPT ![d] = new]
  BY DEF LeaseTypeOK
<1>. HIDE DEF a
<1>4. new \in Drive
  BY <1>1, <1>2 DEF Drive
<1>5. /\ new.at = a /\ new.life = drive[d].life /\ new.failed = drive[d].failed + 1
      /\ new.handle = drive[d].handle /\ new.next = time + 1
  BY <1>1 DEF Drive
<1>. HIDE DEF new
<1>6. drive'[d] = new /\ Others(d)
  BY ZenonT(60), <1>3, <1>4 DEF LeaseTypeOK, Others
<1>. QED  BY <1>5, <1>6 DEF a

LEMMA RenewDoes ==
    ASSUME RunLeaseAssumption, LeaseTypeOK, NEW d \in Driver, Renew(d)
    PROVE  /\ Others(d) /\ drive'[d].life = drive[d].life
           /\ \/ Renewed(d)
              \/ Counted(d) /\ time < current.renewed
              \/ Refused(d)
<1>0. drive[d] \in Drive
  BY DEF LeaseTypeOK
<1>1. CASE SameGrant(d) /\ current.renewed <= time /\ time < current.expires
  <2>. DEFINE new == [drive[d] EXCEPT !.handle = current', !.next = time + 1, !.failed = 0]
  <2>1. Changes([current EXCEPT !.renewed = time, !.expires = time + Ttl])
    BY <1>1 DEF Renew
  <2>2. current' \in Record
    BY <2>1, RenewedType DEF Changes
  <2>3. drive' = [drive EXCEPT ![d] = new]
    BY <1>1 DEF Renew, LeaseTypeOK
  <2>4. time + 1 \in Nat
    BY DEF LeaseTypeOK
  <2>5. new \in Drive
    BY <1>0, <2>2, <2>4 DEF Drive
  <2>6. /\ new.at = drive[d].at /\ new.life = drive[d].life /\ new.failed = 0
        /\ new.handle = current' /\ new.next = time + 1
    BY <1>0 DEF Drive
  <2>. HIDE DEF new
  <2>7. drive'[d] = new /\ Others(d)
    BY <2>3, <2>5 DEF LeaseTypeOK, Others
  <2>. QED  BY <1>1, <2>1, <2>6, <2>7 DEF Renewed
<1>2. CASE /\ ~(SameGrant(d) /\ current.renewed <= time /\ time < current.expires)
           /\ SameGrant(d) /\ time < current.renewed
  <2>1. drive' = [drive EXCEPT ![d].failed = @ + 1, ![d].next = time + 1,
                     ![d].at = IF drive[d].failed + 1 >= MaxRenewFailures THEN "lost" ELSE @]
    BY <1>2 DEF Renew
  <2>. QED  BY <1>2, <2>1, CountDoes DEF Renew, Counted
<1>3. CASE /\ ~(SameGrant(d) /\ current.renewed <= time /\ time < current.expires)
           /\ ~(SameGrant(d) /\ time < current.renewed)
  <2>. DEFINE new == [drive[d] EXCEPT !.at = "lost"]
  <2>1. drive' = [drive EXCEPT ![d] = new]
    BY <1>3 DEF Renew, Moves, LeaseTypeOK
  <2>2. /\ new \in Drive /\ new.at = "lost" /\ new.handle = drive[d].handle
        /\ new.life = drive[d].life
    BY <1>0 DEF Drive
  <2>. HIDE DEF new
  <2>3. drive'[d] = new /\ Others(d)
    BY <2>1, <2>2 DEF LeaseTypeOK, Others
  <2>4. ~(SameGrant(d) /\ time < current.expires)
    BY <1>3 DEF LeaseTypeOK, Record
  <2>. QED  BY <1>3, <2>2, <2>3, <2>4 DEF Renew, Refused
<1>. QED  BY <1>1, <1>2, <1>3

\* A change to a record keeps whose it is; what it parked before is remembered.
LEMMA RenewedRecord ==
    ASSUME RunLeaseAssumption, LeaseTypeOK,
           NEW r, \/ r = [current EXCEPT !.renewed = time, !.expires = time + Ttl]
                  \/ r = [current EXCEPT !.released = TRUE, !.ended = time]
    PROVE  /\ r \in Record /\ r.holder = current.holder /\ r.generation = current.generation
           /\ r.acquired = current.acquired
<1>1. current \in Record /\ time \in Nat /\ time + Ttl \in Nat
  BY DEF LeaseTypeOK, RunLeaseAssumption
<1>. QED  BY <1>1 DEF Record

\* Closing releases the driver's own grant, or nothing.
LEMMA CloseDoes ==
    ASSUME RunLeaseAssumption, LeaseTypeOK, NEW d \in Driver, Close(d)
    PROVE  /\ Others(d) /\ drive'[d] = NoDrive
           /\ \/ /\ SameGrant(d) /\ current.renewed <= time
                 /\ Changes([current EXCEPT !.released = TRUE, !.ended = time])
              \/ UNCHANGED <<current, late>>
BY EndsDoes DEF Close

-----------------------------------------------------------------------------
(* Types.                                                                  *)

LEMMA DriverType ==
    ASSUME RunLeaseAssumption, LeaseTypeOK, NEW d \in Driver,
           \/ Starts(d) \/ Acquire(d) \/ Renew(d) \/ RenewFails(d) \/ Close(d)
           \/ DriverDies(d) \/ \E synced \in BOOLEAN : WriteGrant(d, synced)
    PROVE  LeaseTypeOK'
<1>0. d \in Driver \cup {Nobody, Keeper}
  OBVIOUS
<1>1. CASE Starts(d)
  <2>1. drive' \in [Driver -> Drive]
    BY <1>1, StartsDoes DEF Others
  <2>. QED  BY <1>1, <2>1 DEF Starts, LeaseTypeOK, files, marks
<1>2. CASE Acquire(d)
  <2>1. drive' \in [Driver -> Drive]
    <3>1. CASE drive' = [drive EXCEPT ![d] = NoDrive]
      BY <3>1, EndsDoes DEF Others
    <3>2. CASE drive'[d] # NoDrive
      BY <1>2, <3>2, AcquireDoes DEF Others
    <3>3. CASE drive'[d] = NoDrive /\ drive' # [drive EXCEPT ![d] = NoDrive]
      <4>. DEFINE g == Granted(d, current.generation + 1)
      <4>1. drive' = [drive EXCEPT ![d].at = "parked", ![d].handle = g]
        BY <1>2, <3>3 DEF Acquire
      <4>2. drive[d] \in Drive
        BY DEF LeaseTypeOK
      <4>. HIDE DEF g
      <4>3. drive'[d] = [drive[d] EXCEPT !.at = "parked", !.handle = g]
        BY <4>1 DEF LeaseTypeOK
      <4>4. drive'[d].at = "parked"
        BY <4>2, <4>3 DEF Drive
      <4>. QED  BY <3>3, <4>4 DEF NoDrive
    <3>. QED  BY <3>1, <3>2, <3>3
  <2>2. parked' \subseteq Record /\ short' \in Driver \cup {Nobody, Keeper}
    BY <1>0, <1>2 DEF Acquire, LeaseTypeOK
  <2>. QED  BY <1>2, <2>1, <2>2 DEF Acquire, LeaseTypeOK, marks
<1>3. CASE Renew(d)
  <2>1. drive' \in [Driver -> Drive]
    BY <1>3, RenewDoes DEF Others
  <2>2. current' \in Record
    BY <1>3, RenewDoes, RenewedRecord DEF Renewed, Counted, Refused, Changes, LeaseTypeOK
  <2>. QED  BY <1>3, <2>1, <2>2 DEF Renew, LeaseTypeOK
<1>4. CASE RenewFails(d)
  <2>1. drive' \in [Driver -> Drive]
    BY <1>4, CountDoes DEF RenewFails, Others
  <2>. QED  BY <1>4, <2>1 DEF RenewFails, LeaseTypeOK, files, marks
<1>5. CASE Close(d)
  <2>1. drive' \in [Driver -> Drive]
    BY <1>5, CloseDoes DEF Others
  <2>2. current' \in Record
    BY <1>5, CloseDoes, RenewedRecord DEF Changes, LeaseTypeOK
  <2>. QED  BY <1>5, <2>1, <2>2 DEF Close, LeaseTypeOK
<1>6. CASE DriverDies(d)
  <2>1. drive' \in [Driver -> Drive]
    BY <1>6, EndsDoes DEF DriverDies, Others
  <2>. QED  BY <1>6, <2>1 DEF DriverDies, LeaseTypeOK, files, marks
<1>7. CASE \E synced \in BOOLEAN : WriteGrant(d, synced)
  <2>1. drive' \in [Driver -> Drive]
    BY <1>7, WriteDoes DEF Others
  <2>2. current' \in Record
    BY <1>7 DEF WriteGrant, LeaseTypeOK, Drive
  <2>. QED  BY <1>7, <2>1, <2>2 DEF WriteGrant, LeaseTypeOK
<1>. QED  BY <1>1, <1>2, <1>3, <1>4, <1>5, <1>6, <1>7

LEMMA ArchiveType ==
    ASSUME RunLeaseAssumption, LeaseTypeOK,
           \/ ArchivePlan \/ ArchiveReplans \/ ArchiveMoves \/ ArchiverDies
           \/ LeaseTick \/ ClockSetBack
    PROVE  LeaseTypeOK'
<1>1. CASE ArchivePlan
  BY <1>1 DEF ArchivePlan, LeaseTypeOK, files, marks
<1>2. CASE ArchiveReplans
  BY <1>2 DEF ArchiveReplans, LeaseTypeOK, files, marks
<1>3. CASE ArchiveMoves
  BY <1>3, NoneType DEF ArchiveMoves, LeaseTypeOK, files, marks
<1>4. CASE ArchiverDies
  BY <1>4 DEF ArchiverDies, LeaseTypeOK, files, marks
<1>5. CASE LeaseTick
  BY <1>5 DEF LeaseTick, LeaseTypeOK, files, marks
<1>6. CASE ClockSetBack
  BY <1>6 DEF ClockSetBack, LeaseTypeOK, files, marks
<1>. QED  BY <1>1, <1>2, <1>3, <1>4, <1>5, <1>6

-----------------------------------------------------------------------------
(* The invariant, action by action.                                        *)

\* Whose grant the record is: nobody else's, while his has not run out.
LEMMA OthersHaveLapsed ==
    ASSUME LeaseTypeOK, StandsInv, NEW d \in Driver, SameGrant(d), ~setBack,
           drive[d].at \in {"driving", "lost", "ending"},
           NEW e \in Driver, e # d, drive[e].at \in {"driving", "lost"}
    PROVE  drive[e].handle.expires <= time
<1>1. drive[e].handle.holder # drive[d].handle.holder
  BY DEF StandsInv, LivesAreDistinct, HandlesAreOwn
<1>2. current # drive[e].handle
  BY <1>1 DEF SameGrant
<1>3. drive[e].handle.expires \in Nat /\ time \in Nat
  BY DEF LeaseTypeOK, Drive, Record
<1>. QED  BY <1>2, <1>3 DEF StandsInv, GrantIsExclusive

\* Whoever is not at work any more can do no harm.
LEMMA RestKeeps ==
    ASSUME LeaseTypeOK, StandsInv, NEW d \in Driver, Others(d), drive'[d] = NoDrive,
           UNCHANGED <<time, setBack, born, current, parked, late>>,
           keeper' = keeper, short' = (IF short = d THEN Nobody ELSE short),
           RunLeaseAssumption
    PROVE  StandsInv'
<1>0. /\ NoDrive.at = "off" /\ NoDrive.life = 0 /\ NoDrive.handle = NoRecord
      /\ NoDrive.failed = 0 /\ NoRecord.renewed = 0
  BY DEF NoDrive, NoRecord
<1>1. /\ drive'[d].at = "off" /\ drive'[d].life = 0 /\ drive'[d].handle.renewed = 0
      /\ drive'[d].failed = 0
      /\ \A e \in Driver : e # d => drive'[e] = drive[e]
  BY <1>0 DEF Others
<1>2. LivesAreDistinct'
  BY <1>1 DEF LivesAreDistinct, StandsInv, LeaseTypeOK
<1>3. ShortIsHeld'
  BY <1>1, NamesDiffer DEF ShortIsHeld, StandsInv
<1>4. HandlesAreOwn' /\ PeriodsPass'
  BY <1>1 DEF HandlesAreOwn, PeriodsPass, StandsInv
<1>5. CopiesArePast' /\ MovedHasEnded' /\ ConflictsAreLate'
  BY DEF CopiesArePast, MovedHasEnded, ConflictsAreLate, Conflicts, Ended, StandsInv
<1>6. ParkedIsReplaceable'
  BY <1>1 DEF ParkedIsReplaceable, StandsInv
<1>7. RenewalsArePast'
  BY <1>1 DEF RenewalsArePast, StandsInv, LeaseTypeOK
<1>8. GrantIsExclusive' /\ GivenUpIsLapsed'
  BY <1>1 DEF GrantIsExclusive, GivenUpIsLapsed, StandsInv
<1>. QED  BY <1>2, <1>3, <1>4, <1>5, <1>6, <1>7, <1>8 DEF StandsInv

LEMMA StartsKeeps ==
    ASSUME RunLeaseAssumption, LeaseTypeOK, StandsInv, NEW d \in Driver, Starts(d)
    PROVE  StandsInv'
<1>1. /\ Others(d) /\ drive[d].at = "off" /\ drive'[d].life = born + 1
      /\ drive'[d].at = "locked" /\ drive'[d].handle = drive[d].handle /\ drive'[d].failed = 0
  BY StartsDoes DEF PeriodsPass, StandsInv
<1>0. UNCHANGED <<time, setBack, current, parked, late, keeper, short>> /\ born' = born + 1
  BY DEF Starts, files, marks
<1>2. LivesAreDistinct'
  BY <1>0, <1>1 DEF LivesAreDistinct, StandsInv, LeaseTypeOK, Drive, Others
<1>3. ShortIsHeld'
  BY <1>0, <1>1 DEF ShortIsHeld, StandsInv, Others
<1>4. HandlesAreOwn' /\ PeriodsPass'
  BY <1>0, <1>1 DEF HandlesAreOwn, PeriodsPass, StandsInv, Others
<1>5. CopiesArePast' /\ MovedHasEnded' /\ ConflictsAreLate'
  BY <1>0 DEF CopiesArePast, MovedHasEnded, ConflictsAreLate, Conflicts, Ended, StandsInv
<1>6. ParkedIsReplaceable'
  BY <1>0, <1>1 DEF ParkedIsReplaceable, StandsInv, Others
<1>7. RenewalsArePast'
  BY <1>0, <1>1 DEF RenewalsArePast, StandsInv, Others
<1>8. GrantIsExclusive' /\ GivenUpIsLapsed'
  BY <1>0, <1>1 DEF GrantIsExclusive, GivenUpIsLapsed, StandsInv, Others
<1>. QED  BY <1>2, <1>3, <1>4, <1>5, <1>6, <1>7, <1>8 DEF StandsInv

\* A lease that stands is judged alive, so nobody who may replace it finds one standing.
LEMMA TakenHasLapsed ==
    ASSUME RunLeaseAssumption, LeaseTypeOK, StandsInv, ~setBack, NEW d \in Driver,
           current # NoRecord => Judge(d, current) # "LIVE",
           NEW e \in Driver, drive[e].at \in {"driving", "lost"}
    PROVE  drive[e].handle.expires <= time
<1>0. drive[e].handle.expires \in Nat /\ time \in Nat
  BY DEF LeaseTypeOK, Drive, Record
<1>1. SUFFICES ASSUME time < drive[e].handle.expires PROVE FALSE
  BY <1>0
<1>2. current = drive[e].handle
  BY <1>1 DEF StandsInv, GrantIsExclusive
<1>3. current.holder = drive[e].life /\ drive[e].life # 0 /\ ~current.released
  BY <1>2 DEF StandsInv, HandlesAreOwn, LivesAreDistinct
<1>4. current # NoRecord
  BY <1>3 DEF NoRecord
<1>5. Judge(d, current) = "LIVE"
  BY <1>0, <1>1, <1>2, <1>3 DEF Judge, Runs
<1>. QED  BY <1>4, <1>5

LEMMA AcquireKeeps ==
    ASSUME RunLeaseAssumption, LeaseTypeOK, StandsInv, NEW d \in Driver, Acquire(d)
    PROVE  StandsInv'
<1>0. UNCHANGED <<time, setBack, born, current, keeper, late>> /\ short = Nobody
  BY DEF Acquire, marks
<1>1. CASE drive'[d] = NoDrive
  <2>1. drive' = [drive EXCEPT ![d] = NoDrive] /\ UNCHANGED <<parked, short>>
    <3>1. SUFFICES ASSUME ~(drive' = [drive EXCEPT ![d] = NoDrive] /\ UNCHANGED <<parked, short>>)
                   PROVE  FALSE
      OBVIOUS
    <3>. DEFINE g == Granted(d, current.generation + 1)
    <3>2. drive' = [drive EXCEPT ![d].at = "parked", ![d].handle = g]
      BY <3>1 DEF Acquire
    <3>3. drive[d] \in Drive
      BY DEF LeaseTypeOK
    <3>. HIDE DEF g
    <3>4. drive'[d] = [drive[d] EXCEPT !.at = "parked", !.handle = g]
      BY <3>2 DEF LeaseTypeOK
    <3>5. drive'[d].at = "parked"
      BY <3>3, <3>4 DEF Drive
    <3>. QED  BY <1>1, <3>5 DEF NoDrive
  <2>2. Others(d)
    BY <2>1, EndsDoes
  <2>3. short' = (IF short = d THEN Nobody ELSE short)
    BY <1>0, <2>1 DEF RunLeaseAssumption
  <2>. QED  BY <1>0, <1>1, <2>1, <2>2, <2>3, RestKeeps
<1>2. CASE drive'[d] # NoDrive
  <2>1. /\ Others(d) /\ drive[d].at = "locked" /\ drive'[d].at = "parked"
        /\ drive'[d].life = drive[d].life /\ drive'[d].failed = drive[d].failed
        /\ drive'[d].handle = Granted(d, current.generation + 1)
        /\ current # NoRecord => Judge(d, current) # "LIVE" /\ ~Conflicts(current)
        /\ parked' = IF current = NoRecord THEN parked ELSE parked \cup {current}
        /\ short' = d
    BY <1>2, AcquireDoes
  <2>2. current.generation + 1 \in Nat /\ current.generation \in Nat
    BY DEF LeaseTypeOK, Record
  <2>3. /\ drive'[d].handle.holder = drive[d].life /\ drive'[d].handle.renewed = time
        /\ drive'[d].handle.generation = current.generation + 1
        /\ drive'[d].handle.expires = time + Ttl /\ drive'[d].handle.released = FALSE
    <3>. DEFINE n == current.generation + 1
                g == Granted(d, n)
    <3>1. drive'[d].handle = g /\ n \in Nat
      BY <2>1, <2>2
    <3>. HIDE DEF n
    <3>2. /\ g.holder = drive[d].life /\ g.renewed = time /\ g.generation = n
          /\ g.expires = time + Ttl /\ g.released = FALSE
      BY <3>1, GrantedType
    <3>. HIDE DEF g
    <3>. QED  BY <3>1, <3>2 DEF n
  <2>4. keeper # "moving" /\ \A e \in Driver : drive[e].at # "parked"
    BY <1>0, NamesDiffer DEF ShortIsHeld, StandsInv
  <2>5. LivesAreDistinct'
    BY <1>0, <2>1 DEF LivesAreDistinct, StandsInv, Others
  <2>6. ShortIsHeld'
    BY <1>0, <2>1, <2>4, NamesDiffer DEF ShortIsHeld, StandsInv, Others
  <2>7. HandlesAreOwn'
    BY <2>1, <2>3 DEF HandlesAreOwn, StandsInv, Others
  <2>8. PeriodsPass'
    BY <1>0, <2>1 DEF PeriodsPass, StandsInv, Others
  <2>9. CopiesArePast'
    BY <1>0, <2>1, <2>2 DEF CopiesArePast, StandsInv
  <2>10. ParkedIsReplaceable'
    BY <1>0, <2>1, <2>3, <2>4, TakenHasLapsed DEF ParkedIsReplaceable, Others
  <2>11. MovedHasEnded'
    BY <1>0, <2>4 DEF MovedHasEnded
  <2>12. RenewalsArePast'
    BY <1>0, <2>1, <2>3 DEF RenewalsArePast, StandsInv, Others, LeaseTypeOK
  <2>13. GrantIsExclusive' /\ GivenUpIsLapsed'
    BY <1>0, <2>1 DEF GrantIsExclusive, GivenUpIsLapsed, StandsInv, Others
  <2>14. ConflictsAreLate'
    BY <1>0, <2>1 DEF ConflictsAreLate, Conflicts, StandsInv
  <2>. QED  BY <2>5, <2>6, <2>7, <2>8, <2>9, <2>10, <2>11, <2>12, <2>13, <2>14 DEF StandsInv
<1>. QED  BY <1>1, <1>2

LEMMA WriteKeeps ==
    ASSUME RunLeaseAssumption, LeaseTypeOK, StandsInv, NEW d \in Driver,
           NEW synced \in BOOLEAN, WriteGrant(d, synced)
    PROVE  StandsInv'
<1>1. /\ Others(d) /\ drive[d].at = "parked"
      /\ drive'[d].at \in {"driving", "ending"}
      /\ drive'[d].life = drive[d].life /\ drive'[d].failed = drive[d].failed
      /\ drive'[d].handle = drive[d].handle /\ drive'[d].next = time + 1
  BY WriteDoes
<1>0. /\ UNCHANGED <<time, setBack, born, parked, keeper, late>> /\ short = d /\ short' = Nobody
      /\ current' = drive[d].handle
  BY DEF WriteGrant
<1>2. keeper # "moving" /\ \A e \in Driver : e # d => drive[e].at # "parked"
  BY <1>0, NamesDiffer DEF ShortIsHeld, StandsInv
<1>3. /\ drive[d].handle.holder = drive[d].life /\ ~drive[d].handle.released
      /\ drive[d].life # 0 /\ drive[d].handle.expires = drive[d].handle.renewed + Ttl
      /\ drive[d].handle.generation = current.generation + 1 /\ drive[d].failed = 0
  BY <1>1 DEF StandsInv, HandlesAreOwn, LivesAreDistinct, ParkedIsReplaceable, PeriodsPass
<1>4. current.generation \in Nat /\ parked \subseteq Record
  BY DEF LeaseTypeOK, Record
<1>5. LivesAreDistinct'
  BY <1>0, <1>1 DEF LivesAreDistinct, StandsInv, Others
<1>6. ShortIsHeld'
  BY <1>0, <1>1, <1>2, NamesDiffer DEF ShortIsHeld, StandsInv, Others
<1>7. HandlesAreOwn'
  BY <1>1, <1>3 DEF HandlesAreOwn, StandsInv, Others
<1>8. PeriodsPass'
  <2>1. drive[d].handle.renewed \in Nat /\ time \in Nat
    BY DEF LeaseTypeOK, Drive, Record
  <2>2. ~setBack => drive[d].handle.renewed <= time
    BY DEF RenewalsArePast, StandsInv
  <2>. QED  BY <1>0, <1>1, <1>3, <2>1, <2>2 DEF PeriodsPass, StandsInv, Others
<1>9. current' # NoRecord
  BY <1>0, <1>3 DEF NoRecord
<1>10. \A c \in parked : c.generation \in Nat /\ c.generation <= current.generation
  BY <1>4 DEF CopiesArePast, StandsInv, Record
<1>11. CopiesArePast'
  BY <1>0, <1>3, <1>4, <1>9, <1>10 DEF CopiesArePast
<1>12. ParkedIsReplaceable'
  BY <1>1, <1>2 DEF ParkedIsReplaceable, Others
<1>13. MovedHasEnded'
  BY <1>0, <1>2 DEF MovedHasEnded
<1>14. RenewalsArePast'
  BY <1>0, <1>1 DEF RenewalsArePast, StandsInv, Others
<1>15. GrantIsExclusive'
  <2>1. SUFFICES ASSUME NEW e \in Driver, drive'[e].at \in {"driving", "lost"},
                        time' < drive'[e].handle.expires, ~setBack'
                 PROVE  current' = drive'[e].handle
    BY DEF GrantIsExclusive
  <2>2. CASE e = d
    BY <1>0, <1>1, <2>2
  <2>3. CASE e # d
    <3>1. drive'[e] = drive[e] /\ drive[e].handle.expires \in Nat /\ time \in Nat
      BY <1>1, <2>3 DEF Others, LeaseTypeOK, Drive, Record
    <3>2. drive[e].handle.expires <= time
      BY <1>0, <1>1, <2>1, <3>1 DEF ParkedIsReplaceable, StandsInv
    <3>. QED  BY <1>0, <2>1, <3>1, <3>2
  <2>. QED  BY <2>2, <2>3
<1>16. GivenUpIsLapsed'
  BY <1>0, <1>1 DEF GivenUpIsLapsed, StandsInv, Others
<1>17. ConflictsAreLate'
  BY <1>0, <1>3, <1>4, <1>10 DEF ConflictsAreLate, Conflicts
<1>. QED
  BY <1>5, <1>6, <1>7, <1>8, <1>11, <1>12, <1>13, <1>14, <1>15, <1>16, <1>17 DEF StandsInv

\* A copy in the way of a changed record is remembered.
LEMMA ConflictsKeep ==
    ASSUME LeaseTypeOK, StandsInv, NEW r \in Record, Changes(r), UNCHANGED parked,
           r.generation = current.generation, current # NoRecord
    PROVE  ConflictsAreLate'
<1>1. SUFFICES ASSUME NEW c \in parked, c.generation = r.generation, c # r
               PROVE  r.generation \in late'
  BY DEF ConflictsAreLate, Conflicts, Changes
<1>2. CASE current \in parked
  BY <1>2 DEF Changes
<1>3. CASE current \notin parked
  <2>1. Conflicts(current)
    BY <1>1, <1>3 DEF Conflicts
  <2>. QED  BY <1>3, <2>1 DEF Changes, ConflictsAreLate, StandsInv
<1>. QED  BY <1>2, <1>3

\* The driver's own grant is a record with its life.
LEMMA OwnGrant ==
    ASSUME LeaseTypeOK, StandsInv, NEW d \in Driver, SameGrant(d),
           drive[d].at \in {"driving", "lost", "ending"}
    PROVE  /\ current.holder = drive[d].life /\ drive[d].life # 0 /\ current # NoRecord
           /\ current.generation \in Nat
BY DEF SameGrant, StandsInv, HandlesAreOwn, LivesAreDistinct, LeaseTypeOK, Record

\* While a driver works on the short lock nobody is between two writes.
LEMMA NobodyMidway ==
    ASSUME RunLeaseAssumption, StandsInv, short = Nobody
    PROVE  keeper # "moving" /\ \A e \in Driver : drive[e].at # "parked"
BY NamesDiffer DEF StandsInv, ShortIsHeld

LEMMA CloseKeeps ==
    ASSUME RunLeaseAssumption, LeaseTypeOK, StandsInv, NEW d \in Driver, Close(d)
    PROVE  StandsInv'
<1>0. /\ UNCHANGED <<time, setBack, born, parked, short, keeper>> /\ short = Nobody
      /\ drive[d].at \in {"driving", "lost", "ending"}
  BY DEF Close
<1>1. Others(d) /\ drive'[d] = NoDrive
  BY CloseDoes
<1>2. CASE UNCHANGED <<current, late>>
  <2>1. short' = (IF short = d THEN Nobody ELSE short)
    BY <1>0
  <2>. QED  BY <1>0, <1>1, <1>2, <2>1, RestKeeps
<1>3. CASE /\ SameGrant(d) /\ current.renewed <= time
           /\ Changes([current EXCEPT !.released = TRUE, !.ended = time])
  <2>. DEFINE r == [current EXCEPT !.released = TRUE, !.ended = time]
  <2>1. /\ r \in Record /\ r.holder = current.holder /\ r.generation = current.generation
        /\ r.acquired = current.acquired
    BY RenewedRecord
  <2>2. r.renewed = current.renewed
    BY DEF LeaseTypeOK, Record
  <2>3. Changes(r)
    BY <1>3
  <2>. HIDE DEF r
  <2>4. current' = r
    BY <2>3 DEF Changes
  <2>5. /\ NoDrive.at = "off" /\ NoDrive.life = 0 /\ NoDrive.handle.renewed = 0
        /\ NoRecord.holder = 0 /\ NoDrive.failed = 0
    BY DEF NoDrive, NoRecord
  <2>6. /\ drive'[d].at = "off" /\ drive'[d].life = 0 /\ drive'[d].handle.renewed = 0
        /\ drive'[d].failed = 0
        /\ \A e \in Driver : e # d => drive'[e] = drive[e]
    BY <1>1, <2>5 DEF Others
  <2>7. current.holder # 0 /\ current # NoRecord /\ current' # NoRecord
    BY <1>0, <1>3, <2>1, <2>4, <2>5, OwnGrant DEF LeaseTypeOK, Drive
  <2>8. keeper # "moving" /\ \A e \in Driver : drive[e].at # "parked"
    BY <1>0, NobodyMidway
  <2>9. LivesAreDistinct'
    BY <1>0, <2>6 DEF LivesAreDistinct, StandsInv, LeaseTypeOK
  <2>10. ShortIsHeld'
    BY <1>0, <2>6 DEF ShortIsHeld, StandsInv
  <2>11. HandlesAreOwn' /\ PeriodsPass'
    BY <1>0, <2>6 DEF HandlesAreOwn, PeriodsPass, StandsInv
  <2>12. CopiesArePast'
    BY <1>0, <2>1, <2>4, <2>7 DEF CopiesArePast, StandsInv
  <2>13. ParkedIsReplaceable' /\ MovedHasEnded'
    BY <1>0, <2>6, <2>8 DEF ParkedIsReplaceable, MovedHasEnded
  <2>14. RenewalsArePast'
    BY <1>0, <2>2, <2>4, <2>6 DEF RenewalsArePast, StandsInv, LeaseTypeOK
  <2>15. GivenUpIsLapsed'
    BY <1>0, <2>6 DEF GivenUpIsLapsed, StandsInv
  <2>16. GrantIsExclusive'
    <3>1. SUFFICES ASSUME NEW e \in Driver, drive'[e].at \in {"driving", "lost"},
                          time < drive'[e].handle.expires, ~setBack
                   PROVE  FALSE
      BY <1>0 DEF GrantIsExclusive
    <3>2. e # d /\ drive'[e] = drive[e]
      BY <2>6, <3>1
    <3>3. drive[e].handle.expires <= time
      BY <1>0, <1>3, <3>1, <3>2, OthersHaveLapsed
    <3>4. drive[e].handle.expires \in Nat /\ time \in Nat
      BY DEF LeaseTypeOK, Drive, Record
    <3>. QED  BY <3>1, <3>2, <3>3, <3>4
  <2>17. ConflictsAreLate'
    BY <1>0, <2>1, <2>3, <2>7, ConflictsKeep
  <2>. QED
    BY <2>9, <2>10, <2>11, <2>12, <2>13, <2>14, <2>15, <2>16, <2>17 DEF StandsInv
<1>. QED  BY <1>2, <1>3, CloseDoes

LEMMA RenewKeeps ==
    ASSUME RunLeaseAssumption, LeaseTypeOK, StandsInv, NEW d \in Driver, Renew(d)
    PROVE  StandsInv'
<1>0. /\ UNCHANGED <<time, setBack, born, parked, short, keeper>> /\ short = Nobody
      /\ drive[d].at = "driving" /\ drive[d].next <= time
  BY DEF Renew
<1>1. Others(d) /\ drive'[d].life = drive[d].life
  BY RenewDoes
<1>2. keeper # "moving" /\ \A e \in Driver : drive[e].at # "parked"
  BY <1>0, NobodyMidway
<1>3. /\ drive[d].next \in Nat /\ drive[d].failed \in Nat /\ drive[d].handle.renewed \in Nat
      /\ drive[d].handle.expires \in Nat /\ time \in Nat /\ current.renewed \in Nat
      /\ current.expires \in Nat /\ Ttl \in Nat
  BY DEF LeaseTypeOK, Drive, Record, RunLeaseAssumption
<1>4. drive'[d].at \in {"driving", "lost"}
  BY <1>0, RenewDoes DEF Renewed, Counted, Refused
<1>5. LivesAreDistinct'
  BY <1>0, <1>1 DEF LivesAreDistinct, StandsInv, Others
<1>6. ShortIsHeld'
  BY <1>0, <1>1, <1>4 DEF ShortIsHeld, StandsInv, Others
<1>7. ParkedIsReplaceable' /\ MovedHasEnded'
  BY <1>0, <1>1, <1>2, <1>4 DEF ParkedIsReplaceable, MovedHasEnded, Others
<1>8. CASE Renewed(d)
  <2>. DEFINE r == [current EXCEPT !.renewed = time, !.expires = time + Ttl]
  <2>1. /\ r \in Record /\ r.holder = current.holder /\ r.generation = current.generation
        /\ r.acquired = current.acquired
    BY RenewedRecord
  <2>2. r.renewed = time /\ r.expires = time + Ttl /\ r.released = current.released
    BY DEF LeaseTypeOK, Record
  <2>3. /\ Changes(r) /\ SameGrant(d) /\ drive'[d].at = "driving"
        /\ drive'[d].handle = current' /\ drive'[d].next = time + 1 /\ drive'[d].failed = 0
    BY <1>0, <1>8 DEF Renewed
  <2>. HIDE DEF r
  <2>4. current' = r
    BY <2>3 DEF Changes
  <2>5. current.holder = drive[d].life /\ drive[d].life # 0 /\ current # NoRecord
    BY <1>0, <2>3, OwnGrant
  <2>6. current' # NoRecord
    BY <2>1, <2>4, <2>5 DEF NoRecord
  <2>7. HandlesAreOwn'
    BY <1>1, <2>1, <2>2, <2>3, <2>4, <2>5 DEF HandlesAreOwn, StandsInv, Others, SameGrant
  <2>8. PeriodsPass'
    BY <1>0, <1>1, <1>3, <2>2, <2>3, <2>4 DEF PeriodsPass, StandsInv, Others
  <2>9. CopiesArePast'
    BY <1>0, <2>1, <2>4, <2>6 DEF CopiesArePast, StandsInv
  <2>10. RenewalsArePast'
    BY <1>0, <1>1, <1>3, <2>2, <2>3, <2>4 DEF RenewalsArePast, StandsInv, Others
  <2>11. GivenUpIsLapsed'
    BY <1>0, <1>1, <2>3 DEF GivenUpIsLapsed, StandsInv, Others
  <2>12. GrantIsExclusive'
    <3>1. SUFFICES ASSUME NEW e \in Driver, drive'[e].at \in {"driving", "lost"},
                          time < drive'[e].handle.expires, ~setBack, e # d
                   PROVE  FALSE
      BY <1>0, <2>3 DEF GrantIsExclusive
    <3>2. drive'[e] = drive[e]
      BY <1>1, <3>1 DEF Others
    <3>3. drive[e].handle.expires <= time
      BY <1>0, <2>3, <3>1, <3>2, OthersHaveLapsed
    <3>4. drive[e].handle.expires \in Nat /\ time \in Nat
      BY DEF LeaseTypeOK, Drive, Record
    <3>. QED  BY <3>1, <3>2, <3>3, <3>4
  <2>13. ConflictsAreLate'
    BY <1>0, <2>1, <2>3, <2>5, ConflictsKeep
  <2>. QED
    BY <1>5, <1>6, <1>7, <2>7, <2>8, <2>9, <2>10, <2>11, <2>12, <2>13 DEF StandsInv
<1>9. CASE \/ Counted(d) /\ time < current.renewed
           \/ Refused(d)
  <2>1. UNCHANGED <<current, late>> /\ drive'[d].handle = drive[d].handle
    BY <1>9 DEF Counted, Refused
  <2>2. HandlesAreOwn'
    BY <1>0, <1>1, <1>4, <2>1 DEF HandlesAreOwn, StandsInv, Others
  <2>3. PeriodsPass'
    <3>1. drive'[d].at = "driving" => /\ drive'[d].next = time + 1
                                      /\ drive'[d].failed = drive[d].failed + 1
      BY <1>9 DEF Counted, Refused
    <3>2. ~setBack => drive[d].next >= drive[d].handle.renewed + 1 + drive[d].failed
      BY <1>0 DEF PeriodsPass, StandsInv
    <3>3. drive'[d].at = "driving" /\ ~setBack
             => drive'[d].next >= drive'[d].handle.renewed + 1 + drive'[d].failed
      BY <1>0, <1>3, <2>1, <3>1, <3>2
    <3>. QED  BY <1>0, <1>1, <1>4, <3>3 DEF PeriodsPass, StandsInv, Others
  <2>4. CopiesArePast' /\ ConflictsAreLate'
    BY <1>0, <2>1 DEF CopiesArePast, ConflictsAreLate, Conflicts, StandsInv
  <2>5. RenewalsArePast'
    BY <1>0, <1>1, <2>1 DEF RenewalsArePast, StandsInv, Others
  <2>6. GrantIsExclusive'
    BY <1>0, <1>1, <1>4, <2>1 DEF GrantIsExclusive, StandsInv, Others
  <2>7. drive'[d].at = "lost" /\ ~setBack => drive[d].handle.expires <= time
    <3>1. SUFFICES ASSUME ~setBack, time < drive[d].handle.expires
                   PROVE  drive'[d].at # "lost"
      BY <1>3
    <3>2. current = drive[d].handle
      BY <1>0, <3>1 DEF GrantIsExclusive, StandsInv
    <3>3. SameGrant(d) /\ time < current.expires
      BY <1>0, <3>1, <3>2 DEF SameGrant, NoRecord, StandsInv, HandlesAreOwn, LivesAreDistinct
    <3>4. ~(time < current.renewed)
      BY <1>3, <3>1 DEF RenewalsArePast, StandsInv
    <3>. QED  BY <1>9, <3>3, <3>4 DEF Refused
  <2>8. GivenUpIsLapsed'
    BY <1>0, <1>1, <2>1, <2>7 DEF GivenUpIsLapsed, StandsInv, Others
  <2>. QED  BY <1>5, <1>6, <1>7, <2>2, <2>3, <2>4, <2>5, <2>6, <2>8 DEF StandsInv
<1>. QED  BY <1>8, <1>9, RenewDoes

LEMMA RenewFailsKeeps ==
    ASSUME RunLeaseAssumption, LeaseTypeOK, StandsInv, NEW d \in Driver, RenewFails(d)
    PROVE  StandsInv'
<1>0. /\ UNCHANGED <<time, setBack, born, current, parked, short, keeper, late>>
      /\ drive[d].at = "driving" /\ drive[d].next <= time
  BY DEF RenewFails, files, marks
<1>1. /\ Others(d) /\ drive'[d].life = drive[d].life /\ drive'[d].handle = drive[d].handle
      /\ drive'[d].next = time + 1 /\ drive'[d].failed = drive[d].failed + 1
      /\ drive'[d].at = IF drive[d].failed + 1 >= MaxRenewFailures THEN "lost" ELSE "driving"
  BY CountDoes DEF RenewFails
<1>2. drive'[d].at \in {"driving", "lost"}
  BY <1>1
<1>3. /\ drive[d].next \in Nat /\ drive[d].failed \in Nat /\ drive[d].handle.renewed \in Nat
      /\ drive[d].handle.expires \in Nat /\ time \in Nat
      /\ Ttl \in Nat /\ MaxRenewFailures \in Nat /\ Ttl <= MaxRenewFailures
  BY DEF LeaseTypeOK, Drive, Record, RunLeaseAssumption
<1>4. ~setBack => drive[d].next >= drive[d].handle.renewed + 1 + drive[d].failed
  BY <1>0 DEF PeriodsPass, StandsInv
<1>5. LivesAreDistinct'
  BY <1>0, <1>1 DEF LivesAreDistinct, StandsInv, Others
<1>6. ShortIsHeld'
  BY <1>0, <1>1, <1>2 DEF ShortIsHeld, StandsInv, Others
<1>7. HandlesAreOwn'
  BY <1>0, <1>1, <1>2 DEF HandlesAreOwn, StandsInv, Others
<1>8. CopiesArePast' /\ MovedHasEnded' /\ ConflictsAreLate'
  BY <1>0 DEF CopiesArePast, MovedHasEnded, ConflictsAreLate, Conflicts, Ended, StandsInv
<1>9. ParkedIsReplaceable'
  BY <1>0, <1>1, <1>2 DEF ParkedIsReplaceable, StandsInv, Others
<1>10. RenewalsArePast'
  BY <1>0, <1>1 DEF RenewalsArePast, StandsInv, Others
<1>11. PeriodsPass'
  <2>1. ~setBack => drive'[d].next >= drive'[d].handle.renewed + 1 + drive'[d].failed
    BY <1>0, <1>1, <1>3, <1>4
  <2>. QED  BY <1>0, <1>1, <1>2, <2>1 DEF PeriodsPass, StandsInv, Others
<1>12. GrantIsExclusive'
  BY <1>0, <1>1, <1>2 DEF GrantIsExclusive, StandsInv, Others
<1>13. drive'[d].at = "lost" /\ ~setBack => drive[d].handle.expires <= time
  <2>1. drive[d].handle.expires = drive[d].handle.renewed + Ttl
    BY <1>0 DEF HandlesAreOwn, StandsInv
  <2>2. drive'[d].at = "lost" => drive[d].failed + 1 >= MaxRenewFailures
    BY <1>1
  <2>. QED  BY <1>0, <1>3, <1>4, <2>1, <2>2
<1>14. GivenUpIsLapsed'
  BY <1>0, <1>1, <1>13 DEF GivenUpIsLapsed, StandsInv, Others
<1>. QED
  BY <1>5, <1>6, <1>7, <1>8, <1>9, <1>10, <1>11, <1>12, <1>14 DEF StandsInv

LEMMA DiesKeeps ==
    ASSUME RunLeaseAssumption, LeaseTypeOK, StandsInv, NEW d \in Driver, DriverDies(d)
    PROVE  StandsInv'
<1>1. Others(d) /\ drive'[d] = NoDrive
  BY EndsDoes DEF DriverDies
<1>. QED  BY <1>1, RestKeeps DEF DriverDies, files, marks

\* The archive leaves every driver as it is.
LEMMA ArchiveKeeps ==
    ASSUME RunLeaseAssumption, LeaseTypeOK, StandsInv,
           ArchivePlan \/ ArchiveReplans \/ ArchiveMoves \/ ArchiverDies
    PROVE  StandsInv'
<1>0. UNCHANGED <<time, setBack, born, drive, late>>
  BY DEF ArchivePlan, ArchiveReplans, ArchiveMoves, ArchiverDies, files, marks
<1>1. LivesAreDistinct' /\ HandlesAreOwn' /\ PeriodsPass' /\ GivenUpIsLapsed'
  BY <1>0 DEF LivesAreDistinct, HandlesAreOwn, PeriodsPass, GivenUpIsLapsed, StandsInv
<1>2. ShortIsHeld'
  <2>1. CASE ArchivePlan
    BY <2>1, <1>0, NamesDiffer DEF ArchivePlan, ShortIsHeld, StandsInv
  <2>2. CASE ArchiveReplans
    BY <2>2, <1>0, NamesDiffer DEF ArchiveReplans, ShortIsHeld, StandsInv
  <2>3. CASE ArchiveMoves
    BY <2>3, <1>0, NamesDiffer DEF ArchiveMoves, ShortIsHeld, StandsInv
  <2>4. CASE ArchiverDies
    BY <2>4, <1>0, NamesDiffer DEF ArchiverDies, ShortIsHeld, StandsInv
  <2>. QED  BY <2>1, <2>2, <2>3, <2>4
<1>3. CASE UNCHANGED <<current, parked>>
  <2>1. CopiesArePast' /\ ParkedIsReplaceable' /\ RenewalsArePast'
    BY <1>0, <1>3 DEF CopiesArePast, ParkedIsReplaceable, RenewalsArePast, StandsInv
  <2>2. GrantIsExclusive' /\ ConflictsAreLate'
    BY <1>0, <1>3 DEF GrantIsExclusive, ConflictsAreLate, Conflicts, StandsInv
  <2>3. MovedHasEnded'
    BY <1>0, <1>3 DEF ArchivePlan, ArchiveReplans, ArchiveMoves, ArchiverDies, Archivable,
                      MovedHasEnded, Ended, StandsInv
  <2>. QED  BY <1>1, <1>2, <2>1, <2>2, <2>3 DEF StandsInv
<1>4. CASE keeper = "moving" /\ UNCHANGED <<current, keeper, short>> /\ parked' \subseteq parked
  <2>1. \A e \in Driver : drive[e].at # "parked"
    BY <1>4, NamesDiffer DEF ShortIsHeld, StandsInv
  <2>2. CopiesArePast' /\ ParkedIsReplaceable' /\ RenewalsArePast' /\ MovedHasEnded'
    BY <1>0, <1>4, <2>1
       DEF CopiesArePast, ParkedIsReplaceable, RenewalsArePast, MovedHasEnded, Ended, StandsInv
  <2>3. GrantIsExclusive' /\ ConflictsAreLate'
    BY <1>0, <1>4 DEF GrantIsExclusive, ConflictsAreLate, Conflicts, StandsInv
  <2>. QED  BY <1>1, <1>2, <2>2, <2>3 DEF StandsInv
<1>5. CASE /\ keeper = "moving" /\ current # NoRecord /\ current' = NoRecord
           /\ parked = {} /\ UNCHANGED <<parked, keeper, short>>
  <2>1. \A e \in Driver : drive[e].at # "parked"
    BY <1>5, NamesDiffer DEF ShortIsHeld, StandsInv
  <2>2. CopiesArePast' /\ ParkedIsReplaceable' /\ MovedHasEnded' /\ ConflictsAreLate'
    BY <1>0, <1>5, <2>1 DEF CopiesArePast, ParkedIsReplaceable, MovedHasEnded, ConflictsAreLate
  <2>3. RenewalsArePast'
    BY <1>0, <1>5 DEF RenewalsArePast, NoRecord, LeaseTypeOK, StandsInv
  <2>4. GrantIsExclusive'
    <3>1. SUFFICES ASSUME NEW e \in Driver, drive[e].at \in {"driving", "lost"},
                          time < drive[e].handle.expires, ~setBack
                   PROVE  FALSE
      BY <1>0 DEF GrantIsExclusive
    <3>2. current = drive[e].handle /\ ~drive[e].handle.released
      BY <3>1 DEF GrantIsExclusive, HandlesAreOwn, StandsInv
    <3>3. Ended(current) = drive[e].handle.expires
      BY <3>2 DEF Ended
    <3>4. drive[e].handle.expires + MinAge <= time
      BY <1>5, <3>1, <3>3 DEF MovedHasEnded, StandsInv
    <3>5. drive[e].handle.expires \in Nat /\ time \in Nat /\ MinAge \in Nat
      BY DEF LeaseTypeOK, Drive, Record, RunLeaseAssumption
    <3>. QED  BY <3>1, <3>4, <3>5
  <2>. QED  BY <1>1, <1>2, <2>2, <2>3, <2>4 DEF StandsInv
<1>. QED
  BY <1>3, <1>4, <1>5 DEF ArchivePlan, ArchiveReplans, ArchiveMoves, ArchiverDies, files

LEMMA ClockKeeps ==
    ASSUME RunLeaseAssumption, LeaseTypeOK, StandsInv, LeaseTick \/ ClockSetBack
    PROVE  StandsInv'
<1>0. /\ UNCHANGED <<born, drive, current, parked, short, keeper, late>>
      /\ ~setBack' => ~setBack /\ time' = time + 1
  BY DEF LeaseTick, ClockSetBack, files, marks
<1>1. time \in Nat /\ MinAge \in Nat /\ Ended(current) \in Nat /\ current.renewed \in Nat
      /\ \A d \in Driver : drive[d].handle.expires \in Nat /\ drive[d].handle.renewed \in Nat
  BY DEF LeaseTypeOK, Drive, Record, RunLeaseAssumption, Ended
<1>2. LivesAreDistinct' /\ HandlesAreOwn' /\ PeriodsPass' /\ ShortIsHeld'
  BY <1>0 DEF LivesAreDistinct, HandlesAreOwn, PeriodsPass, ShortIsHeld, StandsInv
<1>3. CopiesArePast' /\ ConflictsAreLate'
  BY <1>0 DEF CopiesArePast, ConflictsAreLate, Conflicts, StandsInv
<1>4. ParkedIsReplaceable'
  BY <1>0, <1>1 DEF ParkedIsReplaceable, StandsInv
<1>5. MovedHasEnded'
  <2>1. Ended(current)' = Ended(current)
    BY <1>0 DEF Ended
  <2>. QED  BY <1>0, <1>1, <2>1 DEF MovedHasEnded, StandsInv
<1>6. RenewalsArePast'
  BY <1>0, <1>1 DEF RenewalsArePast, StandsInv
<1>7. GrantIsExclusive' /\ GivenUpIsLapsed'
  BY <1>0, <1>1 DEF GrantIsExclusive, GivenUpIsLapsed, StandsInv
<1>. QED  BY <1>2, <1>3, <1>4, <1>5, <1>6, <1>7 DEF StandsInv

-----------------------------------------------------------------------------
(* The theorems.                                                           *)

LeaseInv == LeaseTypeOK /\ StandsInv /\ ReplacedIsKept

LEMMA LeaseStarts == LeaseInit => LeaseInv
<1>. SUFFICES ASSUME LeaseInit PROVE LeaseInv
  OBVIOUS
<1>1. LeaseTypeOK
  BY NoneType DEF LeaseInit, LeaseTypeOK
<1>2. /\ NoDrive.at = "off" /\ NoDrive.life = 0 /\ NoDrive.handle = NoRecord
      /\ NoDrive.failed = 0 /\ NoRecord.renewed = 0
  BY DEF NoDrive, NoRecord
<1>3. \A d \in Driver : /\ drive[d].at = "off" /\ drive[d].life = 0 /\ drive[d].failed = 0
                        /\ drive[d].handle.renewed = 0
  BY <1>2 DEF LeaseInit
<1>4. StandsInv
  BY <1>2, <1>3, RunLeaseAssumption, NamesDiffer
     DEF LeaseInit, StandsInv, LivesAreDistinct, ShortIsHeld, HandlesAreOwn, CopiesArePast,
         ParkedIsReplaceable, MovedHasEnded, RenewalsArePast, PeriodsPass, GrantIsExclusive,
         GivenUpIsLapsed, ConflictsAreLate
<1>5. ReplacedIsKept
  BY DEF LeaseInit, ReplacedIsKept
<1>. QED  BY <1>1, <1>4, <1>5 DEF LeaseInv

\* A step replaces only what is parked, and moves what is parked to the archive.
LEMMA KeptKeeps ==
    ASSUME RunLeaseAssumption, LeaseInv, LeaseNext
    PROVE  ReplacedIsKept'
<1>1. CASE \E d \in Driver : \E synced \in BOOLEAN : WriteGrant(d, synced)
  <2>1. PICK d \in Driver : \E synced \in BOOLEAN : WriteGrant(d, synced)
    BY <1>1
  <2>2. current # NoRecord => current \in parked
    BY <2>1 DEF WriteGrant, LeaseInv, StandsInv, ParkedIsReplaceable
  <2>3. /\ UNCHANGED <<parked, archive>>
        /\ replaced' = IF current = NoRecord THEN replaced ELSE replaced \cup {current}
    BY <2>1 DEF WriteGrant
  <2>. QED  BY <2>2, <2>3 DEF ReplacedIsKept, LeaseInv
<1>2. CASE ArchiveMoves
  <2>1. parked \cup archive \subseteq parked' \cup archive' /\ replaced' = replaced
    BY <1>2 DEF ArchiveMoves, files, marks
  <2>. QED  BY <2>1 DEF ReplacedIsKept, LeaseInv
<1>3. CASE /\ parked \subseteq parked' /\ archive' = archive /\ replaced' = replaced
  BY <1>3 DEF ReplacedIsKept, LeaseInv
<1>. QED
  BY <1>1, <1>2, <1>3
     DEF LeaseNext, Starts, Acquire, Renew, RenewFails, Close, DriverDies, ArchivePlan,
         ArchiveReplans, ArchiverDies, LeaseTick, ClockSetBack, files, marks

LEMMA LeaseStep == LeaseInv /\ [LeaseNext]_leaseVars => LeaseInv'
<1>1. ASSUME LeaseInv, LeaseNext PROVE LeaseTypeOK' /\ StandsInv'
  <2>. USE RunLeaseAssumption, <1>1 DEF LeaseInv
  <2>1. CASE \E d \in Driver : Starts(d)
    BY <2>1, DriverType, StartsKeeps
  <2>2. CASE \E d \in Driver : Acquire(d)
    BY <2>2, DriverType, AcquireKeeps
  <2>3. CASE \E d \in Driver : Renew(d)
    BY <2>3, DriverType, RenewKeeps
  <2>4. CASE \E d \in Driver : RenewFails(d)
    BY <2>4, DriverType, RenewFailsKeeps
  <2>5. CASE \E d \in Driver : Close(d)
    BY <2>5, DriverType, CloseKeeps
  <2>6. CASE \E d \in Driver : DriverDies(d)
    BY <2>6, DriverType, DiesKeeps
  <2>7. CASE \E d \in Driver : \E synced \in BOOLEAN : WriteGrant(d, synced)
    BY <2>7, DriverType, WriteKeeps
  <2>8. CASE ArchivePlan \/ ArchiveReplans \/ ArchiveMoves \/ ArchiverDies
    BY <2>8, ArchiveType, ArchiveKeeps
  <2>9. CASE LeaseTick \/ ClockSetBack
    BY <2>9, ArchiveType, ClockKeeps
  <2>. QED
    BY <1>1, <2>1, <2>2, <2>3, <2>4, <2>5, <2>6, <2>7, <2>8, <2>9 DEF LeaseNext
<1>2. ASSUME LeaseInv, LeaseNext PROVE ReplacedIsKept'
  BY <1>2, RunLeaseAssumption, KeptKeeps
<1>3. ASSUME LeaseInv, UNCHANGED leaseVars PROVE LeaseInv'
  BY <1>3 DEF LeaseInv, leaseVars, LeaseTypeOK, StandsInv, ReplacedIsKept, LivesAreDistinct,
     ShortIsHeld, HandlesAreOwn, CopiesArePast, ParkedIsReplaceable, MovedHasEnded,
     RenewalsArePast, PeriodsPass, GrantIsExclusive, GivenUpIsLapsed, ConflictsAreLate,
     Conflicts, Ended
<1>. QED  BY <1>1, <1>2, <1>3 DEF LeaseInv

\* Every variable keeps to its type, for any drivers, hosts and deaths (runlease.py).
THEOREM LeaseTyping == LeaseSpec => []LeaseTypeOK
<1>1. LeaseInv => LeaseTypeOK
  BY DEF LeaseInv
<1>. QED  BY <1>1, LeaseStarts, LeaseStep, PTL DEF LeaseSpec

\* A lease stands until it has run out, and the record it replaced is parked or archived,
\* for any number of drivers on any hosts and in any namespaces, for every lifetime of up
\* to MAX_RENEW_FAILURES periods, whoever dies and whatever the archive does (_judge,
\* acquire, renew, _keepalive, _run_entries).
THEOREM LeaseIsKeptHolds == LeaseSpec => []LeaseIsKept
<1>1. LeaseInv => LeaseIsKept
  BY DEF LeaseInv, StandsInv, LeaseStands, LeaseIsKept
<1>. QED  BY <1>1, LeaseStarts, LeaseStep, PTL DEF LeaseSpec

\* The archive takes no lease that had not ended MinAge before (apply plans again under
\* the lock that every writer of a lease takes).
THEOREM ArchivedHasEndedHolds == LeaseSpec => ArchivedHasEnded
<1>1. ASSUME LeaseInv, LeaseNext, current # NoRecord, current' = NoRecord, ~setBack'
      PROVE  Ended(current) + MinAge <= time
  <2>1. CASE ArchiveMoves
    BY <1>1, <2>1 DEF ArchiveMoves, LeaseInv, StandsInv, MovedHasEnded
  <2>2. CASE \E d \in Driver : \E synced \in BOOLEAN : WriteGrant(d, synced)
    <3>1. PICK d \in Driver : \E synced \in BOOLEAN : WriteGrant(d, synced)
      BY <2>2
    <3>2. drive[d].at = "parked" /\ current' = drive[d].handle
      BY <3>1 DEF WriteGrant
    <3>3. current'.holder # 0
      BY <1>1, <3>2 DEF LeaseInv, StandsInv, HandlesAreOwn, LivesAreDistinct
    <3>. QED  BY <1>1, <3>3 DEF NoRecord
  <2>3. CASE \E d \in Driver : Renew(d) \/ Close(d)
    <3>1. PICK d \in Driver : Renew(d) \/ Close(d)
      BY <2>3
    <3>2. /\ SameGrant(d) /\ drive[d].at \in {"driving", "lost", "ending"}
          /\ \E r : /\ Changes(r)
                    /\ \/ r = [current EXCEPT !.renewed = time, !.expires = time + Ttl]
                       \/ r = [current EXCEPT !.released = TRUE, !.ended = time]
      BY <1>1, <3>1 DEF Renew, Close
    <3>3. current.holder = drive[d].life /\ drive[d].life # 0
      BY <1>1, <3>2, OwnGrant DEF LeaseInv
    <3>4. current'.holder = current.holder
      BY <1>1, <3>2, RenewedRecord, RunLeaseAssumption DEF Changes, LeaseInv
    <3>. QED  BY <1>1, <3>3, <3>4 DEF NoRecord
  <2>. QED
    BY <1>1, <2>1, <2>2, <2>3
       DEF LeaseNext, Starts, Acquire, RenewFails, DriverDies, ArchivePlan, ArchiveReplans,
           ArchiverDies, LeaseTick, ClockSetBack, files
<1>2. LeaseInv /\ [LeaseNext]_leaseVars
        => [current # NoRecord /\ current' = NoRecord /\ ~setBack'
              => Ended(current) + MinAge <= time]_leaseVars
  BY <1>1
<1>. QED  BY <1>2, LeaseStarts, LeaseStep, PTL DEF LeaseSpec, ArchivedHasEnded

-----------------------------------------------------------------------------
(* PART TWO: the sessions and the workspaces                               *)

-----------------------------------------------------------------------------
(* Moving a process, and writing a workspace's record                      *)

Ats == {"idle"} \cup Driving \cup Creating \cup Cleaning
WsStates == {"none", "REGISTERED", "ACTIVE", "RELEASED"}

\* A process that goes somewhere is somewhere a process can be.
LEMMA AtMoves ==
    ASSUME NEW f \in [Proc -> Place], NEW p \in Proc, NEW at \in Ats
    PROVE  [f EXCEPT ![p].at = at] \in [Proc -> Place]
BY SMT DEF Place, Ats
LEMMA NMoves ==
    ASSUME NEW f \in [Proc -> Place], NEW p \in Proc, NEW n \in Nat
    PROVE  [f EXCEPT ![p].n = n] \in [Proc -> Place]
BY SMT DEF Place
LEMMA WsMoves ==
    ASSUME NEW f \in [Proc -> Place], NEW p \in Proc, NEW w \in Workspace \cup {"none"}
    PROVE  [f EXCEPT ![p].ws = w] \in [Proc -> Place]
BY SMT DEF Place

LEMMA HeldMoves ==
    ASSUME NEW f \in [Proc -> Place], NEW p \in Proc, NEW b \in BOOLEAN
    PROVE  [f EXCEPT ![p].held = b] \in [Proc -> Place]
BY SMT DEF Place
LEMMA FdMoves ==
    ASSUME NEW f \in [Proc -> Place], NEW p \in Proc, NEW d \in Dir
    PROVE  [f EXCEPT ![p].fd = d] \in [Proc -> Place]
BY SMT DEF Place

\* Going somewhere else with the number of the driver lease, or with a workspace.
LEMMA PlaceAtN ==
    ASSUME NEW f \in [Proc -> Place], NEW p \in Proc, NEW at \in Ats, NEW n \in Nat
    PROVE  [f EXCEPT ![p].at = at, ![p].n = n] \in [Proc -> Place]
<1>1. [f EXCEPT ![p].at = at] \in [Proc -> Place]
    BY AtMoves
<1>. QED BY <1>1, NMoves, Zenon
LEMMA PlaceAtWs ==
    ASSUME NEW f \in [Proc -> Place], NEW p \in Proc, NEW at \in Ats,
           NEW w \in Workspace \cup {"none"}
    PROVE  [f EXCEPT ![p].at = at, ![p].ws = w] \in [Proc -> Place]
<1>1. [f EXCEPT ![p].at = at] \in [Proc -> Place]
    BY AtMoves
<1>. QED BY <1>1, WsMoves, Zenon

LEMMA PlaceAtFd ==
    ASSUME NEW f \in [Proc -> Place], NEW p \in Proc, NEW at \in Ats, NEW d \in Dir
    PROVE  [f EXCEPT ![p].at = at, ![p].fd = d] \in [Proc -> Place]
<1>1. [f EXCEPT ![p].at = at] \in [Proc -> Place]
    BY AtMoves
<1>. QED BY <1>1, FdMoves, Zenon

LEMMA PlaceAtHeld ==
    ASSUME NEW f \in [Proc -> Place], NEW p \in Proc, NEW at \in Ats, NEW b \in BOOLEAN
    PROVE  [f EXCEPT ![p].at = at, ![p].held = b] \in [Proc -> Place]
<1>1. [f EXCEPT ![p].at = at] \in [Proc -> Place]
    BY AtMoves
<1>. QED BY <1>1, HeldMoves, Zenon

\* A record that ends is a record.
LEMMA ReservedMoves ==
    ASSUME NEW f \in [Workspace -> WsRecord], NEW w \in Workspace, NEW b \in BOOLEAN
    PROVE  [f EXCEPT ![w].reserved = b] \in [Workspace -> WsRecord]
BY SMT DEF WsRecord
LEMMA StateMoves ==
    ASSUME NEW f \in [Workspace -> WsRecord], NEW w \in Workspace, NEW state \in WsStates
    PROVE  [f EXCEPT ![w].state = state] \in [Workspace -> WsRecord]
BY SMT DEF WsRecord, WsStates

-----------------------------------------------------------------------------
(* Every step keeps the invariant                                          *)

\* Who neither makes nor cleans a workspace leaves the workspaces as they are.
LEMMA ScratchRests ==
    ASSUME SessInv, UNCHANGED <<life, lives, scratch>>,
           \A q \in Proc : /\ step'[q].ws = step[q].ws /\ step'[q].held = step[q].held
                           /\ step'[q].fd = step[q].fd
                           /\ \/ step'[q].at = step[q].at
                              \/ /\ step'[q].at \notin Creating \cup Cleaning
                                 /\ step[q].at \notin Creating \cup Cleaning
    PROVE  ScratchInv'
BY SMT DEF SessInv, ScratchInv, CreationInv, PlaceInv, ReservedInv, NothingForeignRemoved,
           ContentIsRecorded, Creating, Cleaning, scratch

\* Who neither opens nor closes a session has what he had in hand.
LEMMA LeasesStay ==
    ASSUME SessInv, UNCHANGED <<life, lives, mine, leases>>,
           \A q \in Proc : /\ step'[q].sess = step[q].sess /\ (life[q] = 0 => step'[q] = step[q])
                           /\ \/ step'[q].at = step[q].at
                              \/ step'[q].at \notin Driving \cup Creating
                              \/ mine[q] # NoLease
    PROVE  LeasesInv'
BY SMT DEF SessInv, LeasesInv, LivesInv, HandsInv, SequenceInv, LeaseInHand, leases

\* Who makes or cleans a workspace leaves the leases as they are.
LEMMA LeasesRest ==
    ASSUME SessInv, UNCHANGED <<life, lives, mine, leases, driving>>,
           \A q \in Proc : /\ step'[q].sess = step[q].sess /\ (life[q] = 0 => step'[q] = step[q])
                           /\ \/ step'[q].at = step[q].at
                              \/ step'[q].at \notin Driving \cup Creating
                              \/ step'[q].at \in Creating /\ mine[q] # NoLease
    PROVE  LeasesInv' /\ DriverInv'
<1>1. LeasesInv'
    BY LeasesStay
<1>2. DriverInv'
    BY SMT DEF SessInv, DriverInv, RenamedUnderLock, WorkerIsDriver, IsAt, NamesLease, Driving,
               Creating, driving, leases
<1>. QED BY <1>1, <1>2

LEMMA OpenSessionKeeps ==
    ASSUME SessInv, NEW p \in Proc, NEW s \in Session, NEW seen \in BOOLEAN,
           OpenSession(p, s, seen)
    PROVE  SessInv'
<1>. DEFINE l == [life |-> life[p], seq |-> sequence + 1]
<1>0. /\ l \in Lease /\ l.life = life[p] /\ l.seq = sequence + 1 /\ life[p] # 0
      /\ lease' = [lease EXCEPT ![s] = l] /\ mine' = [mine EXCEPT ![p] = l]
      /\ sequence' = sequence + 1 /\ sequence \in Nat /\ sequence + 1 \in Nat
      /\ step' = [step EXCEPT ![p].sess = s] /\ IsAt(p, "idle") /\ mine[p] = NoLease
      /\ misjudged' = (misjudged \/ Living(lease[s].life))
      /\ UNCHANGED <<life, lives, driving, scratch>>
    BY SMT DEF SessInv, SessTypeOK, Lease, OpenSession, NextSequence
<1>. HIDE DEF l
<1>1. SessTypeOK'
  <2>1. step' \in [Proc -> Place]
    BY <1>0, SMT DEF SessInv, SessTypeOK, Place
  <2>2. mine' \in [Proc -> Lease] /\ lease' \in [Session -> Lease]
    BY <1>0, SMT DEF SessInv, SessTypeOK
  <2>. QED BY <1>0, <2>1, <2>2 DEF SessInv, SessTypeOK, driving, scratch, histories
<1>2. LeasesInv'
  <2>1. LivesInv'
    BY <1>0, SMT DEF SessInv, LeasesInv, LivesInv
  <2>2. HandsInv'
    <3>1. \A q \in Proc \ {p} : step'[q] = step[q] /\ mine'[q] = mine[q]
        BY <1>0, SMT DEF SessInv, SessTypeOK
    <3>2. step'[p].at = "idle" /\ step'[p].sess = s /\ mine'[p] = l
        BY <1>0, SMT DEF SessInv, SessTypeOK, Place, IsAt
    <3>. QED BY <1>0, <3>1, <3>2, SMT DEF SessInv, LeasesInv, HandsInv, Driving, Creating
  <2>3. SequenceInv'
    BY <1>0, SMT DEF SessInv, SessTypeOK, Lease, LeasesInv, SequenceInv
  <2>4. LeaseInHand'
    <3>1. SUFFICES ASSUME ~misjudged', NEW q \in Proc, mine'[q] # NoLease
                   PROVE  lease'[step'[q].sess] = mine'[q]
        BY DEF LeaseInHand
    <3>2. CASE q = p
        BY <1>0, <3>1, <3>2, SMT DEF SessInv, SessTypeOK, Place
    <3>3. CASE q # p
      <4>1. lease[step[q].sess] = mine[q] /\ mine[q].life = life[q] /\ life[q] # 0
          BY <1>0, <3>1, <3>3, SMT DEF SessInv, SessTypeOK, LeasesInv, LeaseInHand, HandsInv,
              Driving, Creating, Cleaning
      <4>2. ~Living(lease[s].life)
          BY <1>0, <3>1
      <4>3. step[q].sess # s
          BY <4>1, <4>2 DEF Living
      <4>. QED BY <1>0, <3>3, <4>1, <4>3, SMT DEF SessInv, SessTypeOK, Place
    <3>. QED BY <3>2, <3>3
  <2>. QED BY <2>1, <2>2, <2>3, <2>4 DEF LeasesInv
<1>3. DriverInv'
    BY <1>0, SMT DEF SessInv, SessTypeOK, Place, DriverInv, RenamedUnderLock, WorkerIsDriver,
                     NamesLease, IsAt, driving
<1>4. ScratchInv'
    BY <1>0, ScratchRests, SMT DEF SessInv, SessTypeOK, Place
<1>. QED BY <1>1, <1>2, <1>3, <1>4 DEF SessInv

LEMMA OpenTornKeeps ==
    ASSUME SessInv, NEW p \in Proc, NEW s \in Session, NEW drawn \in BOOLEAN,
           OpenTorn(p, s, drawn)
    PROVE  SessInv'
<1>1. SessTypeOK'
  <2>1. step' \in [Proc -> Place]
    BY SMT, SessionsAssumption DEF SessInv, SessTypeOK, Place, Dir, NoStep, OpenTorn, LeaseIsLive,
        NextSequence, Fault
  <2>2. life' \in [Proc -> Nat] /\ lives' \in Nat /\ mine' \in [Proc -> Lease]
    BY SMT, SessionsAssumption DEF SessInv, SessTypeOK, Lease, NoLease, OpenTorn, LeaseIsLive,
        NextSequence, Fault
  <2>3. lease' \in [Session -> Lease] /\ sequence' \in Nat /\ misjudged' \in BOOLEAN
    BY SMT, SessionsAssumption DEF SessInv, SessTypeOK, Lease, NoLease, LeasesInv, HandsInv,
        Driving, Creating, Cleaning,
        OpenTorn, LeaseIsLive, NextSequence, Fault
  <2>. QED BY <2>1, <2>2, <2>3 DEF SessInv, SessTypeOK, OpenTorn, Go, leases, driving, scratch,
        histories
<1>2. LeasesInv'
    BY SMT, SessionsAssumption DEF SessInv, SessTypeOK, Lease, Place, LeasesInv, LivesInv,
        HandsInv, Driving, Creating, Cleaning, SequenceInv,
                LeaseInHand, NoLease, NoStep, Living,
                OpenTorn, LeaseIsLive, NextSequence, Fault, Go, IsAt, leases, driving, scratch,
                    histories
<1>3. DriverInv'
    BY SMT, SessionsAssumption DEF SessInv, SessTypeOK, Lease, DriverRecord, Place, LeasesInv,
        LivesInv, HandsInv, Driving, Creating, Cleaning,
                LeaseInHand, DriverInv, RenamedUnderLock, WorkerIsDriver, NoLease, NoDriver,
                NoStep, Free, Living, NamesLease,
                OpenTorn, LeaseIsLive, NextSequence, Fault, Go, IsAt, leases, driving, scratch,
                    histories
<1>4. ScratchInv'
    BY SMT, SessionsAssumption DEF SessInv, SessTypeOK, Place, WsRecord, LeasesInv, LivesInv,
        HandsInv, Driving, ScratchInv,
                CreationInv, PlaceInv, ReservedInv, NothingForeignRemoved, ContentIsRecorded,
                Creating, Cleaning, NoLease, NoStep, NoWs,
                OpenTorn, LeaseIsLive, NextSequence, Fault, Go, IsAt, leases, driving, scratch,
                    histories
<1>. QED BY <1>1, <1>2, <1>3, <1>4 DEF SessInv

LEMMA CloseSessionKeeps ==
    ASSUME SessInv, NEW p \in Proc, CloseSession(p)
    PROVE  SessInv'
<1>1. SessTypeOK'
  <2>1. step' \in [Proc -> Place]
    BY SMT, SessionsAssumption DEF SessInv, SessTypeOK, Place, NoStep, CloseSession
  <2>2. life' \in [Proc -> Nat] /\ lives' \in Nat /\ mine' \in [Proc -> Lease]
    BY SMT, SessionsAssumption DEF SessInv, SessTypeOK, Lease, NoLease, CloseSession
  <2>3. lease' \in [Session -> Lease] /\ sequence' \in Nat /\ misjudged' \in BOOLEAN
    BY SMT, SessionsAssumption DEF SessInv, SessTypeOK, Lease, NoLease, LeasesInv, HandsInv,
        Driving, Creating, Cleaning,
        CloseSession
  <2>. QED BY <2>1, <2>2, <2>3 DEF SessInv, SessTypeOK, CloseSession, Go, leases, driving,
      scratch
<1>2. LeasesInv'
  <2>1. LivesInv'
    BY SMTT(60), SessionsAssumption DEF SessInv, SessTypeOK, Lease, Place, LeasesInv, LivesInv,
        HandsInv, Driving, Creating, SequenceInv, LeaseInHand, NoLease, NoStep, Living,
        CloseSession, Go, IsAt, leases
  <2>2. HandsInv'
    <3>1. \A q \in Proc \ {p} : /\ step'[q] = step[q] /\ life'[q] = life[q]
                               /\ mine'[q] = mine[q]
        BY SMT DEF SessInv, SessTypeOK, CloseSession
    <3>2. step'[p].at = "idle" /\ mine'[p] = NoLease /\ (life'[p] = 0 => step'[p] = NoStep)
        BY SMT DEF SessInv, SessTypeOK, Place, LeasesInv, HandsInv, NoStep, IsAt, CloseSession
    <3>. QED BY <3>1, <3>2, SMT DEF SessInv, LeasesInv, HandsInv, Driving, Creating, Cleaning
  <2>3. SequenceInv'
    BY SMTT(60), SessionsAssumption DEF SessInv, SessTypeOK, Lease, Place, LeasesInv, LivesInv,
        HandsInv, Driving, Creating, SequenceInv, LeaseInHand, NoLease, NoStep, Living,
        CloseSession, Go, IsAt, leases
  <2>4. LeaseInHand'
    BY SMTT(60), SessionsAssumption DEF SessInv, SessTypeOK, Lease, Place, LeasesInv, LivesInv,
        HandsInv, Driving, Creating, SequenceInv, LeaseInHand, NoLease, NoStep, Living,
        CloseSession, Go, IsAt, leases
  <2>. QED BY <2>1, <2>2, <2>3, <2>4 DEF LeasesInv
<1>3. DriverInv'
    BY SMT, SessionsAssumption DEF SessInv, SessTypeOK, Lease, DriverRecord, Place, LeasesInv,
        LivesInv, HandsInv, Driving, Creating, Cleaning,
                LeaseInHand, DriverInv, RenamedUnderLock, WorkerIsDriver, NoLease, NoDriver,
                NoStep, Free, Living, NamesLease,
                CloseSession, Go, IsAt, leases, driving, scratch, histories
<1>4. ScratchInv'
    BY SMT, SessionsAssumption DEF SessInv, SessTypeOK, Place, WsRecord, LeasesInv, LivesInv,
        HandsInv, Driving, ScratchInv,
                CreationInv, PlaceInv, ReservedInv, NothingForeignRemoved, ContentIsRecorded,
                Creating, Cleaning, NoLease, NoStep, NoWs,
                CloseSession, Go, IsAt, leases, driving, scratch, histories
<1>. QED BY <1>1, <1>2, <1>3, <1>4 DEF SessInv

LEMMA CoordinateKeeps ==
    ASSUME SessInv, NEW p \in Proc, Coordinate(p)
    PROVE  SessInv'
<1>1. SessTypeOK'
  <2>1. step' \in [Proc -> Place]
    BY AtMoves DEF SessInv, SessTypeOK, Ats, Driving, Creating, Cleaning, Coordinate, Go
  <2>. QED BY <2>1 DEF SessInv, SessTypeOK, Coordinate, Go, leases, driving, scratch, histories
<1>2. LeasesInv'
  <2>1. UNCHANGED <<life, lives, mine, leases>>
    BY DEF Coordinate
  <2>2. \A q \in Proc : /\ step'[q].sess = step[q].sess /\ (q # p => step'[q] = step[q])
                        /\ life[p] # 0
    BY SMT DEF SessInv, SessTypeOK, Place, LeasesInv, HandsInv, NoStep, IsAt, Go, Coordinate
  <2>3. step'[p].at \notin Driving \cup Creating \/ mine[p] # NoLease
    BY SMT DEF SessInv, SessTypeOK, Place, LeasesInv, HandsInv, IsAt, Go, Driving, Creating,
        Coordinate
  <2>. QED BY <2>1, <2>2, <2>3, LeasesStay, SMT
<1>3. DriverInv'
    BY SMT, SessionsAssumption DEF SessInv, SessTypeOK, Lease, DriverRecord, Place, LeasesInv,
        LivesInv, HandsInv, Driving, Creating, Cleaning,
                LeaseInHand, DriverInv, RenamedUnderLock, WorkerIsDriver, NoLease, NoDriver,
                NoStep, Free, Living, NamesLease,
                Coordinate, Go, IsAt, leases, driving, scratch, histories
<1>4. ScratchInv'
    BY SMT, SessionsAssumption DEF SessInv, SessTypeOK, Place, WsRecord, LeasesInv, LivesInv,
        HandsInv, Driving, ScratchInv,
                CreationInv, PlaceInv, ReservedInv, NothingForeignRemoved, ContentIsRecorded,
                Creating, Cleaning, NoLease, NoStep, NoWs,
                Coordinate, Go, IsAt, leases, driving, scratch, histories
<1>. QED BY <1>1, <1>2, <1>3, <1>4 DEF SessInv

\* Who works is live in the eyes of whoever looks without a fault, so that nobody
\* supersedes it: it would take a released record, or one without a live process or lease.
LEMMA WorkerIsNotSuperseded ==
    ASSUME SessInv, ~misjudged, NEW q \in Proc, IsAt(q, "working"), NEW seen \in BOOLEAN
    PROVE  ~Superseded(driver, seen) /\ driver # NoDriver
<1>1. /\ mine[q] # NoLease /\ lease[step[q].sess] = mine[q] /\ mine[q].life = life[q]
      /\ life[q] # 0 /\ driver.sess = step[q].sess /\ driver.life = life[q] /\ ~driver.released
    BY SMT DEF SessInv, SessTypeOK, LeasesInv, LeaseInHand, HandsInv, Driving, Creating,
        Cleaning, DriverInv, WorkerIsDriver,
               NamesLease, IsAt
<1>2. Living(driver.life) /\ lease[driver.sess] # NoLease
    BY <1>1 DEF Living
<1>3. DriverLiveness(driver, seen) # "DEAD"
    BY <1>1, <1>2, SMT DEF DriverLiveness
<1>4. driver # NoDriver
    BY <1>1, SMT DEF NoDriver
<1>. QED BY <1>1, <1>3, <1>4 DEF Superseded

\* What Advance does: publish over a free name, renew, refuse, or rename under the lock.
AdvanceDoes(p, seen) ==
    /\ IsAt(p, "checked") /\ drvLock = Free
    /\ UNCHANGED <<life, lives, mine, leases, scratch>>
    /\ \/ /\ driver = NoDriver /\ Go(p, "working") /\ UNCHANGED drvLock
          /\ driver' = [sess |-> step[p].sess, life |-> life[p], seq |-> 1, released |-> FALSE]
       \/ /\ driver # NoDriver /\ NamesLease(driver, p) /\ ~driver.released /\ UNCHANGED drvLock
          /\ driver' = [driver EXCEPT !.seq = @ + 1] /\ Go(p, "working")
       \/ Go(p, "idle") /\ UNCHANGED driving
       \/ /\ driver # NoDriver /\ Superseded(driver, seen) /\ drvLock' = p /\ driver' = NoDriver
          /\ step' = [step EXCEPT ![p].at = "publishing", ![p].n = driver.seq + 1]
LEMMA AdvanceIs ==
    ASSUME NEW p \in Proc, NEW seen \in BOOLEAN, Advance(p, seen)
    PROVE  AdvanceDoes(p, seen)
BY DEF Advance, AdvanceDoes, Superseded, driving

LEMMA AdvanceKeeps ==
    ASSUME SessInv, NEW p \in Proc, NEW seen \in BOOLEAN, Advance(p, seen)
    PROVE  SessInv'
<1>0. AdvanceDoes(p, seen)
    BY AdvanceIs
<1>1. driver.seq + 1 \in Nat /\ life[p] \in Nat /\ step[p].sess \in Session \cup {"none"}
    BY SMT DEF SessInv, SessTypeOK, DriverRecord, Place
<1>2. CASE driver = NoDriver /\ Go(p, "working") /\ UNCHANGED drvLock
           /\ driver' = [sess |-> step[p].sess, life |-> life[p], seq |-> 1, released |-> FALSE]
  <2>1. step' \in [Proc -> Place]
      BY <1>0, <1>1, <1>2, AtMoves DEF SessInv, SessTypeOK, Ats, Driving, Go, AdvanceDoes
  <2>2. driver' \in DriverRecord /\ drvLock' \in Proc \cup {Free}
      BY <1>0, <1>1, <1>2, SMT DEF SessInv, SessTypeOK, DriverRecord, NoDriver, driving
  <2>3. SessTypeOK'
      BY <1>0, <2>1, <2>2 DEF AdvanceDoes, SessInv, SessTypeOK, leases, scratch
  <2>4. \A q \in Proc : /\ step'[q].ws = step[q].ws /\ step'[q].sess = step[q].sess
                        /\ step'[q].held = step[q].held /\ step'[q].fd = step[q].fd
                        /\ q # p => step'[q] = step[q]
      BY <1>0, <1>2, SMT DEF SessInv, SessTypeOK, Place, Go
  <2>5. step'[p].at = "working" /\ step[p].at = "checked"
      BY <1>0, <1>2, SMT DEF SessInv, SessTypeOK, Place, Go, IsAt, AdvanceDoes
  <2>6. LeasesInv'
      BY <1>0, <2>4, <2>5, SMT DEF AdvanceDoes, SessInv, LeasesInv, LivesInv, HandsInv, Driving,
            Creating, Cleaning,
            SequenceInv, LeaseInHand, NoStep, leases
  <2>7. DriverInv'
      BY <1>0, <1>2, <2>4, <2>5, WorkerIsNotSuperseded, SessionsAssumption, SMT
         DEF AdvanceDoes, SessInv, SessTypeOK, DriverRecord, LeasesInv, HandsInv, Driving,
             Creating, Cleaning, LivesInv,
             DriverInv, RenamedUnderLock,
             WorkerIsDriver, NamesLease, NoDriver, NoLease, Free, IsAt, leases, driving
  <2>8. ScratchInv'
      BY <1>0, <2>4, <2>5, ScratchRests, SMT DEF AdvanceDoes, Creating, Cleaning
  <2>. QED BY <2>3, <2>6, <2>7, <2>8 DEF SessInv
<1>3. CASE driver # NoDriver /\ NamesLease(driver, p) /\ ~driver.released /\ UNCHANGED drvLock
           /\ driver' = [driver EXCEPT !.seq = @ + 1] /\ Go(p, "working")
  <2>1. step' \in [Proc -> Place]
      BY <1>0, <1>1, <1>3, AtMoves DEF SessInv, SessTypeOK, Ats, Driving, Go, AdvanceDoes
  <2>2. driver' \in DriverRecord /\ drvLock' \in Proc \cup {Free}
      BY <1>0, <1>1, <1>3, SMT DEF SessInv, SessTypeOK, DriverRecord, NoDriver, driving
  <2>3. SessTypeOK'
      BY <1>0, <2>1, <2>2 DEF AdvanceDoes, SessInv, SessTypeOK, leases, scratch
  <2>4. \A q \in Proc : /\ step'[q].ws = step[q].ws /\ step'[q].sess = step[q].sess
                        /\ step'[q].held = step[q].held /\ step'[q].fd = step[q].fd
                        /\ q # p => step'[q] = step[q]
      BY <1>0, <1>3, SMT DEF SessInv, SessTypeOK, Place, Go
  <2>5. step'[p].at = "working" /\ step[p].at = "checked"
      BY <1>0, <1>3, SMT DEF SessInv, SessTypeOK, Place, Go, IsAt, AdvanceDoes
  <2>6. LeasesInv'
      BY <1>0, <2>4, <2>5, SMT DEF AdvanceDoes, SessInv, LeasesInv, LivesInv, HandsInv, Driving,
            Creating, Cleaning,
            SequenceInv, LeaseInHand, NoStep, leases
  <2>7. DriverInv'
      BY <1>0, <1>3, <2>4, <2>5, WorkerIsNotSuperseded, SessionsAssumption, SMTT(60)
         DEF AdvanceDoes, SessInv, SessTypeOK, DriverRecord, LeasesInv, HandsInv, Driving,
             Creating, Cleaning, LivesInv,
             DriverInv, RenamedUnderLock,
             WorkerIsDriver, NamesLease, NoDriver, NoLease, Free, IsAt, leases, driving
  <2>8. ScratchInv'
      BY <1>0, <2>4, <2>5, ScratchRests, SMT DEF AdvanceDoes, Creating, Cleaning
  <2>. QED BY <2>3, <2>6, <2>7, <2>8 DEF SessInv
<1>4. CASE Go(p, "idle") /\ UNCHANGED driving
  <2>1. step' \in [Proc -> Place]
      BY <1>0, <1>1, <1>4, AtMoves DEF SessInv, SessTypeOK, Ats, Driving, Go, AdvanceDoes
  <2>2. driver' \in DriverRecord /\ drvLock' \in Proc \cup {Free}
      BY <1>0, <1>1, <1>4, SMT DEF SessInv, SessTypeOK, DriverRecord, NoDriver, driving
  <2>3. SessTypeOK'
      BY <1>0, <2>1, <2>2 DEF AdvanceDoes, SessInv, SessTypeOK, leases, scratch
  <2>4. \A q \in Proc : /\ step'[q].ws = step[q].ws /\ step'[q].sess = step[q].sess
                        /\ step'[q].held = step[q].held /\ step'[q].fd = step[q].fd
                        /\ q # p => step'[q] = step[q]
      BY <1>0, <1>4, SMT DEF SessInv, SessTypeOK, Place, Go
  <2>5. step'[p].at = "idle" /\ step[p].at = "checked"
      BY <1>0, <1>4, SMT DEF SessInv, SessTypeOK, Place, Go, IsAt, AdvanceDoes
  <2>6. LeasesInv'
      BY <1>0, <2>4, <2>5, SMT DEF AdvanceDoes, SessInv, LeasesInv, LivesInv, HandsInv, Driving,
            Creating, Cleaning,
            SequenceInv, LeaseInHand, NoStep, leases
  <2>7. DriverInv'
      BY <1>0, <1>4, <2>4, <2>5, WorkerIsNotSuperseded, SessionsAssumption, SMT
         DEF AdvanceDoes, SessInv, SessTypeOK, DriverRecord, LeasesInv, HandsInv, Driving,
             Creating, Cleaning, LivesInv,
             DriverInv, RenamedUnderLock,
             WorkerIsDriver, NamesLease, NoDriver, NoLease, Free, IsAt, leases, driving
  <2>8. ScratchInv'
      BY <1>0, <2>4, <2>5, ScratchRests, SMT DEF AdvanceDoes, Creating, Cleaning
  <2>. QED BY <2>3, <2>6, <2>7, <2>8 DEF SessInv
<1>5. CASE driver # NoDriver /\ Superseded(driver, seen) /\ drvLock' = p /\ driver' = NoDriver
           /\ step' = [step EXCEPT ![p].at = "publishing", ![p].n = driver.seq + 1]
  <2>1. step' \in [Proc -> Place]
      BY <1>0, <1>1, <1>5, PlaceAtN DEF SessInv, SessTypeOK, Ats, Driving, AdvanceDoes
  <2>2. driver' \in DriverRecord /\ drvLock' \in Proc \cup {Free}
      BY <1>0, <1>1, <1>5, SMT DEF SessInv, SessTypeOK, DriverRecord, NoDriver, driving
  <2>3. SessTypeOK'
      BY <1>0, <2>1, <2>2 DEF AdvanceDoes, SessInv, SessTypeOK, leases, scratch
  <2>4. \A q \in Proc : /\ step'[q].ws = step[q].ws /\ step'[q].sess = step[q].sess
                        /\ step'[q].held = step[q].held /\ step'[q].fd = step[q].fd
                        /\ q # p => step'[q] = step[q]
      BY <1>0, <1>5, SMT DEF SessInv, SessTypeOK, Place, Go
  <2>5. step'[p].at = "publishing" /\ step[p].at = "checked"
      BY <1>0, <1>5, SMT DEF SessInv, SessTypeOK, Place, Go, IsAt, AdvanceDoes
  <2>6. LeasesInv'
      BY <1>0, <2>4, <2>5, SMT DEF AdvanceDoes, SessInv, LeasesInv, LivesInv, HandsInv, Driving,
            Creating, Cleaning,
            SequenceInv, LeaseInHand, NoStep, leases
  <2>7. DriverInv'
      BY <1>0, <1>5, <2>4, <2>5, WorkerIsNotSuperseded, SessionsAssumption, SMT
         DEF AdvanceDoes, SessInv, SessTypeOK, DriverRecord, LeasesInv, HandsInv, Driving,
             Creating, Cleaning, LivesInv,
             DriverInv, RenamedUnderLock,
             WorkerIsDriver, NamesLease, NoDriver, NoLease, Free, IsAt, leases, driving
  <2>8. ScratchInv'
      BY <1>0, <2>4, <2>5, ScratchRests, SMT DEF AdvanceDoes, Creating, Cleaning
  <2>. QED BY <2>3, <2>6, <2>7, <2>8 DEF SessInv
<1>. QED BY <1>0, <1>2, <1>3, <1>4, <1>5 DEF AdvanceDoes

LEMMA PublishKeeps ==
    ASSUME SessInv, NEW p \in Proc, Publish(p)
    PROVE  SessInv'
<1>1. SessTypeOK'
  <2>1. step' \in [Proc -> Place]
    BY PlaceAtN DEF SessInv, SessTypeOK, Place, DriverRecord, Ats, Driving, Publish
  <2>2. driver' \in DriverRecord /\ drvLock' \in Proc \cup {Free}
    BY SMT, SessionsAssumption DEF SessInv, SessTypeOK, Place, DriverRecord, NoDriver,
        NamesLease, Free, Publish
  <2>. QED BY <2>1, <2>2 DEF SessInv, SessTypeOK, Publish, Go, leases, driving, scratch, histories
<1>2. LeasesInv'
  <2>1. UNCHANGED <<life, lives, mine, leases>>
    BY DEF Publish
  <2>2. \A q \in Proc : /\ step'[q].sess = step[q].sess /\ (q # p => step'[q] = step[q])
                        /\ life[p] # 0
    BY SMT DEF SessInv, SessTypeOK, Place, LeasesInv, HandsInv, NoStep, IsAt, Go, Publish
  <2>3. step'[p].at \notin Driving \cup Creating \/ mine[p] # NoLease
    BY SMT DEF SessInv, SessTypeOK, Place, LeasesInv, HandsInv, IsAt, Go, Driving, Creating,
        Publish
  <2>. QED BY <2>1, <2>2, <2>3, LeasesStay, SMT
<1>3. DriverInv'
    BY SMT, SessionsAssumption DEF SessInv, SessTypeOK, Lease, DriverRecord, Place, LeasesInv,
        LivesInv, HandsInv, Driving, Creating, Cleaning,
                LeaseInHand, DriverInv, RenamedUnderLock, WorkerIsDriver, NoLease, NoDriver,
                NoStep, Free, Living, NamesLease,
                Publish, Go, IsAt, leases, driving, scratch, histories
<1>4. ScratchInv'
  <2>1. \A q \in Proc : /\ step'[q].ws = step[q].ws /\ step'[q].held = step[q].held
                        /\ step'[q].fd = step[q].fd /\ (q # p => step'[q] = step[q])
    BY SMT DEF SessInv, SessTypeOK, Place, Publish
  <2>2. step'[p].at \notin Creating \cup Cleaning /\ step[p].at \notin Creating \cup Cleaning
    BY SMT DEF SessInv, SessTypeOK, Place, Creating, Cleaning, IsAt, Publish
  <2>3. UNCHANGED <<life, lives, scratch>>
    BY DEF Publish
  <2>. QED BY <2>1, <2>2, <2>3, ScratchRests, SMT
<1>. QED BY <1>1, <1>2, <1>3, <1>4 DEF SessInv

LEMMA WorkKeeps ==
    ASSUME SessInv, NEW p \in Proc, Work(p)
    PROVE  SessInv'
<1>1. SessTypeOK'
  <2>1. step' \in [Proc -> Place]
    BY AtMoves DEF SessInv, SessTypeOK, Ats, Driving, Creating, Cleaning, Work, Go
  <2>. QED BY <2>1 DEF SessInv, SessTypeOK, Work, Go, leases, driving, scratch, histories
<1>2. LeasesInv'
  <2>1. UNCHANGED <<life, lives, mine, leases>>
    BY DEF Work
  <2>2. \A q \in Proc : /\ step'[q].sess = step[q].sess /\ (q # p => step'[q] = step[q])
                        /\ life[p] # 0
    BY SMT DEF SessInv, SessTypeOK, Place, LeasesInv, HandsInv, NoStep, IsAt, Go, Work
  <2>3. step'[p].at \notin Driving \cup Creating \/ mine[p] # NoLease
    BY SMT DEF SessInv, SessTypeOK, Place, LeasesInv, HandsInv, IsAt, Go, Driving, Creating, Work
  <2>. QED BY <2>1, <2>2, <2>3, LeasesStay, SMT
<1>3. DriverInv'
    BY SMT, SessionsAssumption DEF SessInv, SessTypeOK, Lease, DriverRecord, Place, LeasesInv,
        LivesInv, HandsInv, Driving, Creating, Cleaning,
                LeaseInHand, DriverInv, RenamedUnderLock, WorkerIsDriver, NoLease, NoDriver,
                NoStep, Free, Living, NamesLease,
                Work, Go, IsAt, leases, driving, scratch, histories
<1>4. ScratchInv'
    BY SMT, SessionsAssumption DEF SessInv, SessTypeOK, Place, WsRecord, LeasesInv, LivesInv,
        HandsInv, Driving, ScratchInv,
                CreationInv, PlaceInv, ReservedInv, NothingForeignRemoved, ContentIsRecorded,
                Creating, Cleaning, NoLease, NoStep, NoWs,
                Work, Go, IsAt, leases, driving, scratch, histories
<1>. QED BY <1>1, <1>2, <1>3, <1>4 DEF SessInv

LEMMA ReleaseDriverKeeps ==
    ASSUME SessInv, NEW p \in Proc, ReleaseDriver(p)
    PROVE  SessInv'
<1>1. SessTypeOK'
  <2>1. step' \in [Proc -> Place]
    BY PlaceAtN DEF SessInv, SessTypeOK, Place, DriverRecord, Ats, Driving, ReleaseDriver
  <2>2. driver' \in DriverRecord /\ drvLock' \in Proc \cup {Free}
    BY SMT, SessionsAssumption DEF SessInv, SessTypeOK, Place, DriverRecord, NoDriver,
        NamesLease, Free, ReleaseDriver
  <2>. QED BY <2>1, <2>2 DEF SessInv, SessTypeOK, ReleaseDriver, Go, leases, driving, scratch,
        histories
<1>2. LeasesInv'
  <2>1. UNCHANGED <<life, lives, mine, leases>>
    BY DEF ReleaseDriver
  <2>2. \A q \in Proc : /\ step'[q].sess = step[q].sess /\ (q # p => step'[q] = step[q])
                        /\ life[p] # 0
    BY SMT DEF SessInv, SessTypeOK, Place, LeasesInv, HandsInv, NoStep, IsAt, Go, ReleaseDriver
  <2>3. step'[p].at \notin Driving \cup Creating \/ mine[p] # NoLease
    BY SMT DEF SessInv, SessTypeOK, Place, LeasesInv, HandsInv, IsAt, Go, Driving, Creating,
        ReleaseDriver
  <2>. QED BY <2>1, <2>2, <2>3, LeasesStay, SMT
<1>3. DriverInv'
    BY SMT, SessionsAssumption DEF SessInv, SessTypeOK, Lease, DriverRecord, Place, LeasesInv,
        LivesInv, HandsInv, Driving, Creating, Cleaning,
                LeaseInHand, DriverInv, RenamedUnderLock, WorkerIsDriver, NoLease, NoDriver,
                NoStep, Free, Living, NamesLease,
                ReleaseDriver, Go, IsAt, leases, driving, scratch, histories
<1>4. ScratchInv'
  <2>1. \A q \in Proc : /\ step'[q].ws = step[q].ws /\ step'[q].held = step[q].held
                        /\ step'[q].fd = step[q].fd /\ (q # p => step'[q] = step[q])
    BY SMT DEF SessInv, SessTypeOK, Place, ReleaseDriver
  <2>2. step'[p].at \notin Creating \cup Cleaning /\ step[p].at \notin Creating \cup Cleaning
    BY SMT DEF SessInv, SessTypeOK, Place, Creating, Cleaning, IsAt, ReleaseDriver
  <2>3. UNCHANGED <<life, lives, scratch>>
    BY DEF ReleaseDriver
  <2>. QED BY <2>1, <2>2, <2>3, ScratchRests, SMT
<1>. QED BY <1>1, <1>2, <1>3, <1>4 DEF SessInv

LEMMA ReleasedKeeps ==
    ASSUME SessInv, NEW p \in Proc, Released(p)
    PROVE  SessInv'
<1>1. SessTypeOK'
  <2>1. step' \in [Proc -> Place]
    BY PlaceAtN DEF SessInv, SessTypeOK, Place, DriverRecord, Ats, Released
  <2>2. driver' \in DriverRecord /\ drvLock' \in Proc \cup {Free}
    BY SMT, SessionsAssumption DEF SessInv, SessTypeOK, Place, DriverRecord, NoDriver,
        NamesLease, Free, Released
  <2>. QED BY <2>1, <2>2 DEF SessInv, SessTypeOK, Released, Go, leases, driving, scratch,
        histories
<1>2. LeasesInv'
  <2>1. UNCHANGED <<life, lives, mine, leases>>
    BY DEF Released
  <2>2. \A q \in Proc : /\ step'[q].sess = step[q].sess /\ (q # p => step'[q] = step[q])
                        /\ life[p] # 0
    BY SMT DEF SessInv, SessTypeOK, Place, LeasesInv, HandsInv, NoStep, IsAt, Go, Released
  <2>3. step'[p].at \notin Driving \cup Creating \/ mine[p] # NoLease
    BY SMT DEF SessInv, SessTypeOK, Place, LeasesInv, HandsInv, IsAt, Go, Driving, Creating,
        Released
  <2>. QED BY <2>1, <2>2, <2>3, LeasesStay, SMT
<1>3. DriverInv'
    BY SMT, SessionsAssumption DEF SessInv, SessTypeOK, Lease, DriverRecord, Place, LeasesInv,
        LivesInv, HandsInv, Driving, Creating, Cleaning,
                LeaseInHand, DriverInv, RenamedUnderLock, WorkerIsDriver, NoLease, NoDriver,
                NoStep, Free, Living, NamesLease,
                Released, Go, IsAt, leases, driving, scratch, histories
<1>4. ScratchInv'
  <2>1. \A q \in Proc : /\ step'[q].ws = step[q].ws /\ step'[q].held = step[q].held
                        /\ step'[q].fd = step[q].fd /\ (q # p => step'[q] = step[q])
    BY SMT DEF SessInv, SessTypeOK, Place, Released
  <2>2. step'[p].at \notin Creating \cup Cleaning /\ step[p].at \notin Creating \cup Cleaning
    BY SMT DEF SessInv, SessTypeOK, Place, Creating, Cleaning, IsAt, Released
  <2>3. UNCHANGED <<life, lives, scratch>>
    BY DEF Released
  <2>. QED BY <2>1, <2>2, <2>3, ScratchRests, SMT
<1>. QED BY <1>1, <1>2, <1>3, <1>4 DEF SessInv

LEMMA ReserveWsKeeps ==
    ASSUME SessInv, NEW p \in Proc, NEW w \in Workspace, ReserveWs(p, w)
    PROVE  SessInv'
<1>1. SessTypeOK'
  <2>1. step' \in [Proc -> Place]
    BY PlaceAtWs DEF SessInv, SessTypeOK, Ats, Driving, Creating, Cleaning, ReserveWs
  <2>2. ws' \in [Workspace -> WsRecord]
    BY SMTT(60), SessionsAssumption DEF SessInv, SessTypeOK, WsRecord, Place, ScratchInv,
        PlaceInv, Creating, Cleaning, IsAt, ReserveWs
  <2>. QED BY <2>1, <2>2 DEF SessInv, SessTypeOK, ReserveWs, Go, leases,
      driving, scratch, histories
<1>2. /\ UNCHANGED <<life, lives, mine, leases, driving>>
      /\ \A q \in Proc : /\ step'[q].sess = step[q].sess /\ (life[q] = 0 => step'[q] = step[q])
                        /\ \/ step'[q].at = step[q].at
                           \/ step'[q].at \notin Driving \cup Creating
                           \/ step'[q].at \in Creating /\ mine[q] # NoLease
    BY SMTT(60), SessionsAssumption DEF SessInv, SessTypeOK, Place, LeasesInv, HandsInv,
        PlaceInv, ScratchInv,
        NoStep, Creating, Cleaning, Driving, ReserveWs, Go, IsAt
<1>3. LeasesInv' /\ DriverInv'
    BY <1>2, LeasesRest
<1>4. ScratchInv'
  <2>1. CreationInv'
    BY SMTT(60), SessionsAssumption
    DEF SessInv, SessTypeOK, Place, WsRecord, LeasesInv, LivesInv, HandsInv, Driving, ScratchInv,
        CreationInv, PlaceInv, ReservedInv, NothingForeignRemoved, ContentIsRecorded,
        Creating, Cleaning, NoLease, NoStep, NoWs,
        ReserveWs, Go, IsAt, leases, driving, scratch, histories
  <2>2. PlaceInv'
    BY SMTT(60), SessionsAssumption
    DEF SessInv, SessTypeOK, Place, WsRecord, LeasesInv, LivesInv, HandsInv, Driving, ScratchInv,
        CreationInv, PlaceInv, ReservedInv, NothingForeignRemoved, ContentIsRecorded,
        Creating, Cleaning, NoLease, NoStep, NoWs,
        ReserveWs, Go, IsAt, leases, driving, scratch, histories
  <2>3. ReservedInv'
    BY SMTT(60), SessionsAssumption
    DEF SessInv, SessTypeOK, Place, WsRecord, LeasesInv, LivesInv, HandsInv, Driving, ScratchInv,
        CreationInv, PlaceInv, ReservedInv, NothingForeignRemoved, ContentIsRecorded,
        Creating, Cleaning, NoLease, NoStep, NoWs,
        ReserveWs, Go, IsAt, leases, driving, scratch, histories
  <2>4. NothingForeignRemoved'
    BY SMTT(60), SessionsAssumption
    DEF SessInv, SessTypeOK, Place, WsRecord, LeasesInv, LivesInv, HandsInv, Driving, ScratchInv,
        CreationInv, PlaceInv, ReservedInv, NothingForeignRemoved, ContentIsRecorded,
        Creating, Cleaning, NoLease, NoStep, NoWs,
        ReserveWs, Go, IsAt, leases, driving, scratch, histories
  <2>5. ContentIsRecorded'
    BY SMTT(60), SessionsAssumption
    DEF SessInv, SessTypeOK, Place, WsRecord, LeasesInv, LivesInv, HandsInv, Driving, ScratchInv,
        CreationInv, PlaceInv, ReservedInv, NothingForeignRemoved, ContentIsRecorded,
        Creating, Cleaning, NoLease, NoStep, NoWs,
        ReserveWs, Go, IsAt, leases, driving, scratch, histories
  <2>. QED BY <2>1, <2>2, <2>3, <2>4, <2>5 DEF ScratchInv
<1>. QED BY <1>1, <1>2, <1>3, <1>4 DEF SessInv

LEMMA RootKeeps ==
    ASSUME SessInv, NEW p \in Proc, Root(p)
    PROVE  SessInv'
<1>1. SessTypeOK'
  <2>1. step' \in [Proc -> Place]
    BY AtMoves DEF SessInv, SessTypeOK, Ats, Driving, Creating, Cleaning, Root, Go
  <2>2. root' \in [Session -> {"none", "made", "indexed"}]
    BY SMT, SessionsAssumption DEF SessInv, SessTypeOK, Place, LeasesInv, HandsInv, Driving,
        Creating, Cleaning, IsAt, Root
  <2>. QED BY <2>1, <2>2 DEF SessInv, SessTypeOK, Root, Go, leases, driving, scratch, histories
<1>2. LeasesInv'
  <2>1. UNCHANGED <<life, lives, mine, leases>>
    BY DEF Root
  <2>2. \A q \in Proc : /\ step'[q].sess = step[q].sess /\ (q # p => step'[q] = step[q])
                        /\ life[p] # 0
    BY SMT DEF SessInv, SessTypeOK, Place, LeasesInv, HandsInv, NoStep, IsAt, Go, Root
  <2>3. step'[p].at \notin Driving \cup Creating \/ mine[p] # NoLease
    BY SMT DEF SessInv, SessTypeOK, Place, LeasesInv, HandsInv, IsAt, Go, Driving, Creating, Root
  <2>. QED BY <2>1, <2>2, <2>3, LeasesStay, SMT
<1>3. DriverInv'
    BY SMT, SessionsAssumption DEF SessInv, SessTypeOK, Lease, DriverRecord, Place, LeasesInv,
        LivesInv, HandsInv, Driving, Creating, Cleaning,
                LeaseInHand, DriverInv, RenamedUnderLock, WorkerIsDriver, NoLease, NoDriver,
                NoStep, Free, Living, NamesLease,
                Root, Go, IsAt, leases, driving, scratch, histories
<1>4. ScratchInv'
    BY SMT, SessionsAssumption DEF SessInv, SessTypeOK, Place, WsRecord, LeasesInv, LivesInv,
        HandsInv, Driving, ScratchInv,
                CreationInv, PlaceInv, ReservedInv, NothingForeignRemoved, ContentIsRecorded,
                Creating, Cleaning, NoLease, NoStep, NoWs,
                Root, Go, IsAt, leases, driving, scratch, histories
<1>. QED BY <1>1, <1>2, <1>3, <1>4 DEF SessInv

LEMMA RootTornKeeps ==
    ASSUME SessInv, NEW p \in Proc, RootTorn(p)
    PROVE  SessInv'
<1>1. SessTypeOK'
  <2>1. step' \in [Proc -> Place]
    BY SMT, SessionsAssumption DEF SessInv, SessTypeOK, Place, Dir, NoStep, RootTorn, Fault
  <2>2. life' \in [Proc -> Nat] /\ lives' \in Nat /\ mine' \in [Proc -> Lease]
    BY SMT, SessionsAssumption DEF SessInv, SessTypeOK, Lease, NoLease, RootTorn, Fault
  <2>3. root' \in [Session -> {"none", "made", "indexed"}]
    BY SMT, SessionsAssumption DEF SessInv, SessTypeOK, Place, LeasesInv, HandsInv, Driving,
        Creating, Cleaning, IsAt,
        RootTorn, Fault
  <2>. QED BY <2>1, <2>2, <2>3 DEF SessInv, SessTypeOK, RootTorn, Go, leases, driving, scratch,
        histories
<1>2. LeasesInv'
    BY SMT, SessionsAssumption DEF SessInv, SessTypeOK, Lease, Place, LeasesInv, LivesInv,
        HandsInv, Driving, Creating, Cleaning, SequenceInv,
                LeaseInHand, NoLease, NoStep, Living,
                RootTorn, Fault, Go, IsAt, leases, driving, scratch, histories
<1>3. DriverInv'
    BY SMT, SessionsAssumption DEF SessInv, SessTypeOK, Lease, DriverRecord, Place, LeasesInv,
        LivesInv, HandsInv, Driving, Creating, Cleaning,
                LeaseInHand, DriverInv, RenamedUnderLock, WorkerIsDriver, NoLease, NoDriver,
                NoStep, Free, Living, NamesLease,
                RootTorn, Fault, Go, IsAt, leases, driving, scratch, histories
<1>4. ScratchInv'
    BY SMT, SessionsAssumption DEF SessInv, SessTypeOK, Place, WsRecord, LeasesInv, LivesInv,
        HandsInv, Driving, ScratchInv,
                CreationInv, PlaceInv, ReservedInv, NothingForeignRemoved, ContentIsRecorded,
                Creating, Cleaning, NoLease, NoStep, NoWs,
                RootTorn, Fault, Go, IsAt, leases, driving, scratch, histories
<1>. QED BY <1>1, <1>2, <1>3, <1>4 DEF SessInv

LEMMA MakeKeeps ==
    ASSUME SessInv, NEW p \in Proc, Make(p)
    PROVE  SessInv'
<1>1. SessTypeOK'
  <2>1. step' \in [Proc -> Place]
    BY AtMoves DEF SessInv, SessTypeOK, Ats, Driving, Creating, Cleaning, Make, Go
  <2>2. dir' \in [Workspace -> Dir] /\ filled' \subseteq Workspace
    BY SMTT(60), SessionsAssumption DEF SessInv, SessTypeOK, Place, Dir, IsAt, ScratchInv,
        PlaceInv, Creating, Cleaning, Make
  <2>. QED BY <2>1, <2>2 DEF SessInv, SessTypeOK, Make, Go, leases,
      driving, scratch, histories
<1>2. /\ UNCHANGED <<life, lives, mine, leases, driving>>
      /\ \A q \in Proc : /\ step'[q].sess = step[q].sess /\ (life[q] = 0 => step'[q] = step[q])
                        /\ \/ step'[q].at = step[q].at
                           \/ step'[q].at \notin Driving \cup Creating
                           \/ step'[q].at \in Creating /\ mine[q] # NoLease
    BY SMTT(60), SessionsAssumption DEF SessInv, SessTypeOK, Place, LeasesInv, HandsInv,
        PlaceInv, ScratchInv,
        NoStep, Creating, Cleaning, Driving, Make, Go, IsAt
<1>3. LeasesInv' /\ DriverInv'
    BY <1>2, LeasesRest
<1>4. ScratchInv'
  <2>1. CreationInv'
    BY SMTT(60), SessionsAssumption
    DEF SessInv, SessTypeOK, Place, WsRecord, LeasesInv, LivesInv, HandsInv, Driving, ScratchInv,
        CreationInv, PlaceInv, ReservedInv, NothingForeignRemoved, ContentIsRecorded,
        Creating, Cleaning, NoLease, NoStep, NoWs,
        Make, Go, IsAt, leases, driving, scratch, histories
  <2>2. PlaceInv'
    BY SMTT(60), SessionsAssumption
    DEF SessInv, SessTypeOK, Place, WsRecord, LeasesInv, LivesInv, HandsInv, Driving, ScratchInv,
        CreationInv, PlaceInv, ReservedInv, NothingForeignRemoved, ContentIsRecorded,
        Creating, Cleaning, NoLease, NoStep, NoWs,
        Make, Go, IsAt, leases, driving, scratch, histories
  <2>3. ReservedInv'
    BY SMTT(60), SessionsAssumption
    DEF SessInv, SessTypeOK, Place, WsRecord, LeasesInv, LivesInv, HandsInv, Driving, ScratchInv,
        CreationInv, PlaceInv, ReservedInv, NothingForeignRemoved, ContentIsRecorded,
        Creating, Cleaning, NoLease, NoStep, NoWs,
        Make, Go, IsAt, leases, driving, scratch, histories
  <2>4. NothingForeignRemoved'
    BY SMTT(60), SessionsAssumption
    DEF SessInv, SessTypeOK, Place, WsRecord, LeasesInv, LivesInv, HandsInv, Driving, ScratchInv,
        CreationInv, PlaceInv, ReservedInv, NothingForeignRemoved, ContentIsRecorded,
        Creating, Cleaning, NoLease, NoStep, NoWs,
        Make, Go, IsAt, leases, driving, scratch, histories
  <2>5. ContentIsRecorded'
    BY SMTT(60), SessionsAssumption
    DEF SessInv, SessTypeOK, Place, WsRecord, LeasesInv, LivesInv, HandsInv, Driving, ScratchInv,
        CreationInv, PlaceInv, ReservedInv, NothingForeignRemoved, ContentIsRecorded,
        Creating, Cleaning, NoLease, NoStep, NoWs,
        Make, Go, IsAt, leases, driving, scratch, histories
  <2>. QED BY <2>1, <2>2, <2>3, <2>4, <2>5 DEF ScratchInv
<1>. QED BY <1>1, <1>2, <1>3, <1>4 DEF SessInv

LEMMA RecordWsKeeps ==
    ASSUME SessInv, NEW p \in Proc, RecordWs(p)
    PROVE  SessInv'
<1>1. SessTypeOK'
  <2>1. step' \in [Proc -> Place]
    BY AtMoves DEF SessInv, SessTypeOK, Ats, Driving, Creating, Cleaning, RecordWs, Go
  <2>2. ws' \in [Workspace -> WsRecord]
    BY SMTT(60), SessionsAssumption DEF SessInv, SessTypeOK, WsRecord, Place, ScratchInv,
        PlaceInv, Creating, Cleaning, IsAt, RecordWs
  <2>. QED BY <2>1, <2>2 DEF SessInv, SessTypeOK, RecordWs, Go, leases,
      driving, scratch, histories
<1>2. /\ UNCHANGED <<life, lives, mine, leases, driving>>
      /\ \A q \in Proc : /\ step'[q].sess = step[q].sess /\ (life[q] = 0 => step'[q] = step[q])
                        /\ \/ step'[q].at = step[q].at
                           \/ step'[q].at \notin Driving \cup Creating
                           \/ step'[q].at \in Creating /\ mine[q] # NoLease
    BY SMTT(60), SessionsAssumption DEF SessInv, SessTypeOK, Place, LeasesInv, HandsInv,
        PlaceInv, ScratchInv,
        NoStep, Creating, Cleaning, Driving, RecordWs, Go, IsAt
<1>3. LeasesInv' /\ DriverInv'
    BY <1>2, LeasesRest
<1>4. ScratchInv'
  <2>1. CreationInv'
    BY SMTT(60), SessionsAssumption
    DEF SessInv, SessTypeOK, Place, WsRecord, LeasesInv, LivesInv, HandsInv, Driving, ScratchInv,
        CreationInv, PlaceInv, ReservedInv, NothingForeignRemoved, ContentIsRecorded,
        Creating, Cleaning, NoLease, NoStep, NoWs,
        RecordWs, Go, IsAt, leases, driving, scratch, histories
  <2>2. PlaceInv'
    BY SMTT(60), SessionsAssumption
    DEF SessInv, SessTypeOK, Place, WsRecord, LeasesInv, LivesInv, HandsInv, Driving, ScratchInv,
        CreationInv, PlaceInv, ReservedInv, NothingForeignRemoved, ContentIsRecorded,
        Creating, Cleaning, NoLease, NoStep, NoWs,
        RecordWs, Go, IsAt, leases, driving, scratch, histories
  <2>3. ReservedInv'
    BY SMTT(60), SessionsAssumption
    DEF SessInv, SessTypeOK, Place, WsRecord, LeasesInv, LivesInv, HandsInv, Driving, ScratchInv,
        CreationInv, PlaceInv, ReservedInv, NothingForeignRemoved, ContentIsRecorded,
        Creating, Cleaning, NoLease, NoStep, NoWs,
        RecordWs, Go, IsAt, leases, driving, scratch, histories
  <2>4. NothingForeignRemoved'
    BY SMTT(60), SessionsAssumption
    DEF SessInv, SessTypeOK, Place, WsRecord, LeasesInv, LivesInv, HandsInv, Driving, ScratchInv,
        CreationInv, PlaceInv, ReservedInv, NothingForeignRemoved, ContentIsRecorded,
        Creating, Cleaning, NoLease, NoStep, NoWs,
        RecordWs, Go, IsAt, leases, driving, scratch, histories
  <2>5. ContentIsRecorded'
    BY SMTT(60), SessionsAssumption
    DEF SessInv, SessTypeOK, Place, WsRecord, LeasesInv, LivesInv, HandsInv, Driving, ScratchInv,
        CreationInv, PlaceInv, ReservedInv, NothingForeignRemoved, ContentIsRecorded,
        Creating, Cleaning, NoLease, NoStep, NoWs,
        RecordWs, Go, IsAt, leases, driving, scratch, histories
  <2>. QED BY <2>1, <2>2, <2>3, <2>4, <2>5 DEF ScratchInv
<1>. QED BY <1>1, <1>2, <1>3, <1>4 DEF SessInv

LEMMA ActivateKeeps ==
    ASSUME SessInv, NEW p \in Proc, Activate(p)
    PROVE  SessInv'
<1>1. SessTypeOK'
  <2>1. step' \in [Proc -> Place]
    BY PlaceAtHeld DEF SessInv, SessTypeOK, Ats, Driving, Creating, Cleaning, Activate
  <2>2. ws' \in [Workspace -> WsRecord]
    BY SMTT(60), SessionsAssumption DEF SessInv, SessTypeOK, WsRecord, Place, ScratchInv,
        PlaceInv, Creating, Cleaning, IsAt, Activate
  <2>. QED BY <2>1, <2>2 DEF SessInv, SessTypeOK, Activate, Go, leases,
      driving, scratch, histories
<1>2. /\ UNCHANGED <<life, lives, mine, leases, driving>>
      /\ \A q \in Proc : /\ step'[q].sess = step[q].sess /\ (life[q] = 0 => step'[q] = step[q])
                        /\ \/ step'[q].at = step[q].at
                           \/ step'[q].at \notin Driving \cup Creating
                           \/ step'[q].at \in Creating /\ mine[q] # NoLease
    BY SMTT(60), SessionsAssumption DEF SessInv, SessTypeOK, Place, LeasesInv, HandsInv,
        PlaceInv, ScratchInv,
        NoStep, Creating, Cleaning, Driving, Activate, Go, IsAt
<1>3. LeasesInv' /\ DriverInv'
    BY <1>2, LeasesRest
<1>4. ScratchInv'
  <2>1. CreationInv'
    BY SMTT(60), SessionsAssumption
    DEF SessInv, SessTypeOK, Place, WsRecord, LeasesInv, LivesInv, HandsInv, Driving, ScratchInv,
        CreationInv, PlaceInv, ReservedInv, NothingForeignRemoved, ContentIsRecorded,
        Creating, Cleaning, NoLease, NoStep, NoWs,
        Activate, Go, IsAt, leases, driving, scratch, histories
  <2>2. PlaceInv'
    BY SMTT(60), SessionsAssumption
    DEF SessInv, SessTypeOK, Place, WsRecord, LeasesInv, LivesInv, HandsInv, Driving, ScratchInv,
        CreationInv, PlaceInv, ReservedInv, NothingForeignRemoved, ContentIsRecorded,
        Creating, Cleaning, NoLease, NoStep, NoWs,
        Activate, Go, IsAt, leases, driving, scratch, histories
  <2>3. ReservedInv'
    BY SMTT(60), SessionsAssumption
    DEF SessInv, SessTypeOK, Place, WsRecord, LeasesInv, LivesInv, HandsInv, Driving, ScratchInv,
        CreationInv, PlaceInv, ReservedInv, NothingForeignRemoved, ContentIsRecorded,
        Creating, Cleaning, NoLease, NoStep, NoWs,
        Activate, Go, IsAt, leases, driving, scratch, histories
  <2>4. NothingForeignRemoved'
    BY SMTT(60), SessionsAssumption
    DEF SessInv, SessTypeOK, Place, WsRecord, LeasesInv, LivesInv, HandsInv, Driving, ScratchInv,
        CreationInv, PlaceInv, ReservedInv, NothingForeignRemoved, ContentIsRecorded,
        Creating, Cleaning, NoLease, NoStep, NoWs,
        Activate, Go, IsAt, leases, driving, scratch, histories
  <2>5. ContentIsRecorded'
    BY SMTT(60), SessionsAssumption
    DEF SessInv, SessTypeOK, Place, WsRecord, LeasesInv, LivesInv, HandsInv, Driving, ScratchInv,
        CreationInv, PlaceInv, ReservedInv, NothingForeignRemoved, ContentIsRecorded,
        Creating, Cleaning, NoLease, NoStep, NoWs,
        Activate, Go, IsAt, leases, driving, scratch, histories
  <2>. QED BY <2>1, <2>2, <2>3, <2>4, <2>5 DEF ScratchInv
<1>. QED BY <1>1, <1>2, <1>3, <1>4 DEF SessInv

LEMMA CreateFailsKeeps ==
    ASSUME SessInv, NEW p \in Proc, NEW did \in BOOLEAN, CreateFails(p, did)
    PROVE  SessInv'
<1>1. SessTypeOK'
  <2>1. step' \in [Proc -> Place]
    BY AtMoves DEF SessInv, SessTypeOK, Ats, Driving, Creating, Cleaning, CreateFails, Go
  <2>2. ws' \in [Workspace -> WsRecord]
    BY SMTT(60), SessionsAssumption DEF SessInv, SessTypeOK, WsRecord, Place, ScratchInv,
        PlaceInv, Creating, Cleaning, IsAt, CreateFails, Fault
  <2>3. dir' \in [Workspace -> Dir] /\ filled' \subseteq Workspace
    BY SMTT(60), SessionsAssumption DEF SessInv, SessTypeOK, Place, Dir, IsAt, ScratchInv,
        PlaceInv, Creating, Cleaning, CreateFails, Fault
  <2>. QED BY <2>1, <2>2, <2>3 DEF SessInv, SessTypeOK, CreateFails, Fault, Go, leases,
      driving, scratch, histories
<1>2. /\ UNCHANGED <<life, lives, mine, leases, driving>>
      /\ \A q \in Proc : /\ step'[q].sess = step[q].sess /\ (life[q] = 0 => step'[q] = step[q])
                        /\ \/ step'[q].at = step[q].at
                           \/ step'[q].at \notin Driving \cup Creating
                           \/ step'[q].at \in Creating /\ mine[q] # NoLease
    BY SMTT(60), SessionsAssumption DEF SessInv, SessTypeOK, Place, LeasesInv, HandsInv,
        PlaceInv, ScratchInv,
        NoStep, Creating, Cleaning, Driving, CreateFails, Fault, Go, IsAt
<1>3. LeasesInv' /\ DriverInv'
    BY <1>2, LeasesRest
<1>4. ScratchInv'
  <2>1. CreationInv'
    BY SMTT(60), SessionsAssumption
    DEF SessInv, SessTypeOK, Place, WsRecord, LeasesInv, LivesInv, HandsInv, Driving, ScratchInv,
        CreationInv, PlaceInv, ReservedInv, NothingForeignRemoved, ContentIsRecorded,
        Creating, Cleaning, NoLease, NoStep, NoWs,
        CreateFails, Fault, Go, IsAt, leases, driving, scratch, histories
  <2>2. PlaceInv'
    BY SMTT(60), SessionsAssumption
    DEF SessInv, SessTypeOK, Place, WsRecord, LeasesInv, LivesInv, HandsInv, Driving, ScratchInv,
        CreationInv, PlaceInv, ReservedInv, NothingForeignRemoved, ContentIsRecorded,
        Creating, Cleaning, NoLease, NoStep, NoWs,
        CreateFails, Fault, Go, IsAt, leases, driving, scratch, histories
  <2>3. ReservedInv'
    BY SMTT(60), SessionsAssumption
    DEF SessInv, SessTypeOK, Place, WsRecord, LeasesInv, LivesInv, HandsInv, Driving, ScratchInv,
        CreationInv, PlaceInv, ReservedInv, NothingForeignRemoved, ContentIsRecorded,
        Creating, Cleaning, NoLease, NoStep, NoWs,
        CreateFails, Fault, Go, IsAt, leases, driving, scratch, histories
  <2>4. NothingForeignRemoved'
    BY SMTT(60), SessionsAssumption
    DEF SessInv, SessTypeOK, Place, WsRecord, LeasesInv, LivesInv, HandsInv, Driving, ScratchInv,
        CreationInv, PlaceInv, ReservedInv, NothingForeignRemoved, ContentIsRecorded,
        Creating, Cleaning, NoLease, NoStep, NoWs,
        CreateFails, Fault, Go, IsAt, leases, driving, scratch, histories
  <2>5. ContentIsRecorded'
    BY SMTT(60), SessionsAssumption
    DEF SessInv, SessTypeOK, Place, WsRecord, LeasesInv, LivesInv, HandsInv, Driving, ScratchInv,
        CreationInv, PlaceInv, ReservedInv, NothingForeignRemoved, ContentIsRecorded,
        Creating, Cleaning, NoLease, NoStep, NoWs,
        CreateFails, Fault, Go, IsAt, leases, driving, scratch, histories
  <2>. QED BY <2>1, <2>2, <2>3, <2>4, <2>5 DEF ScratchInv
<1>. QED BY <1>1, <1>2, <1>3, <1>4 DEF SessInv

LEMMA FillKeeps ==
    ASSUME SessInv, NEW p \in Proc, Fill(p)
    PROVE  SessInv'
<1>1. SessTypeOK'
  <2>1. dir' \in [Workspace -> Dir] /\ filled' \subseteq Workspace
    BY SMTT(60), SessionsAssumption DEF SessInv, SessTypeOK, Place, Dir, IsAt, ScratchInv,
        PlaceInv, Creating, Cleaning, Fill
  <2>. QED BY <2>1 DEF SessInv, SessTypeOK, Fill, Go, leases,
      driving, scratch, histories
<1>2. /\ UNCHANGED <<life, lives, mine, leases, driving>>
      /\ \A q \in Proc : /\ step'[q].sess = step[q].sess /\ (life[q] = 0 => step'[q] = step[q])
                        /\ \/ step'[q].at = step[q].at
                           \/ step'[q].at \notin Driving \cup Creating
                           \/ step'[q].at \in Creating /\ mine[q] # NoLease
    BY SMTT(60), SessionsAssumption DEF SessInv, SessTypeOK, Place, LeasesInv, HandsInv,
        PlaceInv, ScratchInv,
        NoStep, Creating, Cleaning, Driving, Fill, Go, IsAt
<1>3. LeasesInv' /\ DriverInv'
    BY <1>2, LeasesRest
<1>4. ScratchInv'
  <2>1. CreationInv'
    BY SMTT(60), SessionsAssumption
    DEF SessInv, SessTypeOK, Place, WsRecord, LeasesInv, LivesInv, HandsInv, Driving, ScratchInv,
        CreationInv, PlaceInv, ReservedInv, NothingForeignRemoved, ContentIsRecorded,
        Creating, Cleaning, NoLease, NoStep, NoWs,
        Fill, Go, IsAt, leases, driving, scratch, histories
  <2>2. PlaceInv'
    BY SMTT(60), SessionsAssumption
    DEF SessInv, SessTypeOK, Place, WsRecord, LeasesInv, LivesInv, HandsInv, Driving, ScratchInv,
        CreationInv, PlaceInv, ReservedInv, NothingForeignRemoved, ContentIsRecorded,
        Creating, Cleaning, NoLease, NoStep, NoWs,
        Fill, Go, IsAt, leases, driving, scratch, histories
  <2>3. ReservedInv'
    BY SMTT(60), SessionsAssumption
    DEF SessInv, SessTypeOK, Place, WsRecord, LeasesInv, LivesInv, HandsInv, Driving, ScratchInv,
        CreationInv, PlaceInv, ReservedInv, NothingForeignRemoved, ContentIsRecorded,
        Creating, Cleaning, NoLease, NoStep, NoWs,
        Fill, Go, IsAt, leases, driving, scratch, histories
  <2>4. NothingForeignRemoved'
    BY SMTT(60), SessionsAssumption
    DEF SessInv, SessTypeOK, Place, WsRecord, LeasesInv, LivesInv, HandsInv, Driving, ScratchInv,
        CreationInv, PlaceInv, ReservedInv, NothingForeignRemoved, ContentIsRecorded,
        Creating, Cleaning, NoLease, NoStep, NoWs,
        Fill, Go, IsAt, leases, driving, scratch, histories
  <2>5. ContentIsRecorded'
    BY SMTT(60), SessionsAssumption
    DEF SessInv, SessTypeOK, Place, WsRecord, LeasesInv, LivesInv, HandsInv, Driving, ScratchInv,
        CreationInv, PlaceInv, ReservedInv, NothingForeignRemoved, ContentIsRecorded,
        Creating, Cleaning, NoLease, NoStep, NoWs,
        Fill, Go, IsAt, leases, driving, scratch, histories
  <2>. QED BY <2>1, <2>2, <2>3, <2>4, <2>5 DEF ScratchInv
<1>. QED BY <1>1, <1>2, <1>3, <1>4 DEF SessInv

LEMMA ReleaseWsKeeps ==
    ASSUME SessInv, NEW p \in Proc, NEW keep \in BOOLEAN, ReleaseWs(p, keep)
    PROVE  SessInv'
<1>1. SessTypeOK'
  <2>1. step' \in [Proc -> Place]
    BY AtMoves DEF SessInv, SessTypeOK, Ats, Driving, Creating, Cleaning, ReleaseWs, Go
  <2>. QED BY <2>1 DEF SessInv, SessTypeOK, ReleaseWs, Go, leases,
      driving, scratch, histories
<1>2. /\ UNCHANGED <<life, lives, mine, leases, driving>>
      /\ \A q \in Proc : /\ step'[q].sess = step[q].sess /\ (life[q] = 0 => step'[q] = step[q])
                        /\ \/ step'[q].at = step[q].at
                           \/ step'[q].at \notin Driving \cup Creating
                           \/ step'[q].at \in Creating /\ mine[q] # NoLease
    BY SMTT(60), SessionsAssumption DEF SessInv, SessTypeOK, Place, LeasesInv, HandsInv,
        PlaceInv, ScratchInv,
        NoStep, Creating, Cleaning, Driving, ReleaseWs, Go, IsAt
<1>3. LeasesInv' /\ DriverInv'
    BY <1>2, LeasesRest
<1>4. ScratchInv'
  <2>1. CreationInv'
    BY SMTT(60), SessionsAssumption
    DEF SessInv, SessTypeOK, Place, WsRecord, LeasesInv, LivesInv, HandsInv, Driving, ScratchInv,
        CreationInv, PlaceInv, ReservedInv, NothingForeignRemoved, ContentIsRecorded,
        Creating, Cleaning, NoLease, NoStep, NoWs,
        ReleaseWs, Go, IsAt, leases, driving, scratch, histories
  <2>2. PlaceInv'
    BY SMTT(60), SessionsAssumption
    DEF SessInv, SessTypeOK, Place, WsRecord, LeasesInv, LivesInv, HandsInv, Driving, ScratchInv,
        CreationInv, PlaceInv, ReservedInv, NothingForeignRemoved, ContentIsRecorded,
        Creating, Cleaning, NoLease, NoStep, NoWs,
        ReleaseWs, Go, IsAt, leases, driving, scratch, histories
  <2>3. ReservedInv'
    BY SMTT(60), SessionsAssumption
    DEF SessInv, SessTypeOK, Place, WsRecord, LeasesInv, LivesInv, HandsInv, Driving, ScratchInv,
        CreationInv, PlaceInv, ReservedInv, NothingForeignRemoved, ContentIsRecorded,
        Creating, Cleaning, NoLease, NoStep, NoWs,
        ReleaseWs, Go, IsAt, leases, driving, scratch, histories
  <2>4. NothingForeignRemoved'
    BY SMTT(60), SessionsAssumption
    DEF SessInv, SessTypeOK, Place, WsRecord, LeasesInv, LivesInv, HandsInv, Driving, ScratchInv,
        CreationInv, PlaceInv, ReservedInv, NothingForeignRemoved, ContentIsRecorded,
        Creating, Cleaning, NoLease, NoStep, NoWs,
        ReleaseWs, Go, IsAt, leases, driving, scratch, histories
  <2>5. ContentIsRecorded'
    BY SMTT(60), SessionsAssumption
    DEF SessInv, SessTypeOK, Place, WsRecord, LeasesInv, LivesInv, HandsInv, Driving, ScratchInv,
        CreationInv, PlaceInv, ReservedInv, NothingForeignRemoved, ContentIsRecorded,
        Creating, Cleaning, NoLease, NoStep, NoWs,
        ReleaseWs, Go, IsAt, leases, driving, scratch, histories
  <2>. QED BY <2>1, <2>2, <2>3, <2>4, <2>5 DEF ScratchInv
<1>. QED BY <1>1, <1>2, <1>3, <1>4 DEF SessInv

\* Where a cleanup's caller goes on, as a place.
LEMMA CleanedIsAPlace ==
    ASSUME NEW p \in Proc, NEW b \in BOOLEAN
    PROVE  Cleaned(p, b) \in Ats
BY SMT DEF Cleaned, Ats, Cleaning

LEMMA CheckWsKeeps ==
    ASSUME SessInv, NEW p \in Proc, CheckWs(p)
    PROVE  SessInv'
<1>1. SessTypeOK'
  <2>1. step' \in [Proc -> Place]
    <3>1. /\ "emptying" \in Ats /\ dir[step[p].ws] \in Dir /\ step \in [Proc -> Place]
        BY SMT DEF SessInv, SessTypeOK, ScratchInv, PlaceInv, Cleaning, Ats, IsAt, CheckWs
    <3>2. Cleaned(p, TRUE) \in Ats /\ Cleaned(p, FALSE) \in Ats
        BY CleanedIsAPlace
    <3>3. \/ step' = [step EXCEPT ![p].at = Cleaned(p, TRUE)]
          \/ step' = [step EXCEPT ![p].at = Cleaned(p, FALSE)]
          \/ step' = [step EXCEPT ![p].at = "emptying", ![p].fd = dir[step[p].ws]]
        BY DEF CheckWs, Go
    <3>4. CASE step' = [step EXCEPT ![p].at = Cleaned(p, TRUE)]
        BY <3>1, <3>2, <3>4, AtMoves
    <3>5. CASE step' = [step EXCEPT ![p].at = Cleaned(p, FALSE)]
        BY <3>1, <3>2, <3>5, AtMoves
    <3>6. CASE step' = [step EXCEPT ![p].at = "emptying", ![p].fd = dir[step[p].ws]]
        BY <3>1, <3>6, PlaceAtFd
    <3>. QED BY <3>3, <3>4, <3>5, <3>6
  <2>. QED BY <2>1 DEF SessInv, SessTypeOK, CheckWs, Fault, Go, leases,
      driving, scratch, histories
<1>2. /\ UNCHANGED <<life, lives, mine, leases, driving>>
      /\ \A q \in Proc : /\ step'[q].sess = step[q].sess /\ (life[q] = 0 => step'[q] = step[q])
                        /\ \/ step'[q].at = step[q].at
                           \/ step'[q].at \notin Driving \cup Creating
                           \/ step'[q].at \in Creating /\ mine[q] # NoLease
    BY SMTT(60), SessionsAssumption DEF SessInv, SessTypeOK, Place, LeasesInv, HandsInv,
        PlaceInv, ScratchInv,
        NoStep, Creating, Cleaning, Driving, CheckWs, Cleaned, Registered, Fault, Go, IsAt
<1>3. LeasesInv' /\ DriverInv'
    BY <1>2, LeasesRest
<1>4. ScratchInv'
  <2>1. CreationInv'
    BY SMTT(60), SessionsAssumption
    DEF SessInv, SessTypeOK, Place, WsRecord, LeasesInv, LivesInv, HandsInv, Driving, ScratchInv,
        CreationInv, PlaceInv, ReservedInv, NothingForeignRemoved, ContentIsRecorded,
        Creating, Cleaning, NoLease, NoStep, NoWs,
        CheckWs, Cleaned, Registered, Fault, Go, IsAt, leases, driving, scratch, histories
  <2>2. PlaceInv'
    BY SMTT(60), SessionsAssumption
    DEF SessInv, SessTypeOK, Place, WsRecord, LeasesInv, LivesInv, HandsInv, Driving, ScratchInv,
        CreationInv, PlaceInv, ReservedInv, NothingForeignRemoved, ContentIsRecorded,
        Creating, Cleaning, NoLease, NoStep, NoWs,
        CheckWs, Cleaned, Registered, Fault, Go, IsAt, leases, driving, scratch, histories
  <2>3. ReservedInv'
    BY SMTT(60), SessionsAssumption
    DEF SessInv, SessTypeOK, Place, WsRecord, LeasesInv, LivesInv, HandsInv, Driving, ScratchInv,
        CreationInv, PlaceInv, ReservedInv, NothingForeignRemoved, ContentIsRecorded,
        Creating, Cleaning, NoLease, NoStep, NoWs,
        CheckWs, Cleaned, Registered, Fault, Go, IsAt, leases, driving, scratch, histories
  <2>4. NothingForeignRemoved'
    BY SMTT(60), SessionsAssumption
    DEF SessInv, SessTypeOK, Place, WsRecord, LeasesInv, LivesInv, HandsInv, Driving, ScratchInv,
        CreationInv, PlaceInv, ReservedInv, NothingForeignRemoved, ContentIsRecorded,
        Creating, Cleaning, NoLease, NoStep, NoWs,
        CheckWs, Cleaned, Registered, Fault, Go, IsAt, leases, driving, scratch, histories
  <2>5. ContentIsRecorded'
    BY SMTT(60), SessionsAssumption
    DEF SessInv, SessTypeOK, Place, WsRecord, LeasesInv, LivesInv, HandsInv, Driving, ScratchInv,
        CreationInv, PlaceInv, ReservedInv, NothingForeignRemoved, ContentIsRecorded,
        Creating, Cleaning, NoLease, NoStep, NoWs,
        CheckWs, Cleaned, Registered, Fault, Go, IsAt, leases, driving, scratch, histories
  <2>. QED BY <2>1, <2>2, <2>3, <2>4, <2>5 DEF ScratchInv
<1>. QED BY <1>1, <1>2, <1>3, <1>4 DEF SessInv

LEMMA EmptyWsKeeps ==
    ASSUME SessInv, NEW p \in Proc, EmptyWs(p)
    PROVE  SessInv'
<1>1. SessTypeOK'
  <2>1. step' \in [Proc -> Place]
    <3>1. /\ "unlinking" \in Ats /\ "none" \in Dir /\ step \in [Proc -> Place]
        BY SMT DEF SessInv, SessTypeOK, Cleaning, Ats, Dir
    <3>2. Cleaned(p, FALSE) \in Ats
        BY CleanedIsAPlace
    <3>3. \/ step' = [step EXCEPT ![p].at = "unlinking", ![p].fd = "none"]
          \/ step' = [step EXCEPT ![p].at = Cleaned(p, FALSE), ![p].fd = "none"]
        BY DEF EmptyWs
    <3>4. CASE step' = [step EXCEPT ![p].at = "unlinking", ![p].fd = "none"]
        BY <3>1, <3>4, PlaceAtFd
    <3>5. CASE step' = [step EXCEPT ![p].at = Cleaned(p, FALSE), ![p].fd = "none"]
        BY <3>1, <3>2, <3>5, PlaceAtFd
    <3>. QED BY <3>3, <3>4, <3>5
  <2>2. dir' \in [Workspace -> Dir] /\ filled' \subseteq Workspace
    <3>1. dir' = dir /\ (filled' = filled \/ filled' = filled \ {step[p].ws})
        BY DEF EmptyWs
    <3>. QED BY <3>1 DEF SessInv, SessTypeOK
  <2>. QED BY <2>1, <2>2 DEF SessInv, SessTypeOK, EmptyWs, Reaches, Fault, Go, leases,
      driving, scratch, histories
<1>2. /\ UNCHANGED <<life, lives, mine, leases, driving>>
      /\ \A q \in Proc : /\ step'[q].sess = step[q].sess /\ (life[q] = 0 => step'[q] = step[q])
                        /\ \/ step'[q].at = step[q].at
                           \/ step'[q].at \notin Driving \cup Creating
                           \/ step'[q].at \in Creating /\ mine[q] # NoLease
    BY SMTT(60), SessionsAssumption DEF SessInv, SessTypeOK, Place, LeasesInv, HandsInv,
        PlaceInv, ScratchInv,
        NoStep, Creating, Cleaning, Driving, EmptyWs, Reaches, Cleaned, Fault, Go, IsAt
<1>3. LeasesInv' /\ DriverInv'
    BY <1>2, LeasesRest
<1>4. ScratchInv'
  <2>1. CreationInv'
    BY SMTT(60), SessionsAssumption
    DEF SessInv, SessTypeOK, Place, WsRecord, LeasesInv, LivesInv, HandsInv, Driving, ScratchInv,
        CreationInv, PlaceInv, ReservedInv, NothingForeignRemoved, ContentIsRecorded,
        Creating, Cleaning, NoLease, NoStep, NoWs,
        EmptyWs, Reaches, Cleaned, Fault, Go, IsAt, leases, driving, scratch, histories
  <2>2. PlaceInv'
    BY SMTT(60), SessionsAssumption
    DEF SessInv, SessTypeOK, Place, WsRecord, LeasesInv, LivesInv, HandsInv, Driving, ScratchInv,
        CreationInv, PlaceInv, ReservedInv, NothingForeignRemoved, ContentIsRecorded,
        Creating, Cleaning, NoLease, NoStep, NoWs,
        EmptyWs, Reaches, Cleaned, Fault, Go, IsAt, leases, driving, scratch, histories
  <2>3. ReservedInv'
    BY SMTT(60), SessionsAssumption
    DEF SessInv, SessTypeOK, Place, WsRecord, LeasesInv, LivesInv, HandsInv, Driving, ScratchInv,
        CreationInv, PlaceInv, ReservedInv, NothingForeignRemoved, ContentIsRecorded,
        Creating, Cleaning, NoLease, NoStep, NoWs,
        EmptyWs, Reaches, Cleaned, Fault, Go, IsAt, leases, driving, scratch, histories
  <2>4. NothingForeignRemoved'
    BY SMTT(60), SessionsAssumption
    DEF SessInv, SessTypeOK, Place, WsRecord, LeasesInv, LivesInv, HandsInv, Driving, ScratchInv,
        CreationInv, PlaceInv, ReservedInv, NothingForeignRemoved, ContentIsRecorded,
        Creating, Cleaning, NoLease, NoStep, NoWs,
        EmptyWs, Reaches, Cleaned, Fault, Go, IsAt, leases, driving, scratch, histories
  <2>5. ContentIsRecorded'
    BY SMTT(60), SessionsAssumption
    DEF SessInv, SessTypeOK, Place, WsRecord, LeasesInv, LivesInv, HandsInv, Driving, ScratchInv,
        CreationInv, PlaceInv, ReservedInv, NothingForeignRemoved, ContentIsRecorded,
        Creating, Cleaning, NoLease, NoStep, NoWs,
        EmptyWs, Reaches, Cleaned, Fault, Go, IsAt, leases, driving, scratch, histories
  <2>. QED BY <2>1, <2>2, <2>3, <2>4, <2>5 DEF ScratchInv
<1>. QED BY <1>1, <1>2, <1>3, <1>4 DEF SessInv

LEMMA RemoveWsKeeps ==
    ASSUME SessInv, NEW p \in Proc, RemoveWs(p)
    PROVE  SessInv'
<1>1. SessTypeOK'
  <2>1. step' \in [Proc -> Place]
    <3>1. Cleaned(p, TRUE) \in Ats /\ Cleaned(p, FALSE) \in Ats /\ step \in [Proc -> Place]
        BY CleanedIsAPlace DEF SessInv, SessTypeOK
    <3>2. \/ step' = [step EXCEPT ![p].at = Cleaned(p, TRUE)]
          \/ step' = [step EXCEPT ![p].at = Cleaned(p, FALSE)]
        BY DEF RemoveWs, Go
    <3>3. CASE step' = [step EXCEPT ![p].at = Cleaned(p, TRUE)]
        BY <3>1, <3>3, AtMoves
    <3>4. CASE step' = [step EXCEPT ![p].at = Cleaned(p, FALSE)]
        BY <3>1, <3>4, AtMoves
    <3>. QED BY <3>2, <3>3, <3>4
  <2>2. dir' \in [Workspace -> Dir] /\ filled' \subseteq Workspace
    <3>1. step[p].ws \in Workspace
        BY SMT DEF SessInv, ScratchInv, PlaceInv, Cleaning, IsAt, RemoveWs
    <3>2. filled' = filled /\ (dir' = dir \/ dir' = [dir EXCEPT ![step[p].ws] = "none"])
        BY DEF RemoveWs
    <3>. QED BY <3>1, <3>2, SMT DEF SessInv, SessTypeOK, Dir
  <2>. QED BY <2>1, <2>2 DEF SessInv, SessTypeOK, RemoveWs, Fault, Go, leases,
      driving, scratch, histories
<1>2. /\ UNCHANGED <<life, lives, mine, leases, driving>>
      /\ \A q \in Proc : /\ step'[q].sess = step[q].sess /\ (life[q] = 0 => step'[q] = step[q])
                        /\ \/ step'[q].at = step[q].at
                           \/ step'[q].at \notin Driving \cup Creating
                           \/ step'[q].at \in Creating /\ mine[q] # NoLease
    BY SMTT(60), SessionsAssumption DEF SessInv, SessTypeOK, Place, LeasesInv, HandsInv,
        PlaceInv, ScratchInv,
        NoStep, Creating, Cleaning, Driving, RemoveWs, Cleaned, Fault, Go, IsAt
<1>3. LeasesInv' /\ DriverInv'
    BY <1>2, LeasesRest
<1>4. ScratchInv'
  <2>1. CreationInv'
    BY SMTT(60), SessionsAssumption
    DEF SessInv, SessTypeOK, Place, WsRecord, LeasesInv, LivesInv, HandsInv, Driving, ScratchInv,
        CreationInv, PlaceInv, ReservedInv, NothingForeignRemoved, ContentIsRecorded,
        Creating, Cleaning, NoLease, NoStep, NoWs,
        RemoveWs, Cleaned, Fault, Go, IsAt, leases, driving, scratch, histories
  <2>2. PlaceInv'
    BY SMTT(60), SessionsAssumption
    DEF SessInv, SessTypeOK, Place, WsRecord, LeasesInv, LivesInv, HandsInv, Driving, ScratchInv,
        CreationInv, PlaceInv, ReservedInv, NothingForeignRemoved, ContentIsRecorded,
        Creating, Cleaning, NoLease, NoStep, NoWs,
        RemoveWs, Cleaned, Fault, Go, IsAt, leases, driving, scratch, histories
  <2>3. ReservedInv'
    BY SMTT(60), SessionsAssumption
    DEF SessInv, SessTypeOK, Place, WsRecord, LeasesInv, LivesInv, HandsInv, Driving, ScratchInv,
        CreationInv, PlaceInv, ReservedInv, NothingForeignRemoved, ContentIsRecorded,
        Creating, Cleaning, NoLease, NoStep, NoWs,
        RemoveWs, Cleaned, Fault, Go, IsAt, leases, driving, scratch, histories
  <2>4. NothingForeignRemoved'
    BY SMTT(60), SessionsAssumption
    DEF SessInv, SessTypeOK, Place, WsRecord, LeasesInv, LivesInv, HandsInv, Driving, ScratchInv,
        CreationInv, PlaceInv, ReservedInv, NothingForeignRemoved, ContentIsRecorded,
        Creating, Cleaning, NoLease, NoStep, NoWs,
        RemoveWs, Cleaned, Fault, Go, IsAt, leases, driving, scratch, histories
  <2>5. ContentIsRecorded'
    BY SMTT(60), SessionsAssumption
    DEF SessInv, SessTypeOK, Place, WsRecord, LeasesInv, LivesInv, HandsInv, Driving, ScratchInv,
        CreationInv, PlaceInv, ReservedInv, NothingForeignRemoved, ContentIsRecorded,
        Creating, Cleaning, NoLease, NoStep, NoWs,
        RemoveWs, Cleaned, Fault, Go, IsAt, leases, driving, scratch, histories
  <2>. QED BY <2>1, <2>2, <2>3, <2>4, <2>5 DEF ScratchInv
<1>. QED BY <1>1, <1>2, <1>3, <1>4 DEF SessInv

LEMMA EndRecordKeeps ==
    ASSUME SessInv, NEW p \in Proc, EndRecord(p)
    PROVE  SessInv'
<1>1. SessTypeOK'
  <2>1. step' \in [Proc -> Place]
    BY AtMoves DEF SessInv, SessTypeOK, Ats, Driving, Creating, Cleaning, EndRecord, Go
  <2>2. ws' \in [Workspace -> WsRecord]
    BY SMTT(60), SessionsAssumption DEF SessInv, SessTypeOK, WsRecord, Place, ScratchInv,
        PlaceInv, Creating, Cleaning, IsAt, EndRecord, Fault
  <2>. QED BY <2>1, <2>2 DEF SessInv, SessTypeOK, EndRecord, Fault, Go, leases,
      driving, scratch, histories
<1>2. /\ UNCHANGED <<life, lives, mine, leases, driving>>
      /\ \A q \in Proc : /\ step'[q].sess = step[q].sess /\ (life[q] = 0 => step'[q] = step[q])
                        /\ \/ step'[q].at = step[q].at
                           \/ step'[q].at \notin Driving \cup Creating
                           \/ step'[q].at \in Creating /\ mine[q] # NoLease
    BY SMTT(60), SessionsAssumption DEF SessInv, SessTypeOK, Place, LeasesInv, HandsInv,
        PlaceInv, ScratchInv,
        NoStep, Creating, Cleaning, Driving, EndRecord, Fault, Go, IsAt
<1>3. LeasesInv' /\ DriverInv'
    BY <1>2, LeasesRest
<1>4. ScratchInv'
  <2>1. CreationInv'
    BY SMTT(60), SessionsAssumption
    DEF SessInv, SessTypeOK, Place, WsRecord, LeasesInv, LivesInv, HandsInv, Driving, ScratchInv,
        CreationInv, PlaceInv, ReservedInv, NothingForeignRemoved, ContentIsRecorded,
        Creating, Cleaning, NoLease, NoStep, NoWs,
        EndRecord, Fault, Go, IsAt, leases, driving, scratch, histories
  <2>2. PlaceInv'
    BY SMTT(60), SessionsAssumption
    DEF SessInv, SessTypeOK, Place, WsRecord, LeasesInv, LivesInv, HandsInv, Driving, ScratchInv,
        CreationInv, PlaceInv, ReservedInv, NothingForeignRemoved, ContentIsRecorded,
        Creating, Cleaning, NoLease, NoStep, NoWs,
        EndRecord, Fault, Go, IsAt, leases, driving, scratch, histories
  <2>3. ReservedInv'
    BY SMTT(60), SessionsAssumption
    DEF SessInv, SessTypeOK, Place, WsRecord, LeasesInv, LivesInv, HandsInv, Driving, ScratchInv,
        CreationInv, PlaceInv, ReservedInv, NothingForeignRemoved, ContentIsRecorded,
        Creating, Cleaning, NoLease, NoStep, NoWs,
        EndRecord, Fault, Go, IsAt, leases, driving, scratch, histories
  <2>4. NothingForeignRemoved'
    BY SMTT(60), SessionsAssumption
    DEF SessInv, SessTypeOK, Place, WsRecord, LeasesInv, LivesInv, HandsInv, Driving, ScratchInv,
        CreationInv, PlaceInv, ReservedInv, NothingForeignRemoved, ContentIsRecorded,
        Creating, Cleaning, NoLease, NoStep, NoWs,
        EndRecord, Fault, Go, IsAt, leases, driving, scratch, histories
  <2>5. ContentIsRecorded'
    BY SMTT(60), SessionsAssumption
    DEF SessInv, SessTypeOK, Place, WsRecord, LeasesInv, LivesInv, HandsInv, Driving, ScratchInv,
        CreationInv, PlaceInv, ReservedInv, NothingForeignRemoved, ContentIsRecorded,
        Creating, Cleaning, NoLease, NoStep, NoWs,
        EndRecord, Fault, Go, IsAt, leases, driving, scratch, histories
  <2>. QED BY <2>1, <2>2, <2>3, <2>4, <2>5 DEF ScratchInv
<1>. QED BY <1>1, <1>2, <1>3, <1>4 DEF SessInv

LEMMA ReturnWsKeeps ==
    ASSUME SessInv, NEW p \in Proc, ReturnWs(p)
    PROVE  SessInv'
<1>1. SessTypeOK'
  <2>1. step' \in [Proc -> Place]
    <3>1. step' = [step EXCEPT ![p] = [NoStep EXCEPT !.sess = step[p].sess]]
        BY DEF ReturnWs
    <3>2. [NoStep EXCEPT !.sess = step[p].sess] \in Place
        <4>1. NoStep \in Place
            BY SMT DEF Place, Dir, NoStep
        <4>2. step[p].sess \in Session \cup {"none"}
            BY SMT DEF SessInv, SessTypeOK, Place
        <4>. QED BY <4>1, <4>2, SMT DEF Place
    <3>. QED BY <3>1, <3>2 DEF SessInv, SessTypeOK
  <2>2. ws' \in [Workspace -> WsRecord]
    <3>1. ws' = ws \/ \E w \in Workspace : ws' = [ws EXCEPT ![w].reserved = FALSE]
        BY SMT DEF SessInv, ScratchInv, PlaceInv, Cleaning, IsAt, ReturnWs, GiveBack
    <3>2. FALSE \in BOOLEAN /\ ws \in [Workspace -> WsRecord]
        BY DEF SessInv, SessTypeOK
    <3>3. ASSUME NEW w \in Workspace, ws' = [ws EXCEPT ![w].reserved = FALSE]
          PROVE  ws' \in [Workspace -> WsRecord]
        BY <3>2, <3>3, ReservedMoves
    <3>. QED BY <3>1, <3>2, <3>3
  <2>. QED BY <2>1, <2>2 DEF SessInv, SessTypeOK, ReturnWs, GiveBack, Fault, Go, leases,
      driving, scratch, histories
<1>2. /\ UNCHANGED <<life, lives, mine, leases, driving>>
      /\ \A q \in Proc : /\ step'[q].sess = step[q].sess /\ (life[q] = 0 => step'[q] = step[q])
                        /\ \/ step'[q].at = step[q].at
                           \/ step'[q].at \notin Driving \cup Creating
                           \/ step'[q].at \in Creating /\ mine[q] # NoLease
    BY SMTT(60), SessionsAssumption DEF SessInv, SessTypeOK, Place, LeasesInv, HandsInv,
        PlaceInv, ScratchInv,
        NoStep, Creating, Cleaning, Driving, ReturnWs, GiveBack, Fault, Go, IsAt
<1>3. LeasesInv' /\ DriverInv'
    BY <1>2, LeasesRest
<1>4. ScratchInv'
  <2>1. CreationInv'
    BY SMTT(60), SessionsAssumption
    DEF SessInv, SessTypeOK, Place, WsRecord, LeasesInv, LivesInv, HandsInv, Driving, ScratchInv,
        CreationInv, PlaceInv, ReservedInv, NothingForeignRemoved, ContentIsRecorded,
        Creating, Cleaning, NoLease, NoStep, NoWs,
        ReturnWs, GiveBack, Fault, Go, IsAt, leases, driving, scratch, histories
  <2>2. PlaceInv'
    BY SMTT(60), SessionsAssumption
    DEF SessInv, SessTypeOK, Place, WsRecord, LeasesInv, LivesInv, HandsInv, Driving, ScratchInv,
        CreationInv, PlaceInv, ReservedInv, NothingForeignRemoved, ContentIsRecorded,
        Creating, Cleaning, NoLease, NoStep, NoWs,
        ReturnWs, GiveBack, Fault, Go, IsAt, leases, driving, scratch, histories
  <2>3. ReservedInv'
    BY SMTT(60), SessionsAssumption
    DEF SessInv, SessTypeOK, Place, WsRecord, LeasesInv, LivesInv, HandsInv, Driving, ScratchInv,
        CreationInv, PlaceInv, ReservedInv, NothingForeignRemoved, ContentIsRecorded,
        Creating, Cleaning, NoLease, NoStep, NoWs,
        ReturnWs, GiveBack, Fault, Go, IsAt, leases, driving, scratch, histories
  <2>4. NothingForeignRemoved'
    BY SMTT(60), SessionsAssumption
    DEF SessInv, SessTypeOK, Place, WsRecord, LeasesInv, LivesInv, HandsInv, Driving, ScratchInv,
        CreationInv, PlaceInv, ReservedInv, NothingForeignRemoved, ContentIsRecorded,
        Creating, Cleaning, NoLease, NoStep, NoWs,
        ReturnWs, GiveBack, Fault, Go, IsAt, leases, driving, scratch, histories
  <2>5. ContentIsRecorded'
    BY SMTT(60), SessionsAssumption
    DEF SessInv, SessTypeOK, Place, WsRecord, LeasesInv, LivesInv, HandsInv, Driving, ScratchInv,
        CreationInv, PlaceInv, ReservedInv, NothingForeignRemoved, ContentIsRecorded,
        Creating, Cleaning, NoLease, NoStep, NoWs,
        ReturnWs, GiveBack, Fault, Go, IsAt, leases, driving, scratch, histories
  <2>. QED BY <2>1, <2>2, <2>3, <2>4, <2>5 DEF ScratchInv
<1>. QED BY <1>1, <1>2, <1>3, <1>4 DEF SessInv

LEMMA BeginKeeps ==
    ASSUME SessInv, NEW p \in Proc, Begin(p)
    PROVE  SessInv'
<1>1. SessTypeOK'
  <2>1. step' \in [Proc -> Place]
    BY SMT, SessionsAssumption DEF SessInv, SessTypeOK, Place, Dir, NoStep, Begin
  <2>2. life' \in [Proc -> Nat] /\ lives' \in Nat /\ mine' \in [Proc -> Lease]
    BY SMT, SessionsAssumption DEF SessInv, SessTypeOK, Lease, NoLease, Begin
  <2>. QED BY <2>1, <2>2 DEF SessInv, SessTypeOK, Begin, Go, leases, driving, scratch, histories
<1>2. LeasesInv'
  <2>1. LivesInv'
    BY SMTT(60), SessionsAssumption DEF SessInv, SessTypeOK, Lease, Place, LeasesInv, LivesInv,
        HandsInv, Driving, Creating, SequenceInv, LeaseInHand, NoLease, NoStep, Living,
        Begin, Go, IsAt, leases
  <2>2. HandsInv'
    <3>1. \A q \in Proc \ {p} : /\ step'[q] = step[q] /\ life'[q] = life[q]
                               /\ mine'[q] = mine[q]
        BY SMT DEF SessInv, SessTypeOK, Begin
    <3>2. step'[p] = NoStep /\ mine'[p] = NoLease /\ NoStep.at = "idle"
        BY SMT DEF SessInv, SessTypeOK, Place, LeasesInv, HandsInv, NoStep, IsAt, Begin
    <3>. QED BY <3>1, <3>2, SMT DEF SessInv, LeasesInv, HandsInv, Driving, Creating, Cleaning
  <2>3. SequenceInv'
    BY SMTT(60), SessionsAssumption DEF SessInv, SessTypeOK, Lease, Place, LeasesInv, LivesInv,
        HandsInv, Driving, Creating, SequenceInv, LeaseInHand, NoLease, NoStep, Living,
        Begin, Go, IsAt, leases
  <2>4. LeaseInHand'
    BY SMTT(60), SessionsAssumption DEF SessInv, SessTypeOK, Lease, Place, LeasesInv, LivesInv,
        HandsInv, Driving, Creating, SequenceInv, LeaseInHand, NoLease, NoStep, Living,
        Begin, Go, IsAt, leases
  <2>. QED BY <2>1, <2>2, <2>3, <2>4 DEF LeasesInv
<1>3. DriverInv'
    BY SMT, SessionsAssumption DEF SessInv, SessTypeOK, Lease, DriverRecord, Place, LeasesInv,
        LivesInv, HandsInv, Driving, Creating, Cleaning,
                LeaseInHand, DriverInv, RenamedUnderLock, WorkerIsDriver, NoLease, NoDriver,
                NoStep, Free, Living, NamesLease,
                Begin, Go, IsAt, leases, driving, scratch, histories
<1>4. ScratchInv'
    BY SMT, SessionsAssumption DEF SessInv, SessTypeOK, Place, WsRecord, LeasesInv, LivesInv,
        HandsInv, Driving, ScratchInv,
                CreationInv, PlaceInv, ReservedInv, NothingForeignRemoved, ContentIsRecorded,
                Creating, Cleaning, NoLease, NoStep, NoWs,
                Begin, Go, IsAt, leases, driving, scratch, histories
<1>. QED BY <1>1, <1>2, <1>3, <1>4 DEF SessInv

LEMMA DieKeeps ==
    ASSUME SessInv, NEW p \in Proc, Die(p)
    PROVE  SessInv'
<1>1. SessTypeOK'
  <2>1. step' \in [Proc -> Place]
    BY SMT, SessionsAssumption DEF SessInv, SessTypeOK, Place, Dir, NoStep, Die, Fault
  <2>2. life' \in [Proc -> Nat] /\ lives' \in Nat /\ mine' \in [Proc -> Lease]
    BY SMT, SessionsAssumption DEF SessInv, SessTypeOK, Lease, NoLease, Die, Fault
  <2>3. driver' \in DriverRecord /\ drvLock' \in Proc \cup {Free}
    BY SMT, SessionsAssumption DEF SessInv, SessTypeOK, Place, DriverRecord, NoDriver,
        NamesLease, Free, Die, Fault
  <2>. QED BY <2>1, <2>2, <2>3 DEF SessInv, SessTypeOK, Die, Go, leases, driving, scratch,
        histories
<1>2. LeasesInv'
  <2>1. LivesInv'
    BY SMTT(60), SessionsAssumption DEF SessInv, SessTypeOK, Lease, Place, LeasesInv, LivesInv,
        HandsInv, Driving, Creating, SequenceInv, LeaseInHand, NoLease, NoStep, Living,
        Die, Fault, Go, IsAt, leases
  <2>2. HandsInv'
    <3>1. \A q \in Proc \ {p} : /\ step'[q] = step[q] /\ life'[q] = life[q]
                               /\ mine'[q] = mine[q]
        BY SMT DEF SessInv, SessTypeOK, Die, Fault
    <3>2. step'[p].at = "idle" /\ mine'[p] = NoLease /\ (life'[p] = 0 => step'[p] = NoStep)
        BY SMT DEF SessInv, SessTypeOK, Place, LeasesInv, HandsInv, NoStep, IsAt, Die, Fault
    <3>. QED BY <3>1, <3>2, SMT DEF SessInv, LeasesInv, HandsInv, Driving, Creating, Cleaning
  <2>3. SequenceInv'
    BY SMTT(60), SessionsAssumption DEF SessInv, SessTypeOK, Lease, Place, LeasesInv, LivesInv,
        HandsInv, Driving, Creating, SequenceInv, LeaseInHand, NoLease, NoStep, Living,
        Die, Fault, Go, IsAt, leases
  <2>4. LeaseInHand'
    BY SMTT(60), SessionsAssumption DEF SessInv, SessTypeOK, Lease, Place, LeasesInv, LivesInv,
        HandsInv, Driving, Creating, SequenceInv, LeaseInHand, NoLease, NoStep, Living,
        Die, Fault, Go, IsAt, leases
  <2>. QED BY <2>1, <2>2, <2>3, <2>4 DEF LeasesInv
<1>3. DriverInv'
    BY SMT, SessionsAssumption DEF SessInv, SessTypeOK, Lease, DriverRecord, Place, LeasesInv,
        LivesInv, HandsInv, Driving, Creating, Cleaning,
                LeaseInHand, DriverInv, RenamedUnderLock, WorkerIsDriver, NoLease, NoDriver,
                NoStep, Free, Living, NamesLease,
                Die, Fault, Go, IsAt, leases, driving, scratch, histories
<1>4. ScratchInv'
    BY SMT, SessionsAssumption DEF SessInv, SessTypeOK, Place, WsRecord, LeasesInv, LivesInv,
        HandsInv, Driving, ScratchInv,
                CreationInv, PlaceInv, ReservedInv, NothingForeignRemoved, ContentIsRecorded,
                Creating, Cleaning, NoLease, NoStep, NoWs,
                Die, Fault, Go, IsAt, leases, driving, scratch, histories
<1>. QED BY <1>1, <1>2, <1>3, <1>4 DEF SessInv

LEMMA SwapKeeps ==
    ASSUME SessInv, NEW w \in Workspace, NEW by \in {"none", "foreign"},
           NEW full \in BOOLEAN, Swap(w, by, full)
    PROVE  SessInv'
<1>1. SessTypeOK'
  <2>1. dir' \in [Workspace -> Dir] /\ filled' \subseteq Workspace
    BY SMTT(60), SessionsAssumption DEF SessInv, SessTypeOK, Place, Dir, IsAt, ScratchInv,
        PlaceInv, Creating, Cleaning, Swap, Fault
  <2>. QED BY <2>1 DEF SessInv, SessTypeOK, Swap, Fault, Go, leases,
      driving, scratch, histories
<1>2. /\ UNCHANGED <<life, lives, mine, leases, driving>>
      /\ \A q \in Proc : /\ step'[q].sess = step[q].sess /\ (life[q] = 0 => step'[q] = step[q])
                        /\ \/ step'[q].at = step[q].at
                           \/ step'[q].at \notin Driving \cup Creating
                           \/ step'[q].at \in Creating /\ mine[q] # NoLease
    BY SMTT(60), SessionsAssumption DEF SessInv, SessTypeOK, Place, LeasesInv, HandsInv,
        PlaceInv, ScratchInv,
        NoStep, Creating, Cleaning, Driving, Swap, Fault, Go, IsAt
<1>3. LeasesInv' /\ DriverInv'
    BY <1>2, LeasesRest
<1>4. ScratchInv'
  <2>1. CreationInv'
    BY SMTT(60), SessionsAssumption
    DEF SessInv, SessTypeOK, Place, WsRecord, LeasesInv, LivesInv, HandsInv, Driving, ScratchInv,
        CreationInv, PlaceInv, ReservedInv, NothingForeignRemoved, ContentIsRecorded,
        Creating, Cleaning, NoLease, NoStep, NoWs,
        Swap, Fault, Go, IsAt, leases, driving, scratch, histories
  <2>2. PlaceInv'
    BY SMTT(60), SessionsAssumption
    DEF SessInv, SessTypeOK, Place, WsRecord, LeasesInv, LivesInv, HandsInv, Driving, ScratchInv,
        CreationInv, PlaceInv, ReservedInv, NothingForeignRemoved, ContentIsRecorded,
        Creating, Cleaning, NoLease, NoStep, NoWs,
        Swap, Fault, Go, IsAt, leases, driving, scratch, histories
  <2>3. ReservedInv'
    BY SMTT(60), SessionsAssumption
    DEF SessInv, SessTypeOK, Place, WsRecord, LeasesInv, LivesInv, HandsInv, Driving, ScratchInv,
        CreationInv, PlaceInv, ReservedInv, NothingForeignRemoved, ContentIsRecorded,
        Creating, Cleaning, NoLease, NoStep, NoWs,
        Swap, Fault, Go, IsAt, leases, driving, scratch, histories
  <2>4. NothingForeignRemoved'
    BY SMTT(60), SessionsAssumption
    DEF SessInv, SessTypeOK, Place, WsRecord, LeasesInv, LivesInv, HandsInv, Driving, ScratchInv,
        CreationInv, PlaceInv, ReservedInv, NothingForeignRemoved, ContentIsRecorded,
        Creating, Cleaning, NoLease, NoStep, NoWs,
        Swap, Fault, Go, IsAt, leases, driving, scratch, histories
  <2>5. ContentIsRecorded'
    BY SMTT(60), SessionsAssumption
    DEF SessInv, SessTypeOK, Place, WsRecord, LeasesInv, LivesInv, HandsInv, Driving, ScratchInv,
        CreationInv, PlaceInv, ReservedInv, NothingForeignRemoved, ContentIsRecorded,
        Creating, Cleaning, NoLease, NoStep, NoWs,
        Swap, Fault, Go, IsAt, leases, driving, scratch, histories
  <2>. QED BY <2>1, <2>2, <2>3, <2>4, <2>5 DEF ScratchInv
<1>. QED BY <1>1, <1>2, <1>3, <1>4 DEF SessInv

-----------------------------------------------------------------------------
(* The theorems                                                            *)

LEMMA SessInitIsKept == SessInit => SessInv
<1>. SUFFICES ASSUME SessInit PROVE SessInv
    OBVIOUS
<1>1. SessTypeOK
  <2>1. NoLease \in Lease /\ NoDriver \in DriverRecord /\ NoStep \in Place /\ NoWs \in WsRecord
      BY SMT DEF Dir, Lease, DriverRecord, Place, WsRecord, NoLease, NoDriver, NoStep, NoWs
  <2>2. /\ life \in [Proc -> Nat] /\ lives \in Nat /\ mine \in [Proc -> Lease]
        /\ step \in [Proc -> Place] /\ lease \in [Session -> Lease] /\ sequence \in Nat
      BY <2>1, SMT DEF SessInit
  <2>3. /\ root \in [Session -> {"none", "made", "indexed"}]
        /\ dir \in [Workspace -> Dir] /\ ws \in [Workspace -> WsRecord]
      BY <2>1, SMT DEF SessInit, Dir
  <2>. QED BY <2>1, <2>2, <2>3, Zenon DEF SessInit, SessTypeOK
<1>2. LeasesInv
    BY SMT DEF SessInit, LeasesInv, LivesInv, HandsInv, Driving, Creating, Cleaning,
        SequenceInv, LeaseInHand, NoLease,
        NoStep
<1>3. DriverInv
    BY SMT DEF SessInit, DriverInv, RenamedUnderLock, WorkerIsDriver, IsAt, NoStep
<1>4. ScratchInv
    BY SMT, SessionsAssumption DEF SessInit, ScratchInv, CreationInv, PlaceInv, ReservedInv,
       NothingForeignRemoved, ContentIsRecorded, Creating, Cleaning, NoStep, NoWs
<1>. QED BY <1>1, <1>2, <1>3, <1>4 DEF SessInv

LEMMA SessStepIsKept == SessInv /\ [SessNext]_sessVars => SessInv'
<1>. SUFFICES ASSUME SessInv, [SessNext]_sessVars PROVE SessInv'
    OBVIOUS
<1>1. CASE SessNext
    BY <1>1, OpenSessionKeeps, OpenTornKeeps, CloseSessionKeeps, CoordinateKeeps, AdvanceKeeps,
       PublishKeeps, WorkKeeps, ReleaseDriverKeeps, ReleasedKeeps, ReserveWsKeeps, RootKeeps,
       RootTornKeeps, MakeKeeps, RecordWsKeeps, ActivateKeeps, CreateFailsKeeps, FillKeeps,
       ReleaseWsKeeps, CheckWsKeeps, EmptyWsKeeps, RemoveWsKeeps, EndRecordKeeps,
       ReturnWsKeeps, BeginKeeps, DieKeeps, SwapKeeps
       DEF SessNext, CreateStep, CleanStep, DriverStep
<1>2. CASE UNCHANGED sessVars
  <2>1. SessTypeOK'
      BY <1>2, SMT DEF sessVars, SessInv, SessTypeOK, leases, driving, scratch, histories
  <2>2. LeasesInv'
      BY <1>2, SMT DEF sessVars, SessInv, LeasesInv, LivesInv, HandsInv, Driving, Creating,
            Cleaning, SequenceInv,
          LeaseInHand
  <2>3. DriverInv'
      BY <1>2, SMT DEF sessVars, SessInv, DriverInv, RenamedUnderLock, WorkerIsDriver, IsAt,
                       NamesLease
  <2>4. ScratchInv'
      BY <1>2, ScratchRests, SMT DEF sessVars, scratch
  <2>. QED BY <2>1, <2>2, <2>3, <2>4 DEF SessInv
<1>. QED BY <1>1, <1>2

\* The types of leases, driver and workspaces, and all that the invariant says.
THEOREM SessIsSound == SessSpec => []SessInv
<1>. QED BY SessInitIsKept, SessStepIsKept, PTL DEF SessSpec

\* In a state that satisfies the invariant nobody shares the drive, and every workspace is
\* its creator's.
LEMMA SessInvSuffices == SessInv => OwnershipIsKept
<1>. SUFFICES ASSUME SessInv PROVE OwnershipIsKept
    OBVIOUS
<1>1. OneDriver
    BY SMT DEF SessInv, LeasesInv, LivesInv, HandsInv, Driving, Creating, Cleaning, DriverInv,
        WorkerIsDriver, NamesLease,
               OneDriver, IsAt
<1>2. ReservationsAreInUse
    BY SMT DEF SessInv, ScratchInv, ReservedInv, ReservationsAreInUse, Living
<1>. QED BY <1>1, <1>2 DEF SessInv, ScratchInv, OwnershipIsKept, WorkspacesAreOwned

\* Two live processes never work on a project's storage at once, as long as no failing reader
\* let a live lease be taken; a cleanup removes only what was registered, content lies under
\* a record, and a live process's reservation is that of a workspace it makes or holds.
THEOREM OwnershipIsAlwaysKept == SessSpec => []OwnershipIsKept
<1>. QED BY SessIsSound, SessInvSuffices, PTL

LEMMA LeasesGrowInStep ==
    SessInv /\ [SessNext]_sessVars
        => \A s \in Session : lease'[s] # lease[s] /\ lease'[s] # NoLease
              => \A t \in Session : lease'[s].seq > lease[t].seq
<1>. SUFFICES ASSUME SessInv, SessNext, lease' # lease,
                     NEW s \in Session, lease'[s] # lease[s], lease'[s] # NoLease,
                     NEW t \in Session
              PROVE  lease'[s].seq > lease[t].seq
    BY DEF sessVars
<1>1. PICK p \in Proc, u \in Session :
         \/ \E seen \in BOOLEAN : OpenSession(p, u, seen)
         \/ \E drawn \in BOOLEAN : OpenTorn(p, u, drawn)
         \/ CloseSession(p)
    BY ZenonT(60)
    DEF SessNext, CreateStep, DriverStep, Coordinate, Advance, Publish, Work, ReleaseDriver,
           Released, ReserveWs, Root, RootTorn, Make, RecordWs, Activate, CreateFails, Fill,
           ReleaseWs, CleanStep, CheckWs, EmptyWs, RemoveWs, EndRecord, ReturnWs, Begin, Die,
           Swap, leases
<1>2. lease[t].seq <= sequence /\ lease[t].seq \in Nat /\ sequence \in Nat
    BY SMT DEF SessInv, SessTypeOK, Lease, LeasesInv, SequenceInv
<1>3. lease'[s].seq = sequence + 1
  <2>1. ASSUME NEW seen \in BOOLEAN, OpenSession(p, u, seen) PROVE lease'[s].seq = sequence + 1
      BY <2>1, SMT DEF SessInv, SessTypeOK, OpenSession, NextSequence
  <2>2. ASSUME NEW v \in Session \cup {"none"}, lease' = [lease EXCEPT ![v] = NoLease]
        PROVE  FALSE
      BY <2>2, SMT DEF SessInv, SessTypeOK
  <2>3. CASE \E drawn \in BOOLEAN : OpenTorn(p, u, drawn)
      BY <2>2, <2>3 DEF OpenTorn
  <2>4. CASE CloseSession(p)
      <3>1. step[p].sess \in Session \cup {"none"}
          BY SMT DEF SessInv, SessTypeOK, Place
      <3>. QED BY <2>2, <2>4, <3>1 DEF CloseSession
  <2>. QED BY <1>1, <2>1, <2>3, <2>4
<1>. QED BY <1>2, <1>3, SMT

\* A lease that is written has a higher sequence than every lease there was, whichever
\* process died between the writes of an open_session before.
THEOREM LeasesAlwaysGrow == SessSpec => LeasesGrow
<1>1. SessInv /\ [SessNext]_sessVars
         => [\A s \in Session : lease'[s] # lease[s] /\ lease'[s] # NoLease
               => \A t \in Session : lease'[s].seq > lease[t].seq]_sessVars
    BY LeasesGrowInStep
<1>. QED BY <1>1, SessIsSound, PTL DEF SessSpec, LeasesGrow

-----------------------------------------------------------------------------
(* PART THREE: the moves of a steward                                      *)


Working == Ahead \cup Moving

LEMMA PassFields ==
    ASSUME NEW w \in PassRecord
    PROVE  /\ \A v \in Places : [w EXCEPT !.at = v] \in PassRecord
           /\ \A v \in SUBSET Item : /\ [w EXCEPT !.todo = v] \in PassRecord
                                     /\ [w EXCEPT !.hold = v] \in PassRecord
           /\ \A v \in Nat : [w EXCEPT !.job = v] \in PassRecord
           /\ \A v \in {"none", "guest", "target"} : [w EXCEPT !.where = v] \in PassRecord
           /\ \A v \in Tree \cup {NoBundle} : [w EXCEPT !.built = v] \in PassRecord
           /\ \A v \in {"none"} \cup Outcome : [w EXCEPT !.status = v] \in PassRecord
<1>1. \A v \in Places : [w EXCEPT !.at = v] \in PassRecord
    BY DEF PassRecord
<1>2. \A v \in SUBSET Item : /\ [w EXCEPT !.todo = v] \in PassRecord
                             /\ [w EXCEPT !.hold = v] \in PassRecord
    BY DEF PassRecord
<1>3. \A v \in Nat : [w EXCEPT !.job = v] \in PassRecord
    BY DEF PassRecord
<1>4. \A v \in {"none", "guest", "target"} : [w EXCEPT !.where = v] \in PassRecord
    BY DEF PassRecord
<1>5. \A v \in Tree \cup {NoBundle} : [w EXCEPT !.built = v] \in PassRecord
    BY DEF PassRecord
<1>6. \A v \in {"none"} \cup Outcome : [w EXCEPT !.status = v] \in PassRecord
    BY DEF PassRecord
<1>. QED BY <1>1, <1>2, <1>3, <1>4, <1>5, <1>6, Zenon

LEMMA PlacesAre ==
    /\ "idle" \in Places /\ "recovering" \in Places /\ "recovered" \in Places
    /\ "chosen" \in Places /\ "planned" \in Places /\ "items" \in Places
    /\ OnItem \subseteq Places
    /\ Working \subseteq OnItem /\ OnItem \subseteq UnderLock /\ UnderLock \subseteq Places
    /\ "receipt" \in OnItem /\ "completion" \in OnItem
    /\ "receipt" \notin Working /\ "completion" \notin Working /\ "items" \notin OnItem
    /\ "items" \in UnderLock /\ "recovering" \in UnderLock /\ "recovering" \notin OnItem
    /\ "idle" \notin UnderLock /\ "recovered" \notin UnderLock /\ "chosen" \notin UnderLock
    /\ "planned" \notin UnderLock
BY DEF Places, UnderLock, OnItem, Ahead, Moving, Removing, Working

LEMMA NoPassIs ==
    /\ NoPass \in PassRecord /\ NoPass.at = "idle" /\ NoPass.todo = {}
BY PlacesAre DEF NoPass, PassRecord

\* A pass that goes on, and one whose item is kept.
LEMMA GoesOn ==
    ASSUME NEW w \in PassRecord, NEW v \in Places
    PROVE  LET u == [w EXCEPT !.at = v] IN
           /\ u \in PassRecord /\ u.at = v /\ u.todo = w.todo /\ u.job = w.job
           /\ u.where = w.where /\ u.hold = w.hold /\ u.built = w.built /\ u.status = w.status
BY PassFields DEF PassRecord

LEMMA IsKept ==
    ASSUME NEW w \in PassRecord, NEW s \in Outcome
    PROVE  LET u == [w EXCEPT !.at = "receipt", !.status = s] IN
           /\ u \in PassRecord /\ u.at = "receipt" /\ u.todo = w.todo /\ u.job = w.job
           /\ u.status = s
<1>. DEFINE x == [w EXCEPT !.at = "receipt"]
            u == [x EXCEPT !.status = s]
<1>1. x \in PassRecord /\ x.at = "receipt" /\ x.todo = w.todo /\ x.job = w.job
    BY GoesOn, PlacesAre
<1>2. [w EXCEPT !.at = "receipt", !.status = s] = u
    BY DEF PassRecord
<1>. HIDE DEF x
<1>3. u \in PassRecord
    BY <1>1, PassFields
<1>4. u.at = x.at /\ u.todo = x.todo /\ u.job = x.job /\ u.status = s
    BY <1>1 DEF PassRecord
<1>. HIDE DEF u
<1>. QED BY <1>1, <1>2, <1>3, <1>4

-----------------------------------------------------------------------------

LEMMA Holds ==
    ASSUME RelocInv
    PROVE  /\ RelocTypeOK /\ OneCopy /\ pass \in [Steward -> PassRecord]
           /\ jobs \in [Job -> Item \cup {NoJob}]
           /\ \A p \in Steward : PassInv(p)
           /\ \A r \in Job : JobInv(r)
           /\ \A x \in removedBy : x[2] \in Planned /\ Foreseen(x[1], x[2], x[3])
           /\ \A i \in Item : place[i] = "versioned" => i \in retaken
BY DEF RelocInv, RelocTypeOK

\* Who is under the lock is alone there.
LEMMA AloneThere ==
    ASSUME RelocInv, NEW p \in Steward, pass[p].at \in UnderLock
    PROVE  \A q \in Steward \ {p} : pass[q].at \notin UnderLock
BY Holds DEF PassInv

LEMMA OnlyWorker ==
    ASSUME RelocInv, NEW p \in Steward, pass[p].at \in UnderLock, NEW i, Worked(i)
    PROVE  pass[p].at \in Working /\ i = ItemOf(p)
<1>1. PICK q \in Steward : pass[q].at \in Ahead \cup Moving /\ ItemOf(q) = i
    BY DEF Worked
<1>2. pass[q].at \in UnderLock
    BY <1>1, PlacesAre DEF Working
<1>3. q = p
    BY <1>2, AloneThere
<1>. QED BY <1>1, <1>3 DEF Working

\* A pass is as it should be, said of what it is after the step.
LEMMA PassIs ==
    ASSUME NEW p \in Steward, NEW w, w = pass'[p], w.at \in UnderLock => lock' = p,
           w.at \in {"planned", "items"} \cup OnItem =>
              \A j \in w.todo : Originals(j)' \subseteq pins',
           NEW i, i = jobs'[w.job], w.at \in OnItem => ItemInv(w, w.job, i)'
    PROVE  PassInv(p)'
BY DEF PassInv, ItemOf, ItemInv

\* A pass that is not under the lock only has its pins to see to.
LEMMA OthersAre ==
    ASSUME NEW q \in Steward, PassInv(q), pass'[q] = pass[q], pass[q].at \notin UnderLock,
           kind' = kind, pins \subseteq pins'
    PROVE  PassInv(q)'
<1>1. pass[q].at \notin OnItem
    BY PlacesAre
<1>2. pass[q].at \in {"planned", "items"} =>
         \A j \in pass[q].todo : Originals(j) \subseteq pins
    BY <1>1 DEF PassInv
<1>3. \A j : Originals(j)' = Originals(j)
    BY DEF Originals
<1>. QED BY <1>1, <1>2, <1>3 DEF PassInv

\* A receipt id the step has nothing to do with.
LEMMA JobRests ==
    ASSUME NEW r \in Job, JobInv(r), kind' = kind, jobs'[r] = jobs[r],
           journal'[r] = journal[r], receipts'[r] = receipts[r], staged'[r] = staged[r],
           bundles'[r] = bundles[r], Removed(r)' = Removed(r), pins \subseteq pins',
           jobs[r] \in Item \cup {NoJob}, Partner \in [Item -> Item], NoJob \notin Item,
           \A i \in Item : ~Worked(i) => place'[i] = place[i] /\ ~Worked(i)'
    PROVE  JobInv(r)'
<1>. PICK k : k = jobs[r]
    OBVIOUS
<1>1. k = NoJob => Unused(r)'
    BY DEF JobInv, Unused
<1>2. ASSUME Removed(r) # {}
      PROVE  /\ "removal" \in journal'[r] /\ receipts'[r] # "KEPT"
             /\ kind'[k] # "extract" => bundles'[r] = Base
             /\ \A o \in Originals(k)' : o \in pins' /\ place'[o] # "gone" /\ ~Worked(o)'
  <2>1. Originals(k)' = Originals(k)
      BY DEF Originals
  <2>2. k \in Item
      BY <1>2 DEF JobInv, Unused
  <2>3. Originals(k) \subseteq Item
      BY <2>2 DEF Originals
  <2>4. \A o \in Originals(k) : o \in pins /\ place[o] # "gone" /\ ~Worked(o)
      BY <1>2 DEF JobInv
  <2>5. /\ "removal" \in journal[r] /\ receipts[r] # "KEPT"
        /\ kind[k] # "extract" => bundles[r] = Base
      BY <1>2 DEF JobInv
  <2>. QED BY <2>1, <2>3, <2>4, <2>5
<1>3. ASSUME receipts[r] = "RELOCATED"
      PROVE  place'[k] \in {"gone", "quarantine"} /\ ~Worked(k)'
  <2>1. k \in Item
      BY <1>3 DEF JobInv, Unused
  <2>2. place[k] \in {"gone", "quarantine"} /\ ~Worked(k)
      BY <1>3 DEF JobInv
  <2>. QED BY <2>1, <2>2
<1>4. staged[r] = "target" => "build" \in journal[r]
    BY DEF JobInv
<1>5. jobs'[r] = k
    OBVIOUS
<1>. QED BY <1>1, <1>2, <1>3, <1>4, <1>5 DEF JobInv

\* What a step makes of the pass, and of the files of a receipt id.
Takes(p, w) == pass' = [pass EXCEPT ![p] = w]
Stays(w) == w.at \in OnItem \cup {"items"}
DoesNotAdd(p, w) == w.todo \subseteq pass[p].todo
OnlyMarks(r, a) == journal[r] \subseteq a
Marks == SUBSET {"build", "intent", "removal", "done"}
Answer == {"none"} \cup Outcome
Spot == {"none", "guest", "target"}
Archived == Tree \cup {NoBundle}
Files(r, a, b, c, d) ==
    /\ journal' = [journal EXCEPT ![r] = a] /\ receipts' = [receipts EXCEPT ![r] = b]
    /\ staged' = [staged EXCEPT ![r] = c] /\ bundles' = [bundles EXCEPT ![r] = d]
Apart(r) == \A q \in Job \ {r} : /\ journal'[q] = journal[q] /\ receipts'[q] = receipts[q]
                                 /\ staged'[q] = staged[q] /\ bundles'[q] = bundles[q]
NotOnTarget(i) == \A q \in Job : jobs[q] = i => staged[q] # "target"
ProperCopy(r, i, a, c) == c = staged[r] \/ c # "target" \/ ("build" \in a /\ NotOnTarget(i))
OnPaper == /\ UNCHANGED <<kind, tree, place, retaken, visitor, retention, target, pins, jobs,
                          lock, removedBy, unseen, spoilt>>
           /\ events' \in Nat
CopyFits(r, i, c) == c = staged[r] \/ c # "target" \/ NotOnTarget(i)

\* A step of the pass that works on an item: it stays on it, or is done with it.
LEMMA ItemStepKeeps ==
    ASSUME RelocInv, RelocTypeOK', NEW p \in Steward,
           pass[p].at \in OnItem, NEW r \in Job, r = pass[p].job, NEW i \in Item, i = jobs[r],
           NEW w \in PassRecord, Takes(p, w), DoesNotAdd(p, w),
           Stays(w), w.at \in Working => pass[p].at \in Working,
           w.at \in OnItem => w.job = r /\ ItemInv(w, r, i)',
           UNCHANGED <<kind, jobs, pins, lock>>,
           Apart(r),
           \A x \in removedBy' :
              x \in removedBy \/ (x[1] = r /\ x[2] \in Planned /\ Foreseen(r, x[2], x[3])),
           removedBy \subseteq removedBy', unseen' = unseen,
           \A j \in Item : place'[j] = place[j] \/ (j = i /\ pass[p].at \in Working),
           retaken \subseteq retaken', place'[i] = "versioned" => i \in retaken',
           staged'[r] = staged[r] \/ staged'[r] # "target" \/ NotOnTarget(i),
           JobInv(r)'
    PROVE  RelocInv'
<1>1. \A q \in Steward \ {p} : pass'[q] = pass[q] /\ pass[q].at \notin UnderLock
    BY PlacesAre, AloneThere, Holds DEF Takes
<1>2. pass'[p] = w /\ lock = p
    BY Holds, PlacesAre DEF PassInv, Takes
<1>3. \A j : Originals(j)' = Originals(j)
    BY DEF Originals
<1>4. PassInv(p)'
  <2>1. \A j \in pass[p].todo : Originals(j) \subseteq pins
      BY Holds DEF PassInv
  <2>2. \A j \in w.todo : Originals(j)' \subseteq pins'
      BY <1>3, <2>1 DEF DoesNotAdd
  <2>3. PICK k : k = jobs'[w.job]
      OBVIOUS
  <2>4. w.at \in OnItem => ItemInv(w, w.job, k)'
      BY <2>3
  <2>. QED BY <1>2, <2>2, <2>3, <2>4, PassIs
<1>5. \A q \in Steward \ {p} : PassInv(q)'
    BY <1>1, OthersAre, Holds
<1>6. \A j : Worked(j)' => Worked(j)
  <2>. SUFFICES ASSUME NEW j, Worked(j)' PROVE Worked(j)
      OBVIOUS
  <2>1. PICK q \in Steward : pass'[q].at \in Working /\ jobs'[pass'[q].job] = j
      BY DEF Worked, Working, ItemOf
  <2>2. q = p
      BY <1>1, <2>1, PlacesAre
  <2>3. pass[p].at \in Working /\ jobs[pass[p].job] = j
      BY <1>2, <2>1, <2>2, PlacesAre
  <2>. QED BY <2>3 DEF Worked, Working, ItemOf
<1>7. \A j \in Item : ~Worked(j) => place'[j] = place[j] /\ ~Worked(j)'
  <2>1. pass[p].at \in Working => Worked(i)
      BY DEF Worked, Working, ItemOf
  <2>. QED BY <1>6, <2>1
<1>8. \A q \in Job \ {r} : Removed(q)' = Removed(q)
    BY DEF Removed
<1>9. \A q \in Job \ {r} : JobInv(q)'
  <2>. SUFFICES ASSUME NEW q \in Job \ {r} PROVE JobInv(q)'
      OBVIOUS
  <2>1. JobInv(q) /\ jobs[q] \in Item \cup {NoJob} /\ jobs'[q] = jobs[q]
      BY Holds
  <2>2. Partner \in [Item -> Item] /\ NoJob \notin Item
      BY RelocationAssumption
  <2>. QED BY <1>7, <1>8, <2>1, <2>2, JobRests DEF Apart
<1>10. OneCopy'
  <2>. SUFFICES ASSUME NEW a \in Job, NEW b \in Job, staged'[a] = "target", staged'[b] = "target",
                       jobs[a] = jobs[b]
                PROVE  a = b
      BY DEF OneCopy
  <2>1. OneCopy
      BY Holds
  <2>. QED BY <2>1 DEF OneCopy, Apart, NotOnTarget
<1>11. \A x \in removedBy' : x[2] \in Planned /\ Foreseen(x[1], x[2], x[3])'
    BY Holds DEF Foreseen
<1>12. \A j \in Item : place'[j] = "versioned" => j \in retaken'
    BY Holds
<1>. QED BY <1>4, <1>5, <1>9, <1>10, <1>11, <1>12 DEF RelocInv

-----------------------------------------------------------------------------
(* What a step does to the pass                                            *)

LEMMA GotoIs ==
    ASSUME pass \in [Steward -> PassRecord], NEW p \in Steward, NEW v \in Places, Goto(p, v)
    PROVE  \E w \in PassRecord :
              /\ pass' = [pass EXCEPT ![p] = w] /\ w.at = v /\ w.todo = pass[p].todo
              /\ w.job = pass[p].job /\ w.where = pass[p].where /\ w.hold = pass[p].hold
              /\ w.built = pass[p].built /\ w.status = pass[p].status
<1>. DEFINE w == [pass[p] EXCEPT !.at = v]
<1>1. pass' = [pass EXCEPT ![p] = w]
    BY DEF Goto
<1>2. /\ w \in PassRecord /\ w.at = v /\ w.todo = pass[p].todo /\ w.job = pass[p].job
      /\ w.where = pass[p].where /\ w.hold = pass[p].hold /\ w.built = pass[p].built
      /\ w.status = pass[p].status
    BY GoesOn
<1>. HIDE DEF w
<1>. QED BY <1>1, <1>2

\* The pass ends its item with a status, for its receipt.
EndsAs(p, s) == pass' = [pass EXCEPT ![p].at = "receipt", ![p].status = s]

LEMMA EndsAsIs ==
    ASSUME pass \in [Steward -> PassRecord], NEW p \in Steward, NEW s \in Outcome, EndsAs(p, s)
    PROVE  \E w \in PassRecord :
              /\ pass' = [pass EXCEPT ![p] = w] /\ w.at = "receipt" /\ w.todo = pass[p].todo
              /\ w.job = pass[p].job /\ w.status = s
<1>. DEFINE w == [pass[p] EXCEPT !.at = "receipt", !.status = s]
<1>1. pass' = [pass EXCEPT ![p] = w]
    BY DEF EndsAs
<1>2. /\ w \in PassRecord /\ w.at = "receipt" /\ w.todo = pass[p].todo /\ w.job = pass[p].job
      /\ w.status = s
    BY IsKept
<1>. HIDE DEF w
<1>. QED BY <1>1, <1>2

LEMMA FinishedIs ==
    ASSUME pass \in [Steward -> PassRecord], NEW p \in Steward, Finished(p)
    PROVE  \E w \in PassRecord :
              pass' = [pass EXCEPT ![p] = w] /\ w.at = "items" /\ w.todo = pass[p].todo
<1>. DEFINE x == [NoPass EXCEPT !.at = "items"]
            w == [x EXCEPT !.todo = pass[p].todo]
<1>1. pass' = [pass EXCEPT ![p] = w]
    BY DEF Finished
<1>2. x \in PassRecord /\ x.at = "items"
    BY NoPassIs, GoesOn, PlacesAre
<1>3. pass[p].todo \in SUBSET Item
    BY DEF PassRecord
<1>. HIDE DEF x
<1>4. w \in PassRecord /\ w.at = x.at /\ w.todo = pass[p].todo
    BY <1>2, <1>3, PassFields DEF PassRecord
<1>. HIDE DEF w
<1>. QED BY <1>1, <1>2, <1>4

LEMMA ItemHolds ==
    ASSUME RelocInv, NEW p \in Steward, pass[p].at \in OnItem
    PROVE  /\ pass[p] \in PassRecord /\ lock = p
           /\ pass[p].job \in Job /\ ItemOf(p) \in Item
           /\ ItemInv(pass[p], pass[p].job, ItemOf(p)) /\ JobInv(pass[p].job)
BY Holds, PlacesAre DEF PassInv, ItemInv

\* The receipt id of an item of which nothing is removed.
LEMMA JobIsWhole ==
    ASSUME NEW r \in Job, jobs'[r] \in Item, NoJob \notin Item, Removed(r)' = {},
           receipts'[r] # "RELOCATED", staged'[r] = "target" => "build" \in journal'[r]
    PROVE  JobInv(r)'
BY DEF JobInv

\* A step on paper: the item stays as it is and where it is.
LEMMA PaperKeeps ==
    ASSUME RelocInv, NEW p \in Steward,
           pass[p].at \in OnItem, NEW r \in Job, r = pass[p].job, NEW i \in Item, i = jobs[r],
           NEW w \in PassRecord, Takes(p, w), DoesNotAdd(p, w),
           Stays(w), w.at \in Working => pass[p].at \in Working,
           w.at \in OnItem => w.job = r /\ ItemInv(w, r, i)',
           OnPaper,
           NEW a \in Marks,
           NEW b \in Answer, NEW c \in Spot,
           NEW d \in Archived, Files(r, a, b, c, d),
           CopyFits(r, i, c),
           JobInv(r)'
    PROVE  RelocInv'
<1>. USE DEF OnPaper
<1>1. RelocTypeOK'
  <2>1. RelocTypeOK
      BY Holds
  <2>2. /\ journal' \in [Job -> Marks]
        /\ receipts' \in [Job -> Answer]
        /\ staged' \in [Job -> Spot]
        /\ bundles' \in [Job -> Archived]
        /\ pass' \in [Steward -> PassRecord]
      BY <2>1 DEF RelocTypeOK, Files, Takes, Marks, Answer, Spot, Archived
  <2>. QED BY <2>1, <2>2 DEF RelocTypeOK, Marks, Answer, Spot, Archived
<1>2. Apart(r) /\ staged'[r] = c
    BY Holds DEF RelocTypeOK, Files, Apart
<1>3. place'[i] = "versioned" => i \in retaken'
    BY Holds
<1>4. /\ UNCHANGED <<kind, jobs, pins, lock>>
      /\ \A x \in removedBy' : x \in removedBy
      /\ removedBy \subseteq removedBy' /\ unseen' = unseen /\ retaken \subseteq retaken'
      /\ \A j \in Item : place'[j] = place[j] \/ (j = i /\ pass[p].at \in Working)
    OBVIOUS
<1>5. staged'[r] = staged[r] \/ staged'[r] # "target" \/ NotOnTarget(i)
    BY <1>2 DEF CopyFits
<1>. QED BY <1>1, <1>2, <1>3, <1>4, <1>5, ItemStepKeeps, ZenonT(60)

LEMMA Unmoved ==
    ASSUME RelocInv, NEW r \in Job
    PROVE  /\ journal[r] \in Marks
           /\ journal = [journal EXCEPT ![r] = journal[r]]
           /\ receipts[r] \in Answer
           /\ receipts = [receipts EXCEPT ![r] = receipts[r]]
           /\ staged[r] \in Spot
           /\ staged = [staged EXCEPT ![r] = staged[r]]
           /\ bundles[r] \in Archived
           /\ bundles = [bundles EXCEPT ![r] = bundles[r]]
<1>. RelocTypeOK
    BY Holds
<1>. QED BY DEF RelocTypeOK, Marks, Answer, Spot, Archived

\* Nothing of the item is touched, and the pass goes on to work on it, or keeps it.
LEMMA WholeKeeps ==
    ASSUME RelocInv, NEW p \in Steward,
           pass[p].at \in Working, NEW r, r = pass[p].job, Removed(r) = {}, NEW i, i = jobs[r],
           NEW w \in PassRecord, Takes(p, w), w.todo = pass[p].todo, w.job = r,
           w.at \in Working => ItemInv(w, r, i)',
           w.at \in Working \/ (w.at = "receipt" /\ w.status = "KEPT"),
           OnPaper,
           NEW a \in Marks,
           NEW c \in Spot, NEW d \in Archived,
           Files(r, a, receipts[r], c, d), OnlyMarks(r, a),
           ProperCopy(r, i, a, c)
    PROVE  RelocInv'
<1>1. /\ pass[p].at \in OnItem /\ pass[p].at \in Working /\ r \in Job /\ i \in Item
      /\ ItemInv(pass[p], r, i) /\ JobInv(r) /\ pass[p].at # "receipt"
    BY ItemHolds DEF OnItem, Working, ItemOf, Ahead, Moving, Removing
<1>2. Removed(r) = {} /\ receipts[r] = "none" /\ Originals(i) \subseteq pins
    BY <1>1 DEF ItemInv, Working
<1>3. Removed(r)' = {} /\ Originals(i)' = Originals(i) /\ jobs' = jobs /\ pins' = pins
    BY <1>2 DEF Removed, Originals, OnPaper
<1>4. receipts[r] \in Answer /\ receipts' = receipts
    BY <1>1, Unmoved DEF Files
<1>5. w.at = "receipt" /\ w.status = "KEPT" => ItemInv(w, r, i)'
    BY <1>1, <1>2, <1>3, <1>4 DEF ItemInv, Ahead, Moving, Removing
<1>6. JobInv(r)'
  <2>1. jobs'[r] \in Item /\ NoJob \notin Item
      BY <1>1, <1>3, RelocationAssumption
  <2>2. staged'[r] = c /\ journal'[r] = a
      BY <1>1, Holds DEF RelocTypeOK, Files
  <2>3. staged'[r] = "target" => "build" \in journal'[r]
      BY <1>1, <2>2 DEF JobInv, ProperCopy, OnlyMarks
  <2>4. receipts'[r] # "RELOCATED"
      BY <1>2, <1>4
  <2>. QED BY <1>1, <1>3, <2>1, <2>3, <2>4, JobIsWhole
<1>7. /\ Stays(w) /\ DoesNotAdd(p, w)
      /\ (w.at \in Working => pass[p].at \in Working)
    BY <1>1, PlacesAre DEF Stays, DoesNotAdd
<1>8. w.at \in OnItem => w.job = r /\ ItemInv(w, r, i)'
    BY <1>5
<1>9. CopyFits(r, i, c)
    BY DEF CopyFits, ProperCopy
<1>10. pass[p].at \in OnItem /\ r \in Job /\ i \in Item /\ r = pass[p].job /\ i = jobs[r]
    BY <1>1
<1>11. PICK b : b \in Answer /\ Files(r, a, b, c, d)
    BY <1>4
<1>12. /\ RelocInv /\ OnPaper /\ p \in Steward /\ w \in PassRecord /\ Takes(p, w)
       /\ a \in Marks
       /\ c \in Spot /\ d \in Archived
    OBVIOUS
<1>. QED BY ONLY <1>6, <1>7, <1>8, <1>9, <1>10, <1>11, <1>12, PaperKeeps

-----------------------------------------------------------------------------
(* The steps of an item                                                    *)

LEMMA StageIs ==
    ASSUME pass \in [Steward -> PassRecord], NEW p \in Steward, NEW k \in {"guest", "target"},
           pass' = [pass EXCEPT ![p].at = "build", ![p].where = k]
    PROVE  \E w \in PassRecord : /\ Takes(p, w) /\ w.at = "build" /\ w.where = k
                                 /\ w.todo = pass[p].todo /\ w.job = pass[p].job
<1>. DEFINE x == [pass[p] EXCEPT !.at = "build"]
            w == [x EXCEPT !.where = k]
<1>1. Takes(p, w)
    BY DEF Takes
<1>2. /\ x \in PassRecord /\ x.at = "build" /\ x.todo = pass[p].todo /\ x.job = pass[p].job
    BY GoesOn, PlacesAre DEF OnItem, Ahead
<1>. HIDE DEF x
<1>3. w \in PassRecord /\ w.at = x.at /\ w.where = k /\ w.todo = x.todo /\ w.job = x.job
    BY <1>2, PassFields DEF PassRecord
<1>. HIDE DEF w
<1>. QED BY <1>1, <1>2, <1>3

BuiltAs(p, t) == pass' = [pass EXCEPT ![p].at = "place", ![p].built = t]

LEMMA BuildIs ==
    ASSUME pass \in [Steward -> PassRecord], NEW p \in Steward, NEW t \in Tree, BuiltAs(p, t)
    PROVE  \E w \in PassRecord : /\ Takes(p, w) /\ w.at = "place" /\ w.built = t
                                 /\ w.todo = pass[p].todo /\ w.job = pass[p].job
<1>. DEFINE x == [pass[p] EXCEPT !.at = "place"]
            w == [x EXCEPT !.built = t]
<1>1. Takes(p, w)
    BY DEF Takes, BuiltAs
<1>2. /\ x \in PassRecord /\ x.at = "place" /\ x.todo = pass[p].todo /\ x.job = pass[p].job
    BY GoesOn, PlacesAre DEF OnItem, Ahead
<1>. HIDE DEF x
<1>3. w \in PassRecord /\ w.at = x.at /\ w.built = t /\ w.todo = x.todo /\ w.job = x.job
    BY <1>2, PassFields DEF PassRecord
<1>. HIDE DEF w
<1>. QED BY <1>1, <1>2, <1>3

HeldAs(p, h) == pass' = [pass EXCEPT ![p].at = "intent", ![p].hold = h]

LEMMA RecheckIs ==
    ASSUME pass \in [Steward -> PassRecord], NEW p \in Steward, NEW h \in SUBSET Item,
           HeldAs(p, h)
    PROVE  \E w \in PassRecord : /\ Takes(p, w) /\ w.at = "intent" /\ w.hold = h
                                 /\ w.todo = pass[p].todo /\ w.job = pass[p].job
<1>. DEFINE x == [pass[p] EXCEPT !.at = "intent"]
            w == [x EXCEPT !.hold = h]
<1>1. Takes(p, w)
    BY DEF Takes, HeldAs
<1>2. /\ x \in PassRecord /\ x.at = "intent" /\ x.todo = pass[p].todo /\ x.job = pass[p].job
    BY GoesOn, PlacesAre DEF OnItem, Ahead
<1>. HIDE DEF x
<1>3. w \in PassRecord /\ w.at = x.at /\ w.hold = h /\ w.todo = x.todo /\ w.job = x.job
    BY <1>2, PassFields DEF PassRecord
<1>. HIDE DEF w
<1>. QED BY <1>1, <1>2, <1>3

LEMMA KeptIs ==
    ASSUME pass \in [Steward -> PassRecord], NEW p \in Steward, Kept(p)
    PROVE  \E w \in PassRecord : /\ Takes(p, w) /\ w.at = "receipt" /\ w.status = "KEPT"
                                 /\ w.todo = pass[p].todo /\ w.job = pass[p].job
<1>1. "KEPT" \in Outcome /\ EndsAs(p, "KEPT")
    BY DEF Outcome, Kept, EndsAs
<1>2. PICK s : s = "KEPT"
    OBVIOUS
<1>3. s \in Outcome /\ EndsAs(p, s)
    BY <1>1, <1>2
<1>4. PICK w \in PassRecord : pass' = [pass EXCEPT ![p] = w] /\ w.at = "receipt"
                              /\ w.todo = pass[p].todo /\ w.job = pass[p].job /\ w.status = s
    BY <1>3, EndsAsIs
<1>. QED BY <1>2, <1>4 DEF Takes

\* Kept before anything is touched.
LEMMA KeptWhole ==
    ASSUME RelocInv, NEW p \in Steward,
           pass[p].at \in Working, Kept(p), NEW r, r = pass[p].job, Removed(r) = {},
           OnPaper, NEW c \in Spot,
           Files(r, journal[r], receipts[r], c, bundles[r]),
           c = staged[r] \/ (pass[p].at = "build" /\ c = pass[p].where)
    PROVE  RelocInv'
<1>1. PICK w : /\ w \in PassRecord /\ Takes(p, w) /\ w.at = "receipt" /\ w.status = "KEPT"
               /\ w.todo = pass[p].todo /\ w.job = pass[p].job
    BY KeptIs, Holds
<1>2. r \in Job /\ ItemInv(pass[p], r, ItemOf(p)) /\ JobInv(r)
    BY ItemHolds DEF OnItem, Working
<1>3. PICK a, d : a = journal[r] /\ d = bundles[r]
    OBVIOUS
<1>4. /\ a \in Marks /\ OnlyMarks(r, a)
      /\ d \in Archived /\ Files(r, a, receipts[r], c, d)
    BY <1>2, <1>3, Unmoved DEF OnlyMarks
<1>5. PICK i : i = jobs[r]
    OBVIOUS
<1>6. ProperCopy(r, i, a, c)
    BY <1>2, <1>3, <1>5 DEF ItemInv, NotOnTarget, ItemOf, ProperCopy
<1>7. /\ RelocInv /\ OnPaper /\ p \in Steward /\ r = pass[p].job
      /\ pass[p].at \in Working /\ Removed(r) = {} /\ c \in Spot
    OBVIOUS
<1>8. w.at \notin Working
    BY <1>1, PlacesAre
<1>. QED BY ONLY <1>1, <1>4, <1>5, <1>6, <1>7, <1>8, WholeKeeps

LEMMA Stages ==
    ASSUME RelocInv, NEW p \in Steward, NEW k \in {"guest", "target"},
           Stage(p, k)
    PROVE  RelocInv'
<1>. PICK r : r = pass[p].job
    OBVIOUS
<1>. PICK i : i = jobs[r]
    OBVIOUS
<1>1. /\ pass[p].at = "stage" /\ pass[p].at \in Ahead
      /\ UNCHANGED <<kind, tree, place, retaken, visitor, retention, target, pins, jobs,
                     receipts, staged, bundles, lock, removedBy, unseen, spoilt, events>>
    BY DEF Stage, At, Ahead
<1>2. r \in Job /\ ItemInv(pass[p], r, i) /\ JobInv(r) /\ i \in Item
    BY <1>1, ItemHolds DEF OnItem, ItemOf
<1>3. pass \in [Steward -> PassRecord] /\ OnPaper
    BY <1>1, Holds DEF RelocTypeOK, OnPaper
<1>4. CASE Kept(p) /\ UNCHANGED journal
  <2>1. PICK c : c = staged[r]
      OBVIOUS
  <2>2. c \in Spot /\ Files(r, journal[r], receipts[r], c, bundles[r])
      BY <1>1, <1>2, <1>4, <2>1, Unmoved DEF Files
  <2>3. /\ RelocInv /\ p \in Steward /\ pass[p].at \in Working /\ Kept(p)
        /\ r = pass[p].job /\ OnPaper /\ c = staged[r] /\ Removed(r) = {}
      BY <1>1, <1>2, <1>3, <1>4, <2>1 DEF Working, ItemInv
  <2>. QED BY ONLY <2>2, <2>3, KeptWhole
<1>5. CASE /\ journal' = [journal EXCEPT ![r] = @ \cup {"build"}]
           /\ pass' = [pass EXCEPT ![p].at = "build", ![p].where = k]
           /\ k = "target" => ~LeftoverPresent(i)
  <2>1. PICK w : /\ w \in PassRecord /\ Takes(p, w) /\ w.at = "build" /\ w.where = k
                 /\ w.todo = pass[p].todo /\ w.job = pass[p].job
      BY <1>3, <1>5, StageIs
  <2>2. PICK a, c, d : a = journal[r] \cup {"build"} /\ c = staged[r] /\ d = bundles[r]
      OBVIOUS
  <2>3. /\ a \in Marks /\ OnlyMarks(r, a)
        /\ journal' = [journal EXCEPT ![r] = a] /\ journal'[r] = a
      BY <1>2, <1>5, <2>2, Holds DEF RelocTypeOK, Marks, OnlyMarks
  <2>4. /\ Files(r, a, receipts[r], c, d) /\ ProperCopy(r, i, a, c)
        /\ c \in Spot /\ d \in Archived
      BY <1>1, <1>2, <2>2, <2>3, Unmoved DEF Files, ProperCopy
  <2>5. k = "target" => NotOnTarget(i)
      BY <1>5, Holds DEF LeftoverPresent, KnownLabels, NotOnTarget, JobInv
  <2>6. ItemInv(w, r, i)'
    <3>1. Originals(i)' = Originals(i) /\ Removed(r)' = Removed(r)
        BY <1>1 DEF Originals, Removed
    <3>2. Removed(r) = {} /\ receipts[r] = "none" /\ Originals(i) \subseteq pins
          /\ place[i] = "named"
        BY <1>1, <1>2 DEF ItemInv
    <3>. QED BY <1>1, <1>2, <2>1, <2>2, <2>3, <2>5, <3>1, <3>2
         DEF ItemInv, Ahead, Moving, Removing, NotOnTarget
  <2>7. w.at \in Working
      BY <2>1 DEF Working, Ahead
  <2>8. /\ RelocInv /\ p \in Steward /\ r = pass[p].job /\ i = jobs[r] /\ w.job = r
        /\ pass[p].at \in Working /\ Removed(r) = {}
      BY <1>1, <1>2, <2>1 DEF Working, ItemInv
  <2>. QED BY ONLY <1>3, <2>1, <2>3, <2>4, <2>6, <2>7, <2>8, WholeKeeps
<1>. QED BY <1>4, <1>5 DEF Stage, ItemOf

\* What a pass that has removed nothing yet has in its hands.
LEMMA AtWork ==
    ASSUME RelocInv, NEW p \in Steward, pass[p].at \in Ahead \cup (Moving \ Removing),
           NEW r, r = pass[p].job, NEW i, i = jobs[r]
    PROVE  /\ pass[p].at \in Working /\ pass[p] \in PassRecord /\ pass \in [Steward -> PassRecord]
           /\ r \in Job /\ i \in Item /\ ItemInv(pass[p], r, i) /\ JobInv(r)
           /\ Removed(r) = {} /\ receipts[r] = "none" /\ Originals(i) \subseteq pins
           /\ journal[r] \in Marks /\ staged[r] \in Spot /\ bundles[r] \in Archived
           /\ pass[p].where \in Spot /\ pass[p].built \in Archived /\ tree[i] \in Tree
<1>1. /\ pass[p].at \in Working /\ pass[p].at \in OnItem
    BY DEF Working, OnItem, Ahead, Moving, Removing
<1>2. /\ pass[p] \in PassRecord /\ r \in Job /\ i \in Item /\ ItemInv(pass[p], r, i) /\ JobInv(r)
    BY <1>1, ItemHolds DEF ItemOf
<1>3. Removed(r) = {} /\ receipts[r] = "none" /\ Originals(i) \subseteq pins
    BY <1>2 DEF ItemInv
<1>4. journal[r] \in Marks /\ staged[r] \in Spot /\ bundles[r] \in Archived
    BY <1>2, Unmoved
<1>5. pass[p].where \in Spot /\ pass[p].built \in Archived
    BY <1>2 DEF PassRecord, Spot, Archived
<1>6. tree[i] \in Tree /\ pass \in [Steward -> PassRecord]
    BY <1>2, Holds DEF RelocTypeOK
<1>. QED BY <1>1, <1>2, <1>3, <1>4, <1>5, <1>6

\* What holds of the item holds at the next place ahead of the rename.
LEMMA AheadInv ==
    ASSUME NEW v, NEW w, NEW r, NEW i, ItemInv(v, r, i), v.at \in Ahead,
           w.at \in {"place", "recheck"},
           UNCHANGED <<kind, place, pins, receipts, removedBy, unseen, spoilt>>
    PROVE  ItemInv(w, r, i)'
<1>1. Originals(i)' = Originals(i) /\ Removed(r)' = Removed(r)
    BY DEF Originals, Removed
<1>2. /\ r \in Job /\ i \in Item /\ Originals(i) \subseteq pins /\ place[i] = "named"
      /\ Removed(r) = {} /\ receipts[r] = "none"
    BY DEF ItemInv
<1>3. w.at \in Ahead /\ w.at \notin Moving /\ w.at \notin {"build", "intent", "rename", "receipt"}
    BY DEF Ahead, Moving, Removing
<1>. QED BY <1>1, <1>2, <1>3 DEF ItemInv, Moving, Removing

LEMMA Builds ==
    ASSUME RelocInv, NEW p \in Steward, Build(p)
    PROVE  RelocInv'
<1>. PICK r : r = pass[p].job
    OBVIOUS
<1>. PICK i : i = jobs[r]
    OBVIOUS
<1>1. /\ pass[p].at = "build" /\ pass[p].at \in Ahead
      /\ UNCHANGED <<kind, tree, place, retaken, visitor, retention, target, pins, jobs,
                     journal, receipts, bundles, lock, removedBy, unseen, spoilt, events>>
      /\ staged' = [staged EXCEPT ![r] = pass[p].where]
    BY DEF Build, At, Ahead
<1>2. /\ r \in Job /\ ItemInv(pass[p], r, i) /\ JobInv(r) /\ i \in Item /\ Removed(r) = {}
      /\ pass[p].at \in Working /\ pass[p].where \in Spot /\ tree[i] \in Tree
    BY <1>1, AtWork
<1>3. pass \in [Steward -> PassRecord] /\ OnPaper
    BY <1>1, Holds DEF RelocTypeOK, OnPaper
<1>4. PICK a, c, d : a = journal[r] /\ c = pass[p].where /\ d = bundles[r]
    OBVIOUS
<1>5. /\ c \in Spot /\ a \in Marks /\ OnlyMarks(r, a) /\ d \in Archived
      /\ Files(r, a, receipts[r], c, d) /\ ProperCopy(r, i, a, c)
      /\ Files(r, journal[r], receipts[r], c, bundles[r])
    BY <1>1, <1>2, <1>4, Unmoved DEF Files, OnlyMarks, ProperCopy, ItemInv, NotOnTarget
<1>6. /\ RelocInv /\ p \in Steward /\ r = pass[p].job /\ i = jobs[r]
      /\ pass[p].at \in Working /\ Removed(r) = {}
    BY <1>2
<1>7. CASE Kept(p)
  <2>1. c = staged[r] \/ (pass[p].at = "build" /\ c = pass[p].where)
      BY <1>1, <1>4
  <2>. QED BY ONLY <1>3, <1>5, <1>6, <1>7, <2>1, KeptWhole
<1>8. CASE pass' = [pass EXCEPT ![p].at = "place", ![p].built = tree[i]]
  <2>1. PICK t : t \in Tree /\ BuiltAs(p, t)
      BY <1>2, <1>8 DEF BuiltAs
  <2>2. PICK w : /\ w \in PassRecord /\ Takes(p, w) /\ w.at = "place" /\ w.built = t
                 /\ w.todo = pass[p].todo /\ w.job = pass[p].job
      BY <1>3, <2>1, BuildIs
  <2>3. w.at \in Working /\ w.job = r
      BY <2>2 DEF Working, Ahead
  <2>4. ItemInv(w, r, i)'
    <3>. PICK v : v = pass[p]
        OBVIOUS
    <3>1. ItemInv(v, r, i) /\ v.at \in Ahead
        BY <1>1, <1>2
    <3>. QED BY <1>1, <2>2, <3>1, AheadInv
  <2>. QED BY ONLY <1>3, <1>5, <1>6, <2>2, <2>3, <2>4, WholeKeeps
<1>. QED BY <1>7, <1>8 DEF Build, ItemOf

LEMMA PlacesBundle ==
    ASSUME RelocInv, NEW p \in Steward, PlaceBundle(p)
    PROVE  RelocInv'
<1>. PICK r : r = pass[p].job
    OBVIOUS
<1>. PICK i : i = jobs[r]
    OBVIOUS
<1>1. /\ pass[p].at = "place" /\ pass[p].at \in Ahead
      /\ UNCHANGED <<kind, tree, place, retaken, visitor, retention, target, pins, jobs,
                     journal, receipts, staged, lock, removedBy, unseen, spoilt, events>>
    BY DEF PlaceBundle, At, Ahead
<1>2. /\ r \in Job /\ ItemInv(pass[p], r, i) /\ JobInv(r) /\ i \in Item /\ Removed(r) = {}
      /\ pass[p].at \in Working /\ pass[p].built \in Archived
    BY <1>1, AtWork
<1>3. pass \in [Steward -> PassRecord] /\ OnPaper
    BY <1>1, Holds DEF RelocTypeOK, OnPaper
<1>4. PICK a, c : a = journal[r] /\ c = staged[r]
    OBVIOUS
<1>5. /\ RelocInv /\ p \in Steward /\ r = pass[p].job /\ i = jobs[r]
      /\ pass[p].at \in Working /\ Removed(r) = {}
      /\ c \in Spot /\ a \in Marks /\ OnlyMarks(r, a) /\ ProperCopy(r, i, a, c)
    BY <1>2, <1>4, Unmoved DEF OnlyMarks, ProperCopy
<1>6. CASE Kept(p) /\ UNCHANGED bundles
  <2>1. c = staged[r] /\ Files(r, journal[r], receipts[r], c, bundles[r])
      BY <1>1, <1>2, <1>4, <1>6, Unmoved DEF Files
  <2>. QED BY ONLY <1>3, <1>5, <1>6, <2>1, KeptWhole
<1>7. CASE bundles' = [bundles EXCEPT ![r] = pass[p].built] /\ Goto(p, "recheck")
  <2>1. PICK d : d \in Archived /\ bundles' = [bundles EXCEPT ![r] = d]
      BY <1>2, <1>7
  <2>2. PICK w : /\ w \in PassRecord /\ Takes(p, w) /\ w.at = "recheck"
                 /\ w.todo = pass[p].todo /\ w.job = pass[p].job
      BY <1>3, <1>7, GotoIs, PlacesAre DEF OnItem, Ahead, Takes
  <2>3. w.at \in Working /\ w.job = r
      BY <2>2 DEF Working, Ahead
  <2>4. ItemInv(w, r, i)'
    <3>. PICK v : v = pass[p]
        OBVIOUS
    <3>1. ItemInv(v, r, i) /\ v.at \in Ahead
        BY <1>1, <1>2
    <3>. QED BY <1>1, <2>2, <3>1, AheadInv
  <2>5. Files(r, a, receipts[r], c, d)
      BY <1>1, <1>2, <1>4, <2>1, Unmoved DEF Files
  <2>. QED BY ONLY <1>3, <1>5, <2>1, <2>2, <2>3, <2>4, <2>5, WholeKeeps
<1>. QED BY <1>6, <1>7 DEF PlaceBundle, ItemOf

\* A duplicate about to go: its originals are held, in their place, and what they were.
OnOriginals(w, i) == \A o \in Originals(i) : o \in w.hold /\ place[o] = "named" /\ tree[o] = Base

\* What holds of the item at the places between the second proof and the first removal.
LEMMA CheckedInv ==
    ASSUME NEW w, NEW r \in Job, NEW i \in Item, Originals(i) \subseteq pins, Removed(r) = {},
           receipts[r] = "none", OnOriginals(w, i)', kind' = kind, pins' = pins,
           receipts' = receipts, removedBy' = removedBy,
           \/ w.at \in {"intent", "rename"} /\ place'[i] = "named"
           \/ w.at = "compare" /\ place'[i] = "quarantine"
           \/ /\ w.at \in {"probe", "start_removal", "removing"} /\ place'[i] = "quarantine"
              /\ (kind[i] = "extract" \/ bundles'[r] = Base)
              /\ (w.at = "removing" => "removal" \in journal'[r])
    PROVE  ItemInv(w, r, i)' /\ w.at \in Working
<1>1. Originals(i)' = Originals(i) /\ Removed(r)' = Removed(r)
    BY DEF Originals, Removed
<1>2. w.at \in Working
    BY DEF Working, Ahead, Moving, Removing
<1>. QED BY <1>1, <1>2 DEF ItemInv, Moving, Removing, Ahead, OnOriginals

LEMMA Rechecks ==
    ASSUME RelocInv, NEW p \in Steward, Recheck(p)
    PROVE  RelocInv'
<1>. PICK r : r = pass[p].job
    OBVIOUS
<1>. PICK i : i = jobs[r]
    OBVIOUS
<1>1. /\ pass[p].at = "recheck" /\ pass[p].at \in Ahead
      /\ UNCHANGED <<kind, tree, place, retaken, visitor, retention, target, pins, jobs,
                     journal, receipts, staged, bundles, lock, removedBy, unseen, spoilt, events>>
    BY DEF Recheck, At, Ahead
<1>2. /\ r \in Job /\ ItemInv(pass[p], r, i) /\ JobInv(r) /\ i \in Item /\ Removed(r) = {}
      /\ receipts[r] = "none" /\ pass[p].at \in Working /\ Originals(i) \subseteq pins
    BY <1>1, AtWork
<1>3. pass \in [Steward -> PassRecord] /\ OnPaper
    BY <1>1, Holds DEF RelocTypeOK, OnPaper
<1>4. PICK a, c, d : a = journal[r] /\ c = staged[r] /\ d = bundles[r]
    OBVIOUS
<1>5. /\ RelocInv /\ p \in Steward /\ r = pass[p].job /\ i = jobs[r]
      /\ pass[p].at \in Working /\ Removed(r) = {}
      /\ c \in Spot /\ a \in Marks /\ d \in Archived /\ OnlyMarks(r, a)
      /\ ProperCopy(r, i, a, c) /\ Files(r, a, receipts[r], c, d)
    BY <1>1, <1>2, <1>4, Unmoved DEF OnlyMarks, ProperCopy, Files
<1>6. CASE Kept(p)
  <2>1. c = staged[r] /\ Files(r, journal[r], receipts[r], c, bundles[r])
      BY <1>4, <1>5
  <2>. QED BY ONLY <1>3, <1>5, <1>6, <2>1, KeptWhole
<1>7. CASE Proven(i) /\ pass' = [pass EXCEPT ![p].at = "intent", ![p].hold = Held(i)]
  <2>1. Originals(i) \in SUBSET Item
      BY <1>2, RelocationAssumption DEF Originals
  <2>2. PICK h : h = Originals(i) /\ h \in SUBSET Item /\ HeldAs(p, h)
      BY <1>7, <2>1 DEF Held, HeldAs
  <2>3. PICK w : /\ w \in PassRecord /\ Takes(p, w) /\ w.at = "intent" /\ w.hold = h
                 /\ w.todo = pass[p].todo /\ w.job = pass[p].job
      BY <1>3, <2>2, RecheckIs
  <2>4. OnOriginals(w, i)'
    <3>1. \A o \in Originals(i) : place[o] = "named" /\ tree[o] = Base
        BY <1>7 DEF Proven, DuplicateProof, OriginalOk, Originals
    <3>2. Originals(i)' = Originals(i) /\ Base' = Base
        BY <1>1 DEF Originals
    <3>. QED BY <1>1, <2>2, <2>3, <3>1, <3>2 DEF OnOriginals
  <2>5. place'[i] = "named"
      BY <1>1, <1>7 DEF Proven
  <2>6. ItemInv(w, r, i)' /\ w.at \in Working /\ w.job = r
      BY <1>1, <1>2, <2>3, <2>4, <2>5, CheckedInv
  <2>. QED BY ONLY <1>3, <1>5, <2>3, <2>6, WholeKeeps
<1>. QED BY <1>6, <1>7 DEF Recheck, ItemOf

\* A checked item on its way: only the place of the pass and the journal change.
LEMMA MovesOn ==
    ASSUME RelocInv, NEW p \in Steward, NEW r, r = pass[p].job, NEW i, i = jobs[r],
           NEW w, w \in PassRecord, Takes(p, w), w.todo = pass[p].todo, w.job = r,
           w.hold = pass[p].hold,
           UNCHANGED <<kind, tree, place, retaken, visitor, retention, target, pins, jobs,
                       receipts, staged, bundles, lock, removedBy, unseen, spoilt, events>>,
           NEW a, a \in Marks, journal' = [journal EXCEPT ![r] = a], OnlyMarks(r, a),
           \/ pass[p].at = "intent" /\ w.at = "rename"
           \/ /\ pass[p].at = "compare" /\ w.at = "probe"
              /\ kind[i] = "extract" \/ bundles[r] = Base
           \/ pass[p].at = "probe" /\ w.at = "start_removal"
           \/ pass[p].at = "start_removal" /\ w.at = "removing" /\ "removal" \in a
    PROVE  RelocInv'
<1>1. pass[p].at \in Ahead \cup (Moving \ Removing)
    BY DEF Ahead, Moving, Removing
<1>2. /\ r \in Job /\ ItemInv(pass[p], r, i) /\ JobInv(r) /\ i \in Item /\ Removed(r) = {}
      /\ receipts[r] = "none" /\ pass[p].at \in Working /\ Originals(i) \subseteq pins
    BY <1>1, AtWork
<1>3. OnPaper
    BY Holds DEF RelocTypeOK, OnPaper
<1>4. PICK c, d : c = staged[r] /\ d = bundles[r]
    OBVIOUS
<1>5. /\ RelocInv /\ p \in Steward /\ r = pass[p].job /\ i = jobs[r]
      /\ pass[p].at \in Working /\ Removed(r) = {}
      /\ c \in Spot /\ d \in Archived /\ ProperCopy(r, i, a, c) /\ Files(r, a, receipts[r], c, d)
    BY <1>2, <1>4, Unmoved DEF ProperCopy, Files
<1>6. OnOriginals(w, i)'
  <2>1. \A o \in Originals(i) : o \in w.hold /\ place[o] = "named" /\ tree[o] = Base
      BY <1>2 DEF ItemInv, Moving, Removing
  <2>2. Originals(i)' = Originals(i) /\ Base' = Base
      BY DEF Originals
  <2>. QED BY <2>1, <2>2 DEF OnOriginals
<1>7. /\ pass[p].at = "intent" => place[i] = "named"
      /\ pass[p].at # "intent" => place[i] = "quarantine"
      /\ pass[p].at \in {"probe", "start_removal"} => kind[i] = "extract" \/ bundles[r] = Base
    BY <1>2 DEF ItemInv, Ahead, Moving, Removing
<1>8. journal'[r] = a
    BY <1>2, Holds DEF RelocTypeOK
<1>9. ItemInv(w, r, i)' /\ w.at \in Working
    BY <1>2, <1>6, <1>7, <1>8, CheckedInv
<1>10. /\ w \in PassRecord /\ Takes(p, w) /\ w.todo = pass[p].todo /\ w.job = r
       /\ a \in Marks /\ OnlyMarks(r, a)
    OBVIOUS
<1>. QED BY ONLY <1>3, <1>5, <1>9, <1>10, WholeKeeps

LEMMA WritesIntent ==
    ASSUME RelocInv, NEW p \in Steward, WriteIntent(p)
    PROVE  RelocInv'
<1>. PICK r : r = pass[p].job
    OBVIOUS
<1>. PICK i : i = jobs[r]
    OBVIOUS
<1>1. /\ pass[p].at = "intent" /\ pass[p].at \in Ahead /\ Goto(p, "rename")
      /\ UNCHANGED <<kind, tree, place, retaken, visitor, retention, target, pins, jobs,
                     receipts, staged, bundles, lock, removedBy, unseen, spoilt, events>>
      /\ journal' = [journal EXCEPT ![r] = journal[r] \cup {"intent"}]
    BY DEF WriteIntent, At, Ahead
<1>2. r \in Job /\ journal[r] \in Marks /\ pass \in [Steward -> PassRecord]
    BY <1>1, AtWork
<1>3. PICK a : a = journal[r] \cup {"intent"}
    OBVIOUS
<1>4. a \in Marks /\ OnlyMarks(r, a) /\ journal' = [journal EXCEPT ![r] = a]
    BY <1>1, <1>2, <1>3 DEF Marks, OnlyMarks
<1>5. PICK w : /\ w \in PassRecord /\ Takes(p, w) /\ w.at = "rename" /\ w.todo = pass[p].todo
               /\ w.job = r /\ w.hold = pass[p].hold
    BY <1>1, <1>2, GotoIs, PlacesAre DEF OnItem, Ahead, Takes
<1>6. RelocInv /\ p \in Steward /\ r = pass[p].job /\ i = jobs[r]
    OBVIOUS
<1>. QED BY ONLY <1>1, <1>4, <1>5, <1>6, MovesOn

LEMMA StartsRemoval ==
    ASSUME RelocInv, NEW p \in Steward, StartRemoval(p)
    PROVE  RelocInv'
<1>. PICK r : r = pass[p].job
    OBVIOUS
<1>. PICK i : i = jobs[r]
    OBVIOUS
<1>1. /\ pass[p].at = "start_removal" /\ pass[p].at \in Moving \ Removing
      /\ Goto(p, "removing")
      /\ UNCHANGED <<kind, tree, place, retaken, visitor, retention, target, pins, jobs,
                     receipts, staged, bundles, lock, removedBy, unseen, spoilt, events>>
      /\ journal' = [journal EXCEPT ![r] = journal[r] \cup {"removal"}]
    BY DEF StartRemoval, At, Moving, Removing
<1>2. r \in Job /\ journal[r] \in Marks /\ pass \in [Steward -> PassRecord]
    BY <1>1, AtWork
<1>3. PICK a : a = journal[r] \cup {"removal"}
    OBVIOUS
<1>4. a \in Marks /\ OnlyMarks(r, a) /\ journal' = [journal EXCEPT ![r] = a] /\ "removal" \in a
    BY <1>1, <1>2, <1>3 DEF Marks, OnlyMarks
<1>5. PICK w : /\ w \in PassRecord /\ Takes(p, w) /\ w.at = "removing" /\ w.todo = pass[p].todo
               /\ w.job = r /\ w.hold = pass[p].hold
    BY <1>1, <1>2, GotoIs, PlacesAre DEF OnItem, Moving, Removing, Takes
<1>6. RelocInv /\ p \in Steward /\ r = pass[p].job /\ i = jobs[r]
    OBVIOUS
<1>. QED BY ONLY <1>1, <1>4, <1>5, <1>6, MovesOn

Names == {"named", "quarantine", "versioned", "gone"}

\* The item is handed back, or comes to rest; nothing on file changes.
LEMMA RestsSomewhere ==
    ASSUME RelocInv, NEW p \in Steward, pass[p].at \in Moving, NEW r, r = pass[p].job,
           NEW i, i = jobs[r], NEW s \in Outcome, EndsAs(p, s), s = "KEPT" => Removed(r) = {},
           NEW k \in Names, place' = [place EXCEPT ![i] = k],
           k = "versioned" => i \in retaken, s = "RELOCATED" => k = "gone",
           UNCHANGED <<kind, tree, retaken, visitor, retention, target, pins, jobs, journal,
                       receipts, staged, bundles, lock, removedBy, unseen, spoilt>>,
           events' \in Nat
    PROVE  RelocInv'
<1>1. /\ pass[p].at \in OnItem /\ pass[p].at \in Working
    BY DEF OnItem, Working
<1>2. /\ r \in Job /\ i \in Item /\ ItemInv(pass[p], r, i) /\ JobInv(r) /\ lock = p
      /\ pass \in [Steward -> PassRecord] /\ RelocTypeOK
      /\ place \in [Item -> {"named", "quarantine", "versioned", "gone"}]
    BY <1>1, ItemHolds, Holds DEF ItemOf, RelocTypeOK
<1>3. PICK w : /\ w \in PassRecord /\ Takes(p, w) /\ w.at = "receipt" /\ w.todo = pass[p].todo
               /\ w.job = r /\ w.status = s
    BY <1>2, EndsAsIs DEF Takes
<1>4. /\ receipts[r] = "none" /\ Originals(i) \subseteq pins
    BY <1>1, <1>2 DEF ItemInv
<1>5. Originals(i)' = Originals(i) /\ Removed(r)' = Removed(r)
    BY DEF Originals, Removed
<1>6. /\ place'[i] = k /\ \A j \in Item \ {i} : place'[j] = place[j]
      /\ place' \in [Item -> {"named", "quarantine", "versioned", "gone"}]
    BY <1>2 DEF Names
<1>7. ItemInv(w, r, i)'
    BY <1>2, <1>3, <1>4, <1>5, <1>6 DEF ItemInv, Ahead, Moving, Removing
<1>8. RelocTypeOK'
    BY <1>2, <1>3, <1>6 DEF RelocTypeOK, Takes
<1>9. pass'[p] = w /\ \A q \in Steward \ {p} : pass'[q] = pass[q]
    BY <1>2, <1>3 DEF Takes
<1>10. \A j : Worked(j)' => Worked(j)
  <2>. SUFFICES ASSUME NEW j, Worked(j)' PROVE Worked(j)
      OBVIOUS
  <2>1. PICK q \in Steward : pass'[q].at \in Working /\ jobs'[pass'[q].job] = j
      BY DEF Worked, Working, ItemOf
  <2>2. q # p
      BY <1>3, <1>9, <2>1, PlacesAre
  <2>. QED BY <1>9, <2>1, <2>2 DEF Worked, Working, ItemOf
<1>11. JobInv(r)'
  <2>1. \A o \in Originals(i) : o # i /\ o \in Item
      BY <1>2, RelocationAssumption DEF Originals
  <2>2. jobs'[r] = i /\ i # NoJob
      BY <1>2, RelocationAssumption
  <2>3. staged[r] = "target" => "build" \in journal[r]
      BY <1>2 DEF JobInv
  <2>4. Removed(r) # {} =>
          /\ "removal" \in journal[r]
          /\ kind[i] # "extract" => bundles[r] = Base
          /\ \A o \in Originals(i) : o \in pins /\ place[o] # "gone" /\ ~Worked(o)
      BY <1>2 DEF JobInv
  <2>5. Removed(r)' # {} =>
          /\ "removal" \in journal'[r] /\ receipts'[r] # "KEPT"
          /\ kind'[i] # "extract" => bundles'[r] = Base
          /\ \A o \in Originals(i)' : o \in pins' /\ place'[o] # "gone" /\ ~Worked(o)'
      BY <1>4, <1>5, <1>6, <1>10, <2>1, <2>4
  <2>6. receipts'[r] # "RELOCATED"
      BY <1>4
  <2>. QED BY <2>2, <2>3, <2>5, <2>6 DEF JobInv
<1>12. /\ RelocInv /\ p \in Steward /\ r = pass[p].job /\ i = jobs[r]
       /\ UNCHANGED <<kind, jobs, pins, lock>>
       /\ removedBy \subseteq removedBy' /\ unseen' = unseen /\ retaken \subseteq retaken'
       /\ staged'[r] = staged[r] /\ \A x \in removedBy' : x \in removedBy
    OBVIOUS
<1>13. Stays(w) /\ DoesNotAdd(p, w) /\ w.at \notin Working /\ Apart(r)
    BY <1>3, PlacesAre DEF Stays, DoesNotAdd, Apart
<1>14. /\ \A j \in Item : place'[j] = place[j] \/ (j = i /\ pass[p].at \in Working)
       /\ (place'[i] = "versioned" => i \in retaken')
    BY <1>1, <1>6
<1>. QED BY ONLY <1>1, <1>2, <1>3, <1>7, <1>8, <1>11, <1>12, <1>13, <1>14, ItemStepKeeps

\* What a step that ends the work on an item in quarantine leaves alone.
LeavesFiles == /\ UNCHANGED <<kind, tree, retaken, visitor, retention, target, pins, jobs,
                              journal, receipts, staged, bundles, lock, removedBy, unseen,
                              spoilt>>
               /\ events' \in Nat

LEMMA HandedBack ==
    ASSUME RelocInv, NEW p \in Steward, pass[p].at \in Moving, NEW s \in Outcome, EndsAs(p, s),
           s = "KEPT" => Removed(pass[p].job) = {}, s # "RELOCATED",
           Restored(ItemOf(p)), LeavesFiles
    PROVE  RelocInv'
<1>1. PICK r, i : r = pass[p].job /\ i = jobs[r]
    OBVIOUS
<1>2. PICK k : k = IF i \in retaken THEN "versioned" ELSE "named"
    OBVIOUS
<1>3. /\ k \in Names /\ place' = [place EXCEPT ![i] = k]
      /\ (k = "versioned" => i \in retaken) /\ (s = "KEPT" => Removed(r) = {})
      /\ (s = "RELOCATED" => k = "gone")
    BY <1>1, <1>2 DEF Restored, ItemOf, Names
<1>4. /\ RelocInv /\ p \in Steward /\ pass[p].at \in Moving /\ r = pass[p].job /\ i = jobs[r]
      /\ s \in Outcome /\ EndsAs(p, s) /\ events' \in Nat
      /\ UNCHANGED <<kind, tree, retaken, visitor, retention, target, pins, jobs, journal,
                     receipts, staged, bundles, lock, removedBy, unseen, spoilt>>
    BY <1>1 DEF LeavesFiles
<1>. QED BY ONLY <1>3, <1>4, RestsSomewhere

LEMMA RestoreKeeps ==
    ASSUME RelocInv, NEW p \in Steward, pass[p].at \in Moving, Removed(pass[p].job) = {},
           Restore(p), LeavesFiles
    PROVE  RelocInv'
<1>1. PICK s : s = "KEPT"
    OBVIOUS
<1>2. /\ s \in Outcome /\ EndsAs(p, s) /\ (s = "KEPT" => Removed(pass[p].job) = {})
      /\ s # "RELOCATED" /\ Restored(ItemOf(p))
    BY <1>1 DEF Restore, Kept, EndsAs, Outcome
<1>. QED BY <1>2, HandedBack

LEMMA Compares ==
    ASSUME RelocInv, NEW p \in Steward, Compare(p)
    PROVE  RelocInv'
<1>. PICK r : r = pass[p].job
    OBVIOUS
<1>. PICK i : i = jobs[r]
    OBVIOUS
<1>1. /\ pass[p].at = "compare" /\ pass[p].at \in Moving \ Removing /\ pass[p].at \in Moving
      /\ UNCHANGED <<kind, tree, retaken, visitor, retention, target, pins, jobs, journal,
                     receipts, staged, bundles, lock, removedBy, unseen, spoilt, events>>
    BY DEF Compare, At, Moving, Removing
<1>2. /\ r \in Job /\ journal[r] \in Marks /\ pass \in [Steward -> PassRecord] /\ Removed(r) = {}
    BY <1>1, AtWork
<1>3. events' \in Nat
    BY <1>1, Holds DEF RelocTypeOK
<1>4. CASE Restore(p)
    BY <1>1, <1>2, <1>3, <1>4, RestoreKeeps DEF LeavesFiles
<1>5. CASE /\ tree[i] = Base /\ (kind[i] # "extract" => bundles[r] = tree[i])
           /\ Goto(p, "probe") /\ UNCHANGED place
  <2>1. PICK a : a = journal[r]
      OBVIOUS
  <2>2. a \in Marks /\ OnlyMarks(r, a) /\ journal' = [journal EXCEPT ![r] = a]
      BY <1>1, <1>2, <2>1, Unmoved DEF OnlyMarks
  <2>3. PICK w : /\ w \in PassRecord /\ Takes(p, w) /\ w.at = "probe" /\ w.todo = pass[p].todo
                 /\ w.job = r /\ w.hold = pass[p].hold
      BY <1>2, <1>5, GotoIs, PlacesAre DEF OnItem, Moving, Removing, Takes
  <2>4. /\ RelocInv /\ p \in Steward /\ r = pass[p].job /\ i = jobs[r] /\ UNCHANGED place
        /\ (kind[i] = "extract" \/ bundles[r] = Base)
      BY <1>5
  <2>. QED BY ONLY <1>1, <2>2, <2>3, <2>4, MovesOn
<1>. QED BY <1>4, <1>5 DEF Compare, ItemOf

LEMMA Probes ==
    ASSUME RelocInv, NEW p \in Steward, Probe(p)
    PROVE  RelocInv'
<1>. PICK r : r = pass[p].job
    OBVIOUS
<1>. PICK i : i = jobs[r]
    OBVIOUS
<1>1. /\ pass[p].at = "probe" /\ pass[p].at \in Moving \ Removing /\ pass[p].at \in Moving
      /\ UNCHANGED <<kind, tree, retaken, visitor, retention, target, pins, jobs, journal,
                     receipts, staged, bundles, lock, removedBy, unseen, spoilt, events>>
    BY DEF Probe, At, Moving, Removing
<1>2. /\ r \in Job /\ journal[r] \in Marks /\ pass \in [Steward -> PassRecord] /\ Removed(r) = {}
    BY <1>1, AtWork
<1>3. events' \in Nat
    BY <1>1, Holds DEF RelocTypeOK
<1>4. CASE Restore(p)
    BY <1>1, <1>2, <1>3, <1>4, RestoreKeeps DEF LeavesFiles
<1>5. CASE Goto(p, "start_removal") /\ UNCHANGED place
  <2>1. PICK a : a = journal[r]
      OBVIOUS
  <2>2. a \in Marks /\ OnlyMarks(r, a) /\ journal' = [journal EXCEPT ![r] = a]
      BY <1>1, <1>2, <2>1, Unmoved DEF OnlyMarks
  <2>3. PICK w : /\ w \in PassRecord /\ Takes(p, w) /\ w.at = "start_removal"
                 /\ w.todo = pass[p].todo /\ w.job = r /\ w.hold = pass[p].hold
      BY <1>2, <1>5, GotoIs, PlacesAre DEF OnItem, Moving, Removing, Takes
  <2>4. RelocInv /\ p \in Steward /\ r = pass[p].job /\ i = jobs[r] /\ UNCHANGED place
      BY <1>5
  <2>. QED BY ONLY <1>1, <2>2, <2>3, <2>4, MovesOn
<1>. QED BY <1>4, <1>5 DEF Probe

LEMMA StoppedKeeps ==
    ASSUME RelocInv, NEW p \in Steward, pass[p].at \in Moving, Stopped(p), LeavesFiles
    PROVE  RelocInv'
<1>1. CASE Removed(pass[p].job) = {}
    BY <1>1, RestoreKeeps DEF Stopped
<1>2. CASE Removed(pass[p].job) # {}
  <2>1. PICK r, i, s, k : r = pass[p].job /\ i = jobs[r] /\ s = "PARTIAL" /\ k = "quarantine"
      OBVIOUS
  <2>2. pass[p].at \in OnItem
      BY DEF OnItem
  <2>3. i \in Item /\ place[i] = "quarantine"
      BY <2>1, <2>2, ItemHolds DEF ItemInv, ItemOf
  <2>4. place' = [place EXCEPT ![i] = k]
      BY <1>2, <2>1, <2>3, Holds DEF Stopped, RelocTypeOK
  <2>5. /\ s \in Outcome /\ EndsAs(p, s) /\ (s = "KEPT" => Removed(r) = {})
        /\ k \in Names /\ (k = "versioned" => i \in retaken)
        /\ (s = "RELOCATED" => k = "gone")
      BY <1>2, <2>1 DEF Stopped, EndsAs, Outcome, Names
  <2>6. /\ RelocInv /\ p \in Steward /\ pass[p].at \in Moving /\ r = pass[p].job /\ i = jobs[r]
        /\ UNCHANGED <<kind, tree, retaken, visitor, retention, target, pins, jobs, journal,
                       receipts, staged, bundles, lock, removedBy, unseen, spoilt>>
        /\ events' \in Nat
      BY <2>1 DEF LeavesFiles
  <2>. QED BY ONLY <2>4, <2>5, <2>6, RestsSomewhere
<1>. QED BY <1>1, <1>2

LEMMA Renames ==
    ASSUME RelocInv, NEW p \in Steward, Rename(p)
    PROVE  RelocInv'
<1>. PICK r : r = pass[p].job
    OBVIOUS
<1>. PICK i : i = jobs[r]
    OBVIOUS
<1>1. /\ pass[p].at = "rename" /\ pass[p].at \in Ahead /\ pass[p].at \in OnItem
      /\ UNCHANGED <<kind, tree, retaken, visitor, retention, target, pins, jobs, journal,
                     receipts, staged, bundles, lock, removedBy, unseen, spoilt, events>>
      /\ place' = [place EXCEPT ![i] = "quarantine"] /\ Goto(p, "compare")
    BY DEF Rename, At, Ahead, OnItem, ItemOf
<1>2. /\ r \in Job /\ ItemInv(pass[p], r, i) /\ JobInv(r) /\ i \in Item /\ Removed(r) = {}
      /\ receipts[r] = "none" /\ pass[p].at \in Working /\ Originals(i) \subseteq pins
      /\ pass \in [Steward -> PassRecord]
    BY <1>1, AtWork
<1>3. PICK w : /\ w \in PassRecord /\ Takes(p, w) /\ w.at = "compare" /\ w.todo = pass[p].todo
               /\ w.job = r /\ w.hold = pass[p].hold
    BY <1>1, <1>2, GotoIs, PlacesAre DEF OnItem, Moving, Removing, Takes
<1>4. RelocTypeOK /\ place \in [Item -> {"named", "quarantine", "versioned", "gone"}]
    BY Holds DEF RelocTypeOK
<1>5. /\ place'[i] = "quarantine" /\ \A j \in Item \ {i} : place'[j] = place[j]
      /\ place' \in [Item -> {"named", "quarantine", "versioned", "gone"}]
    BY <1>1, <1>2, <1>4
<1>6. RelocTypeOK'
    BY <1>1, <1>2, <1>3, <1>4, <1>5 DEF RelocTypeOK, Takes
<1>7. \A o \in Originals(i) : o \in Item /\ o # i
    BY <1>2, RelocationAssumption DEF Originals
<1>8. OnOriginals(w, i)'
  <2>1. \A o \in Originals(i) : o \in w.hold /\ place[o] = "named" /\ tree[o] = Base
      BY <1>1, <1>2, <1>3 DEF ItemInv
  <2>2. Originals(i)' = Originals(i) /\ Base' = Base
      BY <1>1 DEF Originals
  <2>. QED BY <1>1, <1>5, <1>7, <2>1, <2>2 DEF OnOriginals
<1>9. ItemInv(w, r, i)' /\ w.at \in Working
    BY <1>1, <1>2, <1>3, <1>5, <1>8, CheckedInv
<1>10. JobInv(r)'
  <2>1. jobs'[r] \in Item /\ NoJob \notin Item /\ Removed(r)' = {} /\ receipts'[r] # "RELOCATED"
      BY <1>1, <1>2, RelocationAssumption DEF Removed
  <2>2. staged'[r] = "target" => "build" \in journal'[r]
      BY <1>1, <1>2 DEF JobInv
  <2>. QED BY <1>2, <2>1, <2>2, JobIsWhole
<1>11. /\ RelocInv /\ p \in Steward /\ r = pass[p].job /\ i = jobs[r] /\ r \in Job /\ i \in Item
       /\ UNCHANGED <<kind, jobs, pins, lock>>
       /\ removedBy \subseteq removedBy' /\ unseen' = unseen /\ retaken \subseteq retaken'
       /\ staged'[r] = staged[r] /\ \A x \in removedBy' : x \in removedBy
    BY <1>1, <1>2
<1>12. Stays(w) /\ DoesNotAdd(p, w) /\ Apart(r)
    BY <1>1, <1>3, <1>9, PlacesAre DEF Stays, DoesNotAdd, Apart
<1>13. /\ \A j \in Item : place'[j] = place[j] \/ (j = i /\ pass[p].at \in Working)
       /\ (place'[i] = "versioned" => i \in retaken')
    BY <1>2, <1>5
<1>. QED BY ONLY <1>1, <1>2, <1>3, <1>6, <1>9, <1>10, <1>11, <1>12, <1>13, ItemStepKeeps

\* The receipt id of an item that nobody works on any more.
LEMMA JobOnPaper ==
    ASSUME NEW r \in Job, JobInv(r), jobs[r] # NoJob, OnPaper, \A j : Worked(j)' => Worked(j),
           journal[r] \subseteq journal'[r], staged'[r] = staged[r], bundles'[r] = bundles[r],
           \/ receipts'[r] = receipts[r]
           \/ /\ receipts'[r] = "KEPT" => Removed(r) = {}
              /\ receipts'[r] = "RELOCATED" => place[jobs[r]] \in {"gone", "quarantine"}
                                               /\ ~Worked(jobs[r])
    PROVE  JobInv(r)'
<1>. PICK i : i = jobs[r]
    OBVIOUS
<1>1. Removed(r)' = Removed(r) /\ Originals(i)' = Originals(i) /\ jobs'[r] = i /\ Base' = Base
      /\ place' = place /\ kind' = kind /\ pins' = pins
    BY DEF OnPaper, Removed, Originals
<1>2. staged'[r] = "target" => "build" \in journal'[r]
    BY DEF JobInv
<1>3. Removed(r)' # {} =>
        /\ "removal" \in journal'[r] /\ receipts'[r] # "KEPT"
        /\ kind'[i] # "extract" => bundles'[r] = Base
        /\ \A o \in Originals(i)' : o \in pins' /\ place'[o] # "gone" /\ ~Worked(o)'
  <2>1. Removed(r) # {} =>
          /\ "removal" \in journal[r] /\ receipts[r] # "KEPT"
          /\ kind[i] # "extract" => bundles[r] = Base
          /\ \A o \in Originals(i) : o \in pins /\ place[o] # "gone" /\ ~Worked(o)
      BY DEF JobInv
  <2>. QED BY <1>1, <2>1
<1>4. receipts'[r] = "RELOCATED" => place'[i] \in {"gone", "quarantine"} /\ ~Worked(i)'
  <2>1. receipts[r] = "RELOCATED" => place[i] \in {"gone", "quarantine"} /\ ~Worked(i)
      BY DEF JobInv
  <2>. QED BY <1>1, <2>1
<1>. QED BY <1>1, <1>2, <1>3, <1>4 DEF JobInv

\* Only the pass under the lock works on an item, and it does not begin to by going on.
LEMMA NoNewWork ==
    ASSUME RelocInv, NEW p \in Steward, NEW w, Takes(p, w),
           \/ w.at \notin Working
           \/ w.at \in Working /\ pass[p].at \in Working /\ w.job = pass[p].job,
           UNCHANGED jobs
    PROVE  \A j : Worked(j)' => Worked(j)
<1>. SUFFICES ASSUME NEW j, Worked(j)' PROVE Worked(j)
    OBVIOUS
<1>1. PICK q \in Steward : pass'[q].at \in Working /\ jobs'[pass'[q].job] = j
    BY DEF Worked, Working, ItemOf
<1>2. pass'[p] = w /\ (q # p => pass'[q] = pass[q])
    BY Holds DEF Takes
<1>3. pass[q].at \in Working /\ jobs[pass[q].job] = j
    BY <1>1, <1>2
<1>. QED BY <1>3 DEF Worked, Working, ItemOf

\* An entry that was there is unlinked, the item stays in quarantine.
LEMMA Unlinks ==
    ASSUME RelocInv, NEW p \in Steward, pass[p].at = "unlink", NEW r, r = pass[p].job,
           NEW i, i = jobs[r], NEW e \in Planned, NEW c, c = tree[i][e], Foreseen(r, e, c),
           tree' = [tree EXCEPT ![i][e] = "none"],
           removedBy' = removedBy \cup {<<r, e, c>>}, Goto(p, "removing"),
           UNCHANGED <<kind, place, retaken, visitor, retention, target, pins, jobs, journal,
                       receipts, staged, bundles, lock, unseen, spoilt, events>>
    PROVE  RelocInv'
<1>1. pass[p].at \in OnItem /\ pass[p].at \in Working
    BY DEF OnItem, Working, Moving, Removing
<1>2. /\ r \in Job /\ i \in Item /\ ItemInv(pass[p], r, i) /\ JobInv(r) /\ lock = p
      /\ pass \in [Steward -> PassRecord] /\ RelocTypeOK /\ tree \in [Item -> Tree]
      /\ removedBy \subseteq Job \X Entry \X Content /\ e \in Entry
    BY <1>1, ItemHolds, Holds DEF ItemOf, RelocTypeOK, Planned
<1>3. PICK w : /\ w \in PassRecord /\ Takes(p, w) /\ w.at = "removing"
               /\ w.todo = pass[p].todo /\ w.job = r /\ w.hold = pass[p].hold
    BY <1>2, GotoIs, PlacesAre DEF OnItem, Moving, Removing, Takes
<1>4. pass' \in [Steward -> PassRecord]
    BY <1>2, <1>3 DEF Takes
<1>5. /\ tree' \in [Item -> Tree] /\ \A j \in Item \ {i} : tree'[j] = tree[j]
    BY <1>2 DEF Tree, Content
<1>6. removedBy' \subseteq Job \X Entry \X Content
    BY <1>2 DEF Tree
<1>7. RelocTypeOK'
    BY <1>2, <1>4, <1>5, <1>6 DEF RelocTypeOK
<1>8. /\ \A o \in Originals(i) : o \in Item /\ o # i
      /\ Originals(i)' = Originals(i) /\ Base' = Base
    BY <1>2, RelocationAssumption DEF Originals
<1>9. /\ receipts[r] = "none" /\ Originals(i) \subseteq pins /\ place[i] = "quarantine"
      /\ "removal" \in journal[r] /\ (kind[i] = "extract" \/ bundles[r] = Base)
      /\ \A o \in Originals(i) : o \in w.hold /\ place[o] = "named" /\ tree[o] = Base
    BY <1>2, <1>3 DEF ItemInv, Moving, Removing
<1>10. ItemInv(w, r, i)'
  <2>1. \A o \in Originals(i)' : o \in w.hold /\ place'[o] = "named" /\ tree'[o] = Base'
      BY <1>5, <1>8, <1>9
  <2>2. /\ r \in Job /\ i \in Item /\ Originals(i)' \subseteq pins' /\ receipts'[r] = "none"
        /\ place'[i] = "quarantine" /\ "removal" \in journal'[r]
        /\ (kind'[i] = "extract" \/ bundles'[r] = Base')
      BY <1>2, <1>8, <1>9
  <2>. QED BY ONLY <1>3, <2>1, <2>2 DEF ItemInv, Ahead, Moving, Removing
<1>11. \A j : Worked(j)' => Worked(j)
    BY <1>1, <1>3, NoNewWork
<1>12. JobInv(r)'
  <2>1. \A o \in Originals(i) : ~Worked(o)
      BY <1>1, <1>2, <1>8, OnlyWorker, PlacesAre DEF ItemOf
  <2>2. jobs'[r] = i /\ i # NoJob
      BY <1>2, RelocationAssumption
  <2>3. staged'[r] = "target" => "build" \in journal'[r]
      BY <1>2 DEF JobInv
  <2>4. \A o \in Originals(i)' : o \in pins' /\ place'[o] # "gone" /\ ~Worked(o)'
      BY <1>8, <1>9, <1>11, <2>1
  <2>5. /\ "removal" \in journal'[r] /\ receipts'[r] # "KEPT" /\ receipts'[r] # "RELOCATED"
        /\ (kind'[i] # "extract" => bundles'[r] = Base')
      BY <1>8, <1>9
  <2>. QED BY <2>2, <2>3, <2>4, <2>5 DEF JobInv
<1>13. /\ RelocInv /\ p \in Steward /\ r = pass[p].job /\ i = jobs[r]
       /\ UNCHANGED <<kind, jobs, pins, lock>>
       /\ removedBy \subseteq removedBy' /\ retaken \subseteq retaken' /\ staged'[r] = staged[r]
       /\ \A j \in Item : place'[j] = place[j]
       /\ (place'[i] = "versioned" => i \in retaken') /\ unseen' = unseen
    BY <1>9
<1>14. \A x \in removedBy' :
          x \in removedBy \/ (x[1] = r /\ x[2] \in Planned /\ Foreseen(r, x[2], x[3]))
    OBVIOUS
<1>15. Stays(w) /\ DoesNotAdd(p, w) /\ Apart(r) /\ (w.at \in Working => pass[p].at \in Working)
    BY <1>1, <1>3, PlacesAre DEF Stays, DoesNotAdd, Apart, OnItem, Moving, Removing
<1>. QED BY ONLY <1>1, <1>2, <1>3, <1>7, <1>10, <1>12, <1>13, <1>14, <1>15, ItemStepKeeps

LEMMA RemovesEntry ==
    ASSUME RelocInv, NEW p \in Steward, NEW e \in Entry, RemoveEntry(p, e)
    PROVE  RelocInv'
<1>. PICK r, i : r = pass[p].job /\ i = jobs[r]
    OBVIOUS
<1>1. /\ pass[p].at = "unlink" /\ pass[p].at \in Moving /\ pass[p].at \in OnItem
      /\ e \in Planned /\ Turn(r, e)
      /\ UNCHANGED <<kind, retaken, visitor, retention, target, pins, jobs, journal, receipts,
                     staged, bundles, lock, unseen, spoilt, events>>
    BY DEF RemoveEntry, At, Moving, Removing, OnItem, Turn
<1>2. CASE Stopped(p) /\ UNCHANGED <<tree, removedBy>>
  <2>1. LeavesFiles
      BY <1>1, <1>2, Holds DEF LeavesFiles, RelocTypeOK
  <2>. QED BY <1>1, <1>2, <2>1, StoppedKeeps
<1>3. CASE /\ tree' = [tree EXCEPT ![i][e] = "none"]
           /\ removedBy' = removedBy \cup {<<r, e, tree[i][e]>>}
           /\ Goto(p, "removing") /\ UNCHANGED place
  <2>1. PICK c : c = tree[i][e]
      OBVIOUS
  <2>2. ItemInv(pass[p], r, i)
      BY <1>1, ItemHolds DEF ItemOf
  <2>3. Foreseen(r, e, c)
      BY <1>1, <2>1, <2>2 DEF ItemInv
  <2>4. /\ RelocInv /\ p \in Steward /\ r = pass[p].job /\ i = jobs[r]
        /\ tree' = [tree EXCEPT ![i][e] = "none"] /\ UNCHANGED place /\ Goto(p, "removing")
        /\ removedBy' = removedBy \cup {<<r, e, c>>}
      BY <1>3, <2>1
  <2>. QED BY ONLY <1>1, <2>1, <2>3, <2>4, Unlinks
<1>. QED BY <1>2, <1>3 DEF RemoveEntry, ItemOf

\* An entry that hashes to what the walk found is next to be unlinked.
LEMMA Rehashes ==
    ASSUME RelocInv, NEW p \in Steward, NEW e \in Entry, Rehash(p, e)
    PROVE  RelocInv'
<1>. PICK r, i : r = pass[p].job /\ i = jobs[r]
    OBVIOUS
<1>1. /\ pass[p].at = "removing" /\ pass[p].at \in Moving /\ pass[p].at \in OnItem
      /\ pass[p].at \in Working /\ e \in Planned /\ Turn(r, e)
      /\ UNCHANGED <<kind, tree, retaken, visitor, retention, target, pins, jobs, journal,
                     receipts, staged, bundles, lock, removedBy, unseen, spoilt, events>>
    BY DEF Rehash, At, Moving, Removing, OnItem, Working, Turn
<1>2. CASE Stopped(p)
  <2>1. LeavesFiles
      BY <1>1, Holds DEF LeavesFiles, RelocTypeOK
  <2>. QED BY <1>1, <1>2, <2>1, StoppedKeeps
<1>3. CASE tree[i][e] = "base" /\ Goto(p, "unlink") /\ UNCHANGED place
  <2>1. /\ r \in Job /\ i \in Item /\ ItemInv(pass[p], r, i) /\ JobInv(r)
        /\ pass \in [Steward -> PassRecord] /\ i # NoJob
      BY <1>1, ItemHolds, Holds, RelocationAssumption DEF ItemOf
  <2>2. PICK w : /\ w \in PassRecord /\ Takes(p, w) /\ w.at = "unlink"
                 /\ w.todo = pass[p].todo /\ w.job = r /\ w.hold = pass[p].hold
      BY <1>3, <2>1, GotoIs, PlacesAre DEF OnItem, Moving, Removing, Takes
  <2>3. OnPaper
      BY <1>1, <1>3, Holds DEF OnPaper, RelocTypeOK
  <2>4. \A f \in Planned : Turn(r, f)' => Foreseen(r, f, tree[i][f])'
    <3>. SUFFICES ASSUME NEW f \in Planned, Turn(r, f)' PROVE Foreseen(r, f, tree[i][f])'
        OBVIOUS
    <3>1. Turn(r, f)
        BY <1>1 DEF Turn, Removed, Planned, Late
    <3>2. e \in Nat /\ f \in Nat /\ e <= f /\ f <= e
        BY <1>1, <3>1, RelocationAssumption DEF Turn, Planned
    <3>3. f = e
        BY <3>2
    <3>. QED BY <1>1, <1>3, <3>3 DEF Foreseen
  <2>5. ItemInv(w, r, i)'
    <3>1. Originals(i)' = Originals(i) /\ Removed(r)' = Removed(r) /\ Base' = Base
        BY <1>1 DEF Originals, Removed
    <3>2. /\ receipts[r] = "none" /\ Originals(i) \subseteq pins /\ place[i] = "quarantine"
          /\ "removal" \in journal[r] /\ (kind[i] = "extract" \/ bundles[r] = Base)
          /\ \A o \in Originals(i) : o \in w.hold /\ place[o] = "named" /\ tree[o] = Base
        BY <1>1, <2>1, <2>2 DEF ItemInv, Moving, Removing
    <3>3. /\ r \in Job /\ i \in Item /\ Originals(i)' \subseteq pins' /\ receipts'[r] = "none"
          /\ place'[i] = "quarantine" /\ "removal" \in journal'[r]
          /\ (kind'[i] = "extract" \/ bundles'[r] = Base')
          /\ \A o \in Originals(i)' : o \in w.hold /\ place'[o] = "named" /\ tree'[o] = Base'
        BY <1>1, <1>3, <2>1, <3>1, <3>2
    <3>. QED BY ONLY <2>2, <2>4, <3>3 DEF ItemInv, Ahead, Moving, Removing
  <2>6. PICK a, b, c, d : /\ a = journal[r] /\ b = receipts[r] /\ c = staged[r]
                          /\ d = bundles[r]
      OBVIOUS
  <2>7. /\ a \in Marks /\ b \in Answer /\ c \in Spot /\ d \in Archived
        /\ CopyFits(r, i, c) /\ Files(r, a, b, c, d)
      BY <1>1, <2>1, <2>6, Unmoved DEF CopyFits, Files
  <2>8. /\ Stays(w) /\ DoesNotAdd(p, w) /\ pass[p].at \in Working
        /\ (w.at \in OnItem => w.job = r /\ ItemInv(w, r, i)')
      BY <1>1, <2>2, <2>5 DEF Stays, DoesNotAdd, OnItem, Moving, Removing
  <2>9. \A j : Worked(j)' => Worked(j)
      BY <1>1, <2>2, NoNewWork
  <2>10. JobInv(r)'
      BY <1>1, <2>1, <2>3, <2>9, JobOnPaper
  <2>11. RelocInv /\ p \in Steward /\ r = pass[p].job /\ i = jobs[r]
      OBVIOUS
  <2>. QED BY ONLY <1>1, <2>1, <2>2, <2>3, <2>7, <2>8, <2>10, <2>11, PaperKeeps
<1>. QED BY <1>2, <1>3 DEF Rehash, ItemOf, Unlinkable

LEMMA RemovesDirectory ==
    ASSUME RelocInv, NEW p \in Steward, RemoveDirectory(p)
    PROVE  RelocInv'
<1>. PICK r, i : r = pass[p].job /\ i = jobs[r]
    OBVIOUS
<1>1. /\ pass[p].at = "removing" /\ pass[p].at \in Moving /\ pass[p].at \in OnItem
      /\ UNCHANGED <<kind, tree, retaken, visitor, retention, target, pins, jobs, journal,
                     receipts, staged, bundles, lock, removedBy, unseen, spoilt, events>>
    BY DEF RemoveDirectory, At, Moving, Removing, OnItem
<1>2. LeavesFiles /\ events' \in Nat
    BY <1>1, Holds DEF LeavesFiles, RelocTypeOK
<1>3. CASE Stopped(p)
    BY <1>1, <1>2, <1>3, StoppedKeeps
<1>4. CASE /\ Restored(i)
           /\ pass' = [pass EXCEPT ![p].at = "receipt", ![p].status = "LATE_ENTRY_RESTORED"]
  <2>1. PICK s : s = "LATE_ENTRY_RESTORED"
      OBVIOUS
  <2>2. /\ s \in Outcome /\ EndsAs(p, s) /\ (s = "KEPT" => Removed(pass[p].job) = {})
        /\ s # "RELOCATED" /\ Restored(ItemOf(p))
      BY <1>4, <2>1 DEF EndsAs, Outcome, ItemOf
  <2>. QED BY <1>1, <1>2, <2>2, HandedBack
<1>5. CASE /\ place' = [place EXCEPT ![i] = "gone"]
           /\ pass' = [pass EXCEPT ![p].at = "receipt",
                           ![p].status = IF i \in retaken THEN "PARTIAL" ELSE "RELOCATED"]
  <2>1. PICK s, k : s = (IF i \in retaken THEN "PARTIAL" ELSE "RELOCATED") /\ k = "gone"
      OBVIOUS
  <2>2. /\ s \in Outcome /\ EndsAs(p, s) /\ (s = "KEPT" => Removed(r) = {})
        /\ k \in Names /\ (k = "versioned" => i \in retaken) /\ (s = "RELOCATED" => k = "gone")
        /\ place' = [place EXCEPT ![i] = k]
      BY <1>5, <2>1 DEF EndsAs, Outcome, Names
  <2>3. /\ RelocInv /\ p \in Steward /\ pass[p].at \in Moving /\ r = pass[p].job /\ i = jobs[r]
        /\ events' \in Nat
      BY <1>1, <1>2
  <2>. QED BY ONLY <1>1, <2>2, <2>3, RestsSomewhere
<1>. QED BY <1>3, <1>4, <1>5 DEF RemoveDirectory, ItemOf

LEMMA WritesReceipt ==
    ASSUME RelocInv, NEW p \in Steward, WriteReceipt(p)
    PROVE  RelocInv'
<1>. PICK r, i : r = pass[p].job /\ i = jobs[r]
    OBVIOUS
<1>1. /\ pass[p].at = "receipt" /\ pass[p].at \in OnItem
      /\ UNCHANGED <<kind, tree, place, retaken, visitor, retention, target, pins, jobs,
                     journal, staged, bundles, lock, removedBy, unseen, spoilt>>
    BY DEF WriteReceipt, At, OnItem
<1>2. /\ r \in Job /\ i \in Item /\ ItemInv(pass[p], r, i) /\ JobInv(r)
      /\ pass \in [Steward -> PassRecord] /\ pass[p].status \in Answer
      /\ receipts \in [Job -> Answer] /\ i # NoJob
    BY <1>1, ItemHolds, Holds, RelocationAssumption
    DEF ItemOf, RelocTypeOK, PassRecord, Answer
<1>3. OnPaper
    BY <1>1, Holds DEF OnPaper, WriteReceipt, Disturbed, RelocTypeOK
<1>4. PICK w : /\ w \in PassRecord /\ Takes(p, w) /\ w.todo = pass[p].todo
               /\ \/ w.at = "items"
                  \/ w.at = "completion" /\ w.job = r
  <2>1. CASE Finished(p)
      BY <1>2, <2>1, FinishedIs DEF Takes
  <2>2. CASE Goto(p, "completion")
      BY <1>2, <2>2, GotoIs, PlacesAre DEF Takes
  <2>. QED BY <2>1, <2>2 DEF WriteReceipt
<1>5. PICK b : /\ b \in Answer /\ receipts' = [receipts EXCEPT ![r] = b] /\ receipts'[r] = b
               /\ (b = receipts[r] \/ b = pass[p].status)
  <2>1. CASE receipts' = [receipts EXCEPT ![r] = pass[p].status]
      BY <1>2, <2>1
  <2>2. CASE UNCHANGED receipts
      BY <1>2, <2>2
  <2>. QED BY <2>1, <2>2 DEF WriteReceipt
<1>6. PICK a, c, d : /\ a = journal[r] /\ c = staged[r] /\ d = bundles[r]
    OBVIOUS
<1>7. /\ a \in Marks /\ c \in Spot /\ d \in Archived /\ CopyFits(r, i, c) /\ Files(r, a, b, c, d)
    BY <1>1, <1>2, <1>5, <1>6, Unmoved DEF CopyFits, Files
<1>8. w.at \notin Working /\ Stays(w) /\ DoesNotAdd(p, w)
    BY <1>4, PlacesAre DEF Stays, DoesNotAdd
<1>9. \A j : Worked(j)' => Worked(j)
    BY <1>1, <1>4, <1>8, NoNewWork
<1>10. JobInv(r)'
  <2>1. /\ pass[p].status = "KEPT" => Removed(r) = {}
        /\ pass[p].status = "RELOCATED" => place[i] = "gone"
      BY <1>1, <1>2 DEF ItemInv
  <2>2. ~Worked(i)
      BY <1>1, OnlyWorker, PlacesAre
  <2>3. /\ journal[r] \subseteq journal'[r] /\ staged'[r] = staged[r] /\ bundles'[r] = bundles[r]
        /\ jobs[r] # NoJob
      BY <1>1, <1>2
  <2>4. \/ receipts'[r] = receipts[r]
        \/ /\ receipts'[r] = "KEPT" => Removed(r) = {}
           /\ receipts'[r] = "RELOCATED" => place[jobs[r]] \in {"gone", "quarantine"}
                                            /\ ~Worked(jobs[r])
      BY <1>5, <2>1, <2>2
  <2>. QED BY <1>2, <1>3, <1>9, <2>3, <2>4, JobOnPaper
<1>11. w.at \in OnItem => w.job = r /\ ItemInv(w, r, i)'
  <2>1. w.at \in OnItem => w.at = "completion" /\ w.job = r
      BY <1>4, PlacesAre
  <2>2. Originals(i) \subseteq pins /\ Originals(i)' = Originals(i)
      BY <1>1, <1>2 DEF ItemInv, Originals
  <2>. QED BY <1>1, <1>2, <2>1, <2>2 DEF ItemInv, Ahead, Moving, Removing
<1>12. RelocInv /\ p \in Steward /\ r = pass[p].job /\ i = jobs[r]
    OBVIOUS
<1>. QED BY ONLY <1>1, <1>2, <1>3, <1>4, <1>5, <1>7, <1>8, <1>10, <1>11, <1>12, PaperKeeps

LEMMA WritesCompletion ==
    ASSUME RelocInv, NEW p \in Steward, WriteCompletion(p)
    PROVE  RelocInv'
<1>. PICK r, i : r = pass[p].job /\ i = jobs[r]
    OBVIOUS
<1>1. /\ pass[p].at = "completion" /\ pass[p].at \in OnItem
      /\ UNCHANGED <<kind, tree, place, retaken, visitor, retention, target, pins, jobs,
                     receipts, staged, bundles, lock, removedBy, unseen, spoilt>>
    BY DEF WriteCompletion, At, OnItem
<1>2. /\ r \in Job /\ i \in Item /\ ItemInv(pass[p], r, i) /\ JobInv(r)
      /\ pass \in [Steward -> PassRecord] /\ journal[r] \in Marks
      /\ journal \in [Job -> Marks] /\ i # NoJob
    BY <1>1, ItemHolds, Holds, RelocationAssumption DEF ItemOf, RelocTypeOK, Marks
<1>3. OnPaper
    BY <1>1, Holds DEF OnPaper, WriteCompletion, Disturbed, RelocTypeOK
<1>4. PICK w : w \in PassRecord /\ Takes(p, w) /\ w.todo = pass[p].todo /\ w.at = "items"
    BY <1>2, FinishedIs DEF WriteCompletion, Takes
<1>5. PICK a : /\ a \in Marks /\ journal' = [journal EXCEPT ![r] = a] /\ journal'[r] = a
               /\ journal[r] \subseteq a
  <2>1. CASE journal' = [journal EXCEPT ![r] = journal[r] \cup {"done"}]
    <3>1. journal[r] \cup {"done"} \in Marks
        BY <1>2 DEF Marks
    <3>. QED BY <1>2, <2>1, <3>1
  <2>2. CASE UNCHANGED journal
      BY <1>2, <2>2
  <2>. QED BY <2>1, <2>2 DEF WriteCompletion
<1>6. PICK b, c, d : b = receipts[r] /\ c = staged[r] /\ d = bundles[r]
    OBVIOUS
<1>7. b \in Answer /\ c \in Spot /\ d \in Archived /\ CopyFits(r, i, c) /\ Files(r, a, b, c, d)
    BY <1>1, <1>2, <1>5, <1>6, Unmoved DEF CopyFits, Files
<1>8. w.at \notin Working /\ w.at \notin OnItem /\ Stays(w) /\ DoesNotAdd(p, w)
    BY <1>4, PlacesAre DEF Stays, DoesNotAdd
<1>9. \A j : Worked(j)' => Worked(j)
    BY <1>1, <1>4, <1>8, NoNewWork
<1>10. JobInv(r)'
    BY <1>1, <1>2, <1>3, <1>5, <1>9, JobOnPaper
<1>11. RelocInv /\ p \in Steward /\ r = pass[p].job /\ i = jobs[r]
    OBVIOUS
<1>. QED BY ONLY <1>1, <1>2, <1>3, <1>4, <1>5, <1>7, <1>8, <1>10, <1>11, PaperKeeps

LEMMA FailsSomewhere ==
    ASSUME RelocInv, NEW p \in Steward, StepFails(p)
    PROVE  RelocInv'
<1>. PICK r, i : r = pass[p].job /\ i = jobs[r]
    OBVIOUS
<1>1. /\ pass[p].at \in Working /\ pass[p].at \in OnItem
      /\ pass[p].at \in Ahead \/ pass[p].at \in Moving
      /\ UNCHANGED <<kind, tree, retaken, visitor, retention, target, pins, jobs, journal,
                     receipts, bundles, lock, removedBy, unseen, spoilt>>
    BY DEF StepFails, Working, OnItem, Ahead, Moving, Removing
<1>2. /\ r \in Job /\ i \in Item /\ ItemInv(pass[p], r, i) /\ JobInv(r) /\ events' \in Nat
      /\ pass[p] \in PassRecord
    BY <1>1, ItemHolds, Holds DEF ItemOf, RelocTypeOK, StepFails, Disturbed
<1>3. /\ pass[p].at \in Ahead <=> place[i] # "quarantine"
      /\ pass[p].at \in Moving <=> place[i] = "quarantine"
      /\ pass[p].at \in Ahead => Removed(r) = {}
    BY <1>1, <1>2 DEF ItemInv
<1>4. CASE place[i] = "quarantine" /\ Stopped(p) /\ UNCHANGED staged
  <2>1. LeavesFiles /\ pass[p].at \in Moving
      BY <1>1, <1>2, <1>3, <1>4 DEF LeavesFiles
  <2>. QED BY <1>4, <2>1, StoppedKeeps
<1>5. ASSUME Kept(p), UNCHANGED place, Removed(r) = {},
             \/ UNCHANGED staged
             \/ At(p, "build") /\ staged' = [staged EXCEPT ![r] = pass[p].where]
      PROVE  RelocInv'
  <2>1. pass[p].where \in Spot
      BY <1>2 DEF PassRecord, Spot
  <2>2. PICK c : /\ c \in Spot /\ staged' = [staged EXCEPT ![r] = c]
                 /\ c = staged[r] \/ (pass[p].at = "build" /\ c = pass[p].where)
    <3>1. CASE UNCHANGED staged
        BY <1>2, <3>1, Unmoved
    <3>2. CASE At(p, "build") /\ staged' = [staged EXCEPT ![r] = pass[p].where]
        BY <2>1, <3>2 DEF At
    <3>. QED BY <1>5, <3>1, <3>2
  <2>3. Files(r, journal[r], receipts[r], c, bundles[r])
      BY <1>1, <1>2, <2>2, Unmoved DEF Files
  <2>4. OnPaper
      BY <1>1, <1>2, <1>5 DEF OnPaper
  <2>5. /\ RelocInv /\ p \in Steward /\ pass[p].at \in Working /\ Kept(p) /\ r = pass[p].job
        /\ Removed(r) = {}
      BY <1>1, <1>5
  <2>. QED BY ONLY <2>2, <2>3, <2>4, <2>5, KeptWhole
<1>6. CASE Removed(r) = {} /\ Kept(p) /\ UNCHANGED <<place, staged>>
    BY <1>5, <1>6
<1>7. CASE place[i] # "quarantine" /\ Kept(p) /\ UNCHANGED place /\ LeavesCopy(p)
    BY <1>1, <1>3, <1>5, <1>7 DEF LeavesCopy
<1>. QED BY <1>4, <1>6, <1>7 DEF StepFails, ItemOf

-----------------------------------------------------------------------------
(* The steps outside an item                                               *)

\* Nothing that is on file changes, but where the copy of one receipt id lies.
LEMMA FilesRest ==
    ASSUME RelocInv, RelocTypeOK', UNCHANGED <<kind, jobs, journal, receipts, bundles, removedBy,
                                               place>>,
           pins \subseteq pins', retaken \subseteq retaken', unseen \subseteq unseen',
           \A j : Worked(j)' => Worked(j), \A q \in Steward : PassInv(q)',
           NEW r, \A q \in Job \ {r} : staged'[q] = staged[q],
           r \in Job => \/ staged'[r] = staged[r]
                        \/ /\ "build" \in journal[r]
                           /\ staged'[r] # "target" \/ NotOnTarget(jobs[r])
    PROVE  RelocInv'
<1>1. \A q \in Job : Removed(q)' = Removed(q)
    BY DEF Removed
<1>2. \A q \in Job \ {r} : JobInv(q)'
  <2>. SUFFICES ASSUME NEW q \in Job \ {r} PROVE JobInv(q)'
      OBVIOUS
  <2>1. JobInv(q) /\ jobs[q] \in Item \cup {NoJob}
      BY Holds
  <2>2. Partner \in [Item -> Item] /\ NoJob \notin Item
      BY RelocationAssumption
  <2>. QED BY <1>1, <2>1, <2>2, JobRests
<1>3. r \in Job => JobInv(r)'
  <2>. SUFFICES ASSUME r \in Job PROVE JobInv(r)'
      OBVIOUS
  <2>. PICK i : i = jobs[r]
      OBVIOUS
  <2>1. JobInv(r) /\ i \in Item \cup {NoJob} /\ jobs'[r] = i
      BY Holds
  <2>2. Originals(i)' = Originals(i) /\ Base' = Base /\ Removed(r)' = Removed(r)
      BY <1>1 DEF Originals
  <2>3. staged'[r] = "target" => "build" \in journal'[r]
      BY <2>1 DEF JobInv
  <2>4. i = NoJob => Unused(r)'
      BY <2>1, <2>2 DEF JobInv, Unused
  <2>5. Removed(r)' # {} =>
          /\ "removal" \in journal'[r] /\ receipts'[r] # "KEPT"
          /\ kind'[i] # "extract" => bundles'[r] = Base
          /\ \A o \in Originals(i)' : o \in pins' /\ place'[o] # "gone" /\ ~Worked(o)'
    <3>1. Removed(r) # {} =>
            /\ "removal" \in journal[r] /\ receipts[r] # "KEPT"
            /\ kind[i] # "extract" => bundles[r] = Base
            /\ \A o \in Originals(i) : o \in pins /\ place[o] # "gone" /\ ~Worked(o)
        BY <2>1 DEF JobInv
    <3>. QED BY <2>2, <3>1
  <2>6. receipts'[r] = "RELOCATED" => place'[i] \in {"gone", "quarantine"} /\ ~Worked(i)'
    <3>1. receipts[r] = "RELOCATED" => place[i] \in {"gone", "quarantine"} /\ ~Worked(i)
        BY <2>1 DEF JobInv
    <3>. QED BY <3>1
  <2>. QED BY <2>1, <2>3, <2>4, <2>5, <2>6 DEF JobInv
<1>4. OneCopy'
  <2>. SUFFICES ASSUME NEW a \in Job, NEW b \in Job, staged'[a] = "target", staged'[b] = "target",
                       jobs[a] = jobs[b]
                PROVE  a = b
      BY DEF OneCopy
  <2>1. OneCopy
      BY Holds
  <2>. QED BY <2>1 DEF OneCopy, NotOnTarget
<1>5. \A x \in removedBy' : x[2] \in Planned /\ Foreseen(x[1], x[2], x[3])'
    BY Holds DEF Foreseen
<1>6. \A j \in Item : place'[j] = "versioned" => j \in retaken'
    BY Holds
<1>. QED BY <1>2, <1>3, <1>4, <1>5, <1>6 DEF RelocInv

\* What is about to be unlinked stays what it was hashed to, or is known to be another.
SeenOrTold == \A q \in Steward, e \in Planned :
    pass[q].at = "unlink" /\ Turn(pass[q].job, e) =>
        tree'[ItemOf(q)][e] = tree[ItemOf(q)][e] \/ <<pass[q].job, e>> \in unseen'

\* A pass the step does not touch.
LEMMA PassRests ==
    ASSUME NEW q \in Steward, PassInv(q), pass'[q] = pass[q],
           lock' = lock \/ pass[q].at \notin UnderLock,
           UNCHANGED <<kind, jobs, journal, receipts, staged, bundles, removedBy, place>>,
           pins \subseteq pins',
           \A i : (\E p \in Steward : i \in pass[p].hold) => tree'[i] = tree[i],
           unseen \subseteq unseen', SeenOrTold
    PROVE  PassInv(q)'
<1>. PICK w : w = pass[q]
    OBVIOUS
<1>. PICK r : r = w.job
    OBVIOUS
<1>. PICK i : i = jobs[r]
    OBVIOUS
<1>1. (\A j : Originals(j)' = Originals(j)) /\ Removed(r)' = Removed(r) /\ Base' = Base
    BY DEF Originals, Removed
<1>2. w.at \in UnderLock => lock' = q
    BY DEF PassInv
<1>3. w.at \in {"planned", "items"} \cup OnItem => \A j \in w.todo : Originals(j)' \subseteq pins'
    BY <1>1 DEF PassInv
<1>4. w.at \in OnItem => ItemInv(w, r, i)'
  <2>. SUFFICES ASSUME w.at \in OnItem PROVE ItemInv(w, r, i)'
      OBVIOUS
  <2>1. ItemInv(w, r, i)
      BY DEF PassInv, ItemOf
  <2>2. \A o \in Originals(i) : o \in w.hold /\ tree[o] = Base => tree'[o] = Base
      OBVIOUS
  <2>3. w.at = "unlink" => \A e \in Planned : Turn(r, e)' => Foreseen(r, e, tree[i][e])'
    <3>. SUFFICES ASSUME w.at = "unlink", NEW e \in Planned, Turn(r, e)'
                  PROVE  Foreseen(r, e, tree[i][e])'
        OBVIOUS
    <3>1. Turn(r, e)
        BY <1>1 DEF Turn, Planned, Late
    <3>2. Foreseen(r, e, tree[i][e])
        BY <2>1, <3>1 DEF ItemInv
    <3>3. tree'[i][e] = tree[i][e] \/ <<r, e>> \in unseen'
        BY <3>1 DEF SeenOrTold, ItemOf
    <3>. QED BY <3>2, <3>3 DEF Foreseen
  <2>. QED BY <1>1, <2>1, <2>2, <2>3 DEF ItemInv
<1>5. w = pass'[q] /\ i = jobs'[w.job]
    OBVIOUS
<1>. QED BY <1>2, <1>3, <1>4, <1>5, PassIs

\* Steps that leave the passes and the files alone.
LEMMA WorldTurns ==
    ASSUME RelocInv, RelocTypeOK',
           UNCHANGED <<kind, jobs, journal, receipts, staged, bundles, removedBy, place, pass,
                       lock, pins>>,
           retaken \subseteq retaken',
           \A i : (\E p \in Steward : i \in pass[p].hold) => tree'[i] = tree[i],
           unseen \subseteq unseen', SeenOrTold
    PROVE  RelocInv'
<1>1. \A q \in Steward : PassInv(q)'
    BY Holds, PassRests
<1>2. \A j : Worked(j)' => Worked(j)
    BY DEF Worked, ItemOf
<1>. QED BY <1>1, <1>2, FilesRest

LEMMA WorldSteps ==
    ASSUME RelocInv,
           \/ \E i \in Item : \/ Enter(i) \/ Leave(i) \/ Retake(i)
                              \/ \E e \in Entry, c \in Content : Write(i, e, c)
           \/ \E listed \in SUBSET Item : CommitRetention(listed)
           \/ TargetGoes \/ TargetReturns \/ (\E r \in Job : Spoil(r))
    PROVE  RelocInv'
<1>. RelocTypeOK
    BY Holds
<1>1. ASSUME NEW i \in Item, Enter(i) PROVE RelocInv'
  <2>1. RelocTypeOK'
      BY <1>1 DEF RelocTypeOK, Enter, Disturbed
  <2>. QED BY <1>1, <2>1, WorldTurns DEF Enter, SeenOrTold
<1>2. ASSUME NEW i \in Item, Leave(i) PROVE RelocInv'
  <2>1. RelocTypeOK'
      BY <1>2 DEF RelocTypeOK, Leave
  <2>. QED BY <1>2, <2>1, WorldTurns DEF Leave, SeenOrTold
<1>3. ASSUME NEW i \in Item, Retake(i) PROVE RelocInv'
  <2>1. RelocTypeOK'
      BY <1>3 DEF RelocTypeOK, Retake, Disturbed
  <2>. QED BY <1>3, <2>1, WorldTurns DEF Retake, SeenOrTold
<1>4. ASSUME NEW i \in Item, NEW e \in Entry, NEW c \in Content, Write(i, e, c) PROVE RelocInv'
  <2>1. tree' \in [Item -> Tree] /\ \A j : j # i => tree'[j] = tree[j]
      BY <1>4 DEF Write, RelocTypeOK, Tree
  <2>2. /\ \A f \in Entry : f # e => tree'[i][f] = tree[i][f]
        /\ unseen' = unseen \cup {<<r, e>> : r \in {pass[q].job : q \in Unlinking(i, e)}}
      BY <1>4 DEF Write, RelocTypeOK, Tree
  <2>3. \A p \in Steward : i \notin pass[p].hold
      BY <1>4 DEF Write
  <2>4. unseen \subseteq unseen' /\ unseen' \subseteq Job \X Entry
    <3>1. \A q \in Unlinking(i, e) : pass[q].job \in Job
        BY ItemHolds DEF Unlinking, At, OnItem, Moving, Removing
    <3>. QED BY <2>2, <3>1 DEF RelocTypeOK
  <2>5. RelocTypeOK'
      BY <1>4, <2>1, <2>4 DEF RelocTypeOK, Write
  <2>6. SeenOrTold
    <3>. SUFFICES ASSUME NEW q \in Steward, NEW f \in Planned, pass[q].at = "unlink",
                         Turn(pass[q].job, f)
                  PROVE  \/ tree'[ItemOf(q)][f] = tree[ItemOf(q)][f]
                         \/ <<pass[q].job, f>> \in unseen'
        BY DEF SeenOrTold
    <3>1. CASE ItemOf(q) = i /\ f = e
        BY <2>2, <3>1 DEF Unlinking, At
    <3>2. CASE ItemOf(q) # i
        BY <2>1, <3>2
    <3>3. CASE ItemOf(q) = i /\ f # e
        BY <2>2, <3>3 DEF Planned
    <3>. QED BY <3>1, <3>2, <3>3
  <2>. QED BY <1>4, <2>1, <2>3, <2>4, <2>5, <2>6, WorldTurns DEF Write
<1>5. ASSUME NEW listed \in SUBSET Item, CommitRetention(listed) PROVE RelocInv'
  <2>1. RelocTypeOK'
      BY <1>5 DEF RelocTypeOK, CommitRetention, Disturbed
  <2>. QED BY <1>5, <2>1, WorldTurns DEF CommitRetention, SeenOrTold
<1>6. ASSUME TargetGoes PROVE RelocInv'
  <2>1. target' \in {"up", "away", "unread"}
      BY <1>6, Zenon DEF TargetGoes
  <2>2. events' \in Nat
      BY <1>6 DEF RelocTypeOK, TargetGoes, Disturbed
  <2>3. UNCHANGED <<kind, tree, place, retaken, visitor, retention, pins, jobs, journal, receipts,
                    staged, bundles, lock, pass, removedBy, unseen, spoilt>>
      BY <1>6 DEF TargetGoes
  <2>4. RelocTypeOK'
      BY <2>1, <2>2, <2>3 DEF RelocTypeOK
  <2>. QED BY <2>3, <2>4, WorldTurns DEF SeenOrTold
<1>7. ASSUME TargetReturns PROVE RelocInv'
  <2>1. target' \in {"up", "away", "unread"}
      BY <1>7, Zenon DEF TargetReturns
  <2>2. UNCHANGED <<kind, tree, place, retaken, visitor, retention, pins, jobs, journal, receipts,
                    staged, bundles, lock, pass, removedBy, unseen, spoilt, events>>
      BY <1>7 DEF TargetReturns
  <2>3. RelocTypeOK'
      BY <2>1, <2>2 DEF RelocTypeOK
  <2>. QED BY <2>2, <2>3, WorldTurns DEF SeenOrTold
<1>8. ASSUME NEW r \in Job, Spoil(r) PROVE RelocInv'
  <2>1. events' \in Nat /\ spoilt' \subseteq Job
      BY <1>8 DEF RelocTypeOK, Spoil, Disturbed
  <2>2. UNCHANGED <<kind, tree, place, retaken, visitor, retention, target, pins, jobs, journal,
                    receipts, staged, bundles, lock, pass, removedBy, unseen>>
      BY <1>8 DEF Spoil
  <2>3. RelocTypeOK'
      BY <2>1, <2>2 DEF RelocTypeOK
  <2>. QED BY <2>2, <2>3, WorldTurns DEF SeenOrTold
<1>. QED BY <1>1, <1>2, <1>3, <1>4, <1>5, <1>6, <1>7, <1>8

\* A pass that is not at an item before or after the step takes its new place.
LEMMA PassTurns ==
    ASSUME RelocInv, NEW p \in Steward, NEW w \in PassRecord, Takes(p, w),
           w.at \notin OnItem, w.at \in UnderLock => lock' = p,
           w.at \in {"planned", "items"} => \A j \in w.todo : Originals(j) \subseteq pins',
           lock' = lock \/ \A q \in Steward \ {p} : pass[q].at \notin UnderLock,
           lock' \in Steward \cup {NoLock}, pins' \subseteq Item, pins \subseteq pins',
           UNCHANGED <<kind, tree, place, retaken, visitor, retention, target, jobs, journal,
                       receipts, bundles, removedBy, unseen, spoilt>>,
           events' \in Nat, staged' \in [Job -> {"none", "guest", "target"}],
           NEW r, \A q \in Job \ {r} : staged'[q] = staged[q],
           r \in Job => \/ staged'[r] = staged[r]
                        \/ /\ "build" \in journal[r]
                           /\ staged'[r] # "target" \/ NotOnTarget(jobs[r]),
           staged' = staged \/ \A q \in Steward \ {p} : pass[q].at \notin UnderLock
    PROVE  RelocInv'
<1>1. RelocTypeOK /\ pass \in [Steward -> PassRecord]
    BY Holds
<1>2. /\ pass'[p] = w /\ pass' \in [Steward -> PassRecord]
      /\ \A q \in Steward \ {p} : pass'[q] = pass[q]
    BY <1>1 DEF Takes
<1>3. RelocTypeOK'
    BY <1>1, <1>2 DEF RelocTypeOK
<1>4. \A j : Originals(j)' = Originals(j)
    BY DEF Originals
<1>5. PassInv(p)'
    BY <1>2, <1>4 DEF PassInv
<1>6. \A q \in Steward \ {p} : PassInv(q)'
  <2>. SUFFICES ASSUME NEW q \in Steward \ {p} PROVE PassInv(q)'
      OBVIOUS
  <2>1. PassInv(q) /\ pass'[q] = pass[q]
      BY <1>2, Holds
  <2>2. CASE pass[q].at \notin UnderLock
      BY <2>1, <2>2, OthersAre
  <2>3. CASE lock' = lock /\ staged' = staged
      BY <2>1, <2>3, PassRests DEF SeenOrTold
  <2>. QED BY <2>2, <2>3
<1>7. \A j : Worked(j)' => Worked(j)
    BY PlacesAre, NoNewWork
<1>8. \A q \in Steward : PassInv(q)'
    BY <1>5, <1>6
<1>. QED BY <1>3, <1>7, <1>8, FilesRest

LEMMA StewardDiesKeeps ==
    ASSUME RelocInv, NEW p \in Steward, StewardDies(p)
    PROVE  RelocInv'
<1>1. /\ UNCHANGED <<kind, tree, place, retaken, visitor, retention, target, pins, jobs,
                     journal, receipts, bundles, removedBy, unseen, spoilt>>
      /\ pass' = [pass EXCEPT ![p] = NoPass] /\ lock' = IF lock = p THEN NoLock ELSE lock
    BY DEF StewardDies
<1>2. RelocTypeOK
    BY Holds
<1>3. events' \in Nat /\ lock' \in Steward \cup {NoLock} /\ pins' \subseteq Item
    BY <1>1, <1>2 DEF RelocTypeOK, StewardDies, Disturbed
<1>. PICK r : r = pass[p].job
    OBVIOUS
<1>. PICK w : w = NoPass
    OBVIOUS
<1>4. /\ w \in PassRecord /\ Takes(p, w) /\ w.at \notin OnItem /\ w.at \notin UnderLock
      /\ w.at \notin {"planned", "items"}
    BY <1>1, NoPassIs, PlacesAre DEF Takes
<1>5. lock' = lock \/ \A q \in Steward \ {p} : pass[q].at \notin UnderLock
    BY <1>1, Holds DEF PassInv
<1>6. CASE UNCHANGED staged
  <2>1. staged' \in [Job -> {"none", "guest", "target"}]
      BY <1>2, <1>6 DEF RelocTypeOK
  <2>2. /\ \A q \in Job \ {r} : staged'[q] = staged[q]
        /\ r \in Job => staged'[r] = staged[r]
      BY <1>6
  <2>. QED BY <1>1, <1>3, <1>4, <1>5, <1>6, <2>1, <2>2, PassTurns
<1>7. CASE At(p, "build") /\ staged' = [staged EXCEPT ![r] = pass[p].where]
  <2>1. pass[p].at = "build" /\ pass[p].at \in Ahead /\ pass[p].at \in UnderLock
      BY <1>7 DEF At, Ahead, UnderLock, OnItem
  <2>2. /\ r \in Job /\ pass[p].where \in Spot /\ ItemInv(pass[p], r, jobs[r])
      BY <2>1, AtWork
  <2>3. /\ staged' \in [Job -> {"none", "guest", "target"}] /\ staged'[r] = pass[p].where
        /\ \A q \in Job \ {r} : staged'[q] = staged[q]
      BY <1>2, <1>7, <2>2 DEF RelocTypeOK, Spot
  <2>4. "build" \in journal[r] /\ (staged'[r] # "target" \/ NotOnTarget(jobs[r]))
      BY <2>1, <2>2, <2>3 DEF ItemInv, NotOnTarget
  <2>5. \A q \in Steward \ {p} : pass[q].at \notin UnderLock
      BY <2>1, AloneThere
  <2>. QED BY <1>1, <1>3, <1>4, <2>3, <2>4, <2>5, PassTurns
<1>. QED BY <1>6, <1>7 DEF StewardDies, LeavesCopy

\* A step of a pass that writes nothing but, perhaps, its pins.
LEMMA PassSteps ==
    ASSUME RelocInv, NEW p \in Steward, NEW w, w \in PassRecord, Takes(p, w),
           w.at \notin OnItem, w.at \in UnderLock => lock' = p,
           w.at \in {"planned", "items"} => \A j \in w.todo : Originals(j) \subseteq pins',
           \/ lock' = lock
           \/ lock = NoLock /\ lock' = p
           \/ pass[p].at \in UnderLock /\ lock' = NoLock,
           pins' \subseteq Item, pins \subseteq pins',
           UNCHANGED <<kind, tree, place, retaken, visitor, retention, target, jobs, journal,
                       receipts, staged, bundles, removedBy, unseen, spoilt, events>>
    PROVE  RelocInv'
<1>1. RelocTypeOK
    BY Holds
<1>2. /\ events' \in Nat /\ lock' \in Steward \cup {NoLock}
      /\ staged' \in [Job -> {"none", "guest", "target"}]
    BY <1>1 DEF RelocTypeOK
<1>3. lock' = lock \/ \A q \in Steward \ {p} : pass[q].at \notin UnderLock
  <2>1. CASE lock = NoLock
      BY <2>1, Holds, RelocationAssumption DEF PassInv
  <2>2. CASE pass[p].at \in UnderLock
      BY <2>2, AloneThere
  <2>. QED BY <2>1, <2>2
<1>4. PICK r \in {0} : TRUE
    OBVIOUS
<1>5. (\A q \in Job \ {r} : staged'[q] = staged[q]) /\ (r \in Job => staged'[r] = staged[r])
    OBVIOUS
<1>. QED BY <1>2, <1>3, <1>5, PassTurns

ChosenAs(p, t) == pass' = [pass EXCEPT ![p].at = "chosen", ![p].todo = t]

LEMMA ChooseIs ==
    ASSUME pass \in [Steward -> PassRecord], NEW p \in Steward, NEW t \in SUBSET Item,
           ChosenAs(p, t)
    PROVE  \E w \in PassRecord : Takes(p, w) /\ w.at = "chosen"
<1>. DEFINE x == [pass[p] EXCEPT !.at = "chosen"]
            w == [x EXCEPT !.todo = t]
<1>1. Takes(p, w)
    BY DEF Takes, ChosenAs
<1>2. x \in PassRecord /\ x.at = "chosen"
    BY GoesOn, PlacesAre
<1>. HIDE DEF x
<1>3. w \in PassRecord /\ w.at = x.at
    BY <1>2, PassFields DEF PassRecord
<1>. HIDE DEF w
<1>. QED BY <1>1, <1>2, <1>3

\* What a step makes of the rest when it only moves the pass and the lock.
Elsewhere == UNCHANGED <<kind, tree, place, retaken, visitor, retention, target, pins, jobs,
                         journal, receipts, staged, bundles, removedBy, unseen, spoilt, events>>

LEMMA GotoKeeps ==
    ASSUME RelocInv, NEW p \in Steward, NEW v \in Places, v \notin OnItem, Goto(p, v),
           v \in UnderLock => lock' = p,
           v \in {"planned", "items"} => \A j \in pass[p].todo : Originals(j) \subseteq pins,
           \/ lock' = lock
           \/ lock = NoLock /\ lock' = p
           \/ pass[p].at \in UnderLock /\ lock' = NoLock,
           Elsewhere
    PROVE  RelocInv'
<1>1. PICK w : w \in PassRecord /\ Takes(p, w) /\ w.at = v /\ w.todo = pass[p].todo
    BY GotoIs, Holds DEF Takes
<1>2. pins \subseteq Item /\ pins' = pins
    BY Holds DEF RelocTypeOK, Elsewhere
<1>. QED BY <1>1, <1>2, PassSteps DEF Elsewhere

LEMMA GoneKeeps ==
    ASSUME RelocInv, NEW p \in Steward, pass' = [pass EXCEPT ![p] = NoPass],
           \/ lock' = lock
           \/ pass[p].at \in UnderLock /\ lock' = NoLock,
           Elsewhere
    PROVE  RelocInv'
<1>. PICK w : w = NoPass
    OBVIOUS
<1>1. /\ w \in PassRecord /\ Takes(p, w) /\ w.at \notin OnItem /\ w.at \notin UnderLock
      /\ w.at \notin {"planned", "items"}
    BY NoPassIs, PlacesAre DEF Takes
<1>2. pins \subseteq Item /\ pins' = pins
    BY Holds DEF RelocTypeOK, Elsewhere
<1>. QED BY <1>1, <1>2, PassSteps DEF Elsewhere

LEMMA PlanningKeeps ==
    ASSUME RelocInv, NEW p \in Steward,
           \/ StartPass(p) \/ PlanStep(p) \/ EndPass(p) \/ EndRecover(p) \/ EndExecute(p)
    PROVE  RelocInv'
<1>. pass \in [Steward -> PassRecord] /\ RelocTypeOK
    BY Holds
<1>1. CASE StartPass(p)
  <2>1. Elsewhere
      BY <1>1 DEF StartPass, Elsewhere
  <2>2. CASE lock = NoLock /\ lock' = p /\ Goto(p, "recovering")
      BY <2>1, <2>2, GotoKeeps, PlacesAre
  <2>3. CASE UNCHANGED lock /\ Goto(p, "recovered")
      BY <2>1, <2>3, GotoKeeps, PlacesAre
  <2>. QED BY <1>1, <2>2, <2>3 DEF StartPass
<1>2. ASSUME NEW chosen \in SUBSET Item, Choose(p, chosen) PROVE RelocInv'
  <2>1. ChosenAs(p, chosen) /\ Elsewhere /\ lock' = lock
      BY <1>2 DEF Choose, ChosenAs, Elsewhere
  <2>2. PICK w : w \in PassRecord /\ Takes(p, w) /\ w.at = "chosen"
      BY <2>1, ChooseIs
  <2>3. w.at \notin OnItem /\ w.at \notin UnderLock /\ w.at \notin {"planned", "items"}
      BY <2>2, PlacesAre
  <2>4. pins \subseteq Item /\ pins' = pins
      BY <2>1 DEF RelocTypeOK, Elsewhere
  <2>. QED BY <2>1, <2>2, <2>3, <2>4, PassSteps DEF Elsewhere
<1>3. CASE WritePlan(p)
  <2>1. PICK w : w \in PassRecord /\ Takes(p, w) /\ w.at = "planned" /\ w.todo = pass[p].todo
      BY <1>3, GotoIs, PlacesAre DEF WritePlan, Takes
  <2>2. pass[p].todo \subseteq Item
      BY DEF PassRecord
  <2>3. /\ pins' \subseteq Item /\ pins \subseteq pins'
        /\ \A j \in w.todo : Originals(j) \subseteq pins'
    <3>1. pins' = pins \cup UNION {Originals(j) : j \in pass[p].todo} /\ pins \subseteq Item
        BY <1>3 DEF WritePlan, RelocTypeOK
    <3>2. \A j \in pass[p].todo : Originals(j) \subseteq Item
        BY <2>2, RelocationAssumption DEF Originals
    <3>. QED BY <2>1, <3>1, <3>2
  <2>4. w.at \notin OnItem /\ w.at \notin UnderLock
      BY <2>1, PlacesAre
  <2>5. UNCHANGED <<kind, tree, place, retaken, visitor, retention, target, jobs, journal,
                    receipts, staged, bundles, lock, removedBy, unseen, spoilt, events>>
      BY <1>3 DEF WritePlan
  <2>. QED BY <2>1, <2>3, <2>4, <2>5, PassSteps
<1>4. CASE Execute(p)
  <2>1. /\ Elsewhere /\ lock = NoLock /\ lock' = p /\ Goto(p, "items") /\ pass[p].at = "planned"
      BY <1>4 DEF Execute, Elsewhere, At
  <2>2. \A j \in pass[p].todo : Originals(j) \subseteq pins
      BY <2>1, Holds DEF PassInv
  <2>. QED BY <2>1, <2>2, GotoKeeps, PlacesAre
<1>5. CASE EndPass(p)
    BY <1>5, GoneKeeps DEF EndPass, Elsewhere
<1>6. CASE EndRecover(p)
  <2>1. /\ Elsewhere /\ lock' = NoLock /\ Goto(p, "recovered") /\ pass[p].at \in UnderLock
      BY <1>6, PlacesAre DEF EndRecover, Elsewhere, At
  <2>. QED BY <2>1, GotoKeeps, PlacesAre
<1>7. CASE EndExecute(p)
  <2>1. /\ Elsewhere /\ lock' = NoLock /\ pass' = [pass EXCEPT ![p] = NoPass]
        /\ pass[p].at \in UnderLock
      BY <1>7, PlacesAre DEF EndExecute, Elsewhere, At
  <2>. QED BY <2>1, GoneKeeps
<1>. QED BY <1>1, <1>2, <1>3, <1>4, <1>5, <1>6, <1>7 DEF PlanStep

\* Recovery judges an open intent by what is there, while nobody works on an item.
LEMMA Resolves ==
    ASSUME RelocInv, NEW p \in Steward, NEW r \in Job, ResolveIntent(p, r)
    PROVE  RelocInv'
<1>. PICK i : i = jobs[r]
    OBVIOUS
<1>1. /\ pass[p].at = "recovering" /\ "intent" \in journal[r]
      /\ UNCHANGED <<kind, tree, place, retaken, visitor, retention, target, pins, jobs, staged,
                     bundles, lock, pass, removedBy, unseen, spoilt, events>>
    BY DEF ResolveIntent, OpenIntents, At
<1>2. /\ RelocTypeOK /\ journal \in [Job -> Marks] /\ receipts \in [Job -> Answer] /\ JobInv(r)
      /\ i \in Item \cup {NoJob}
    BY Holds DEF RelocTypeOK, Marks, Answer
<1>3. i \in Item /\ i # NoJob
    BY <1>1, <1>2, RelocationAssumption DEF JobInv, Unused
<1>4. \A j : ~Worked(j)
    BY <1>1, OnlyWorker, PlacesAre
<1>5. \A j : ~Worked(j)'
    BY <1>1, <1>4 DEF Worked, ItemOf
<1>6. /\ journal' \in [Job -> Marks] /\ journal[r] \subseteq journal'[r]
      /\ receipts' \in [Job -> Answer]
      /\ \A q \in Job \ {r} : journal'[q] = journal[q] /\ receipts'[q] = receipts[q]
      /\ \/ receipts'[r] = receipts[r]
         \/ /\ receipts'[r] = "KEPT" => Removed(r) = {}
            /\ receipts'[r] = "RELOCATED" => place[i] \in {"gone", "quarantine"} /\ ~Worked(i)
  <2>1. CASE Complete(r)
    <3>1. journal' = [journal EXCEPT ![r] = journal[r] \cup {"done"}] /\ receipts' = receipts
        BY <2>1 DEF Complete
    <3>2. journal[r] \cup {"done"} \in Marks
        BY <1>2 DEF Marks
    <3>. QED BY <1>2, <3>1, <3>2
  <2>2. CASE JudgeIntent(r, Verdict(r))
    <3>. PICK v : v = Verdict(r)
        OBVIOUS
    <3>1. receipts' = [receipts EXCEPT ![r] = v] /\ journal' = journal
        BY <2>2 DEF JudgeIntent
    <3>2. v \in Answer
        BY DEF Verdict, Answer, Outcome
    <3>3. v = "KEPT" => Removed(r) = {}
        BY <1>2 DEF Verdict, JobInv
    <3>4. v = "RELOCATED" => place[i] \in {"gone", "quarantine"}
      <4>1. place[i] \in {"named", "quarantine", "versioned", "gone"}
          BY <1>2, <1>3 DEF RelocTypeOK
      <4>2. place[i] = "versioned" => i \in retaken
          BY <1>3, Holds
      <4>3. v = "RELOCATED" => ~ItemThere(i)
          BY DEF Verdict
      <4>. QED BY <4>1, <4>2, <4>3 DEF ItemThere
    <3>. QED BY <1>2, <1>4, <3>1, <3>2, <3>3, <3>4
  <2>. QED BY <2>1, <2>2 DEF ResolveIntent
<1>7. RelocTypeOK'
    BY <1>1, <1>2, <1>6 DEF RelocTypeOK, Marks, Answer
<1>8. OnPaper
    BY <1>1, <1>2 DEF OnPaper, RelocTypeOK
<1>9. JobInv(r)'
    BY <1>1, <1>2, <1>3, <1>5, <1>6, <1>8, JobOnPaper
<1>10. \A q \in Job : Removed(q)' = Removed(q)
    BY <1>1 DEF Removed
<1>11. \A q \in Job \ {r} : JobInv(q)'
  <2>. SUFFICES ASSUME NEW q \in Job \ {r} PROVE JobInv(q)'
      OBVIOUS
  <2>1. JobInv(q) /\ jobs[q] \in Item \cup {NoJob}
      BY Holds
  <2>2. Partner \in [Item -> Item] /\ NoJob \notin Item
      BY RelocationAssumption
  <2>. QED BY <1>1, <1>5, <1>6, <1>10, <2>1, <2>2, JobRests
<1>12. \A q \in Steward : PassInv(q)'
  <2>. SUFFICES ASSUME NEW q \in Steward PROVE PassInv(q)'
      OBVIOUS
  <2>1. CASE q = p
    <3>1. pass'[p].at = "recovering" /\ lock' = p
        BY <1>1, Holds, PlacesAre DEF PassInv
    <3>. QED BY <2>1, <3>1, PlacesAre DEF PassInv
  <2>2. CASE q # p
    <3>1. pass[q].at \notin UnderLock
        BY <1>1, <2>2, AloneThere, PlacesAre
    <3>. QED BY <1>1, <3>1, OthersAre, Holds
  <2>. QED BY <2>1, <2>2
<1>13. OneCopy'
    BY <1>1, Holds DEF OneCopy
<1>14. \A x \in removedBy' : x[2] \in Planned /\ Foreseen(x[1], x[2], x[3])'
    BY <1>1, Holds DEF Foreseen
<1>15. \A j \in Item : place'[j] = "versioned" => j \in retaken'
    BY <1>1, Holds
<1>. QED BY <1>7, <1>9, <1>11, <1>12, <1>13, <1>14, <1>15 DEF RelocInv

TakenUpAs(p, r, i, v, s) ==
    pass' = [pass EXCEPT ![p].job = r, ![p].todo = @ \ {i}, ![p].at = v, ![p].status = s]

\* What the pass is when it has taken up an item.
LEMMA TakenUp ==
    ASSUME pass \in [Steward -> PassRecord], NEW p \in Steward, NEW r \in Nat, NEW i,
           NEW v \in Places, NEW s \in Answer, TakenUpAs(p, r, i, v, s)
    PROVE  \E w \in PassRecord : /\ Takes(p, w) /\ w.at = v /\ w.status = s /\ w.job = r
                                 /\ w.todo \subseteq pass[p].todo
<1>1. PICK c \in PassRecord : c = pass[p]
    OBVIOUS
<1>. DEFINE x == [c EXCEPT !.job = r]
            y == [x EXCEPT !.todo = c.todo \ {i}]
            z == [y EXCEPT !.at = v]
            w == [z EXCEPT !.status = s]
<1>2. pass' = [pass EXCEPT ![p] = w]
    BY <1>1 DEF TakenUpAs, PassRecord
<1>3. x \in PassRecord /\ x.job = r /\ x.todo = c.todo
  <2>1. x \in PassRecord
      BY PassFields
  <2>. QED BY <2>1 DEF PassRecord
<1>4. c.todo \ {i} \in SUBSET Item
    BY DEF PassRecord
<1>. HIDE DEF x
<1>5. y \in PassRecord /\ y.job = r /\ y.todo = c.todo \ {i}
  <2>1. y \in PassRecord
      BY <1>3, <1>4, PassFields
  <2>. QED BY <1>3, <2>1 DEF PassRecord
<1>. HIDE DEF y
<1>6. z \in PassRecord /\ z.job = r /\ z.todo = y.todo /\ z.at = v
  <2>1. z \in PassRecord
      BY <1>5, PassFields
  <2>. QED BY <1>5, <2>1 DEF PassRecord
<1>. HIDE DEF z
<1>7. w \in PassRecord /\ w.job = r /\ w.todo = z.todo /\ w.at = v /\ w.status = s
  <2>1. w \in PassRecord
      BY <1>6, PassFields DEF Answer
  <2>. QED BY <1>6, <2>1 DEF PassRecord
<1>. HIDE DEF w
<1>. QED BY <1>1, <1>2, <1>5, <1>6, <1>7 DEF Takes

LEMMA StartsItem ==
    ASSUME RelocInv, NEW p \in Steward, NEW i \in Item, StartItem(p, i)
    PROVE  RelocInv'
<1>1. /\ pass[p].at = "items" /\ i \in pass[p].todo
      /\ UNCHANGED <<kind, tree, place, retaken, visitor, retention, target, pins, journal,
                     receipts, staged, bundles, lock, removedBy, unseen, spoilt, events>>
    BY DEF StartItem, At
<1>2. PICK r, v, s :
         /\ r \in Job /\ jobs[r] = NoJob /\ jobs' = [jobs EXCEPT ![r] = i]
         /\ v = IF ~StillFree(i) THEN "receipt"
                ELSE IF kind[i] = "extract" THEN "recheck" ELSE "stage"
         /\ s = IF StillFree(i) THEN "none" ELSE "KEPT"
         /\ TakenUpAs(p, r, i, v, s)
  <2>1. PICK r \in Job :
          /\ jobs[r] = NoJob /\ jobs' = [jobs EXCEPT ![r] = i]
          /\ TakenUpAs(p, r, i, IF ~StillFree(i) THEN "receipt"
                                ELSE IF kind[i] = "extract" THEN "recheck" ELSE "stage",
                       IF StillFree(i) THEN "none" ELSE "KEPT")
      BY Zenon DEF StartItem, TakenUpAs
  <2>2. PICK v : v = IF ~StillFree(i) THEN "receipt"
                     ELSE IF kind[i] = "extract" THEN "recheck" ELSE "stage"
      OBVIOUS
  <2>3. PICK s : s = IF StillFree(i) THEN "none" ELSE "KEPT"
      OBVIOUS
  <2>4. TakenUpAs(p, r, i, v, s)
      BY <2>1, <2>2, <2>3, Zenon
  <2>. QED BY <2>1, <2>2, <2>3, <2>4, Zenon
<1>3. /\ v \in Places /\ v \in OnItem /\ s \in Answer /\ r \in Nat
      /\ v \in Working => StillFree(i) /\ v \in {"recheck", "stage"}
      /\ v = "receipt" => s = "KEPT" \/ s = "none"
    BY <1>2 DEF Places, UnderLock, OnItem, Ahead, Moving, Removing, Working, Outcome, Answer, Job
<1>4. PICK w : /\ w \in PassRecord /\ Takes(p, w) /\ w.at = v /\ w.status = s /\ w.job = r
               /\ w.todo \subseteq pass[p].todo
  <2>1. /\ r \in Nat /\ v \in Places /\ s \in Answer /\ TakenUpAs(p, r, i, v, s)
        /\ pass \in [Steward -> PassRecord] /\ p \in Steward
      BY <1>2, <1>3, Holds
  <2>. QED BY ONLY <2>1, TakenUp, SMTT(60)
<1>5. /\ RelocTypeOK /\ lock = p /\ JobInv(r) /\ pass \in [Steward -> PassRecord]
      /\ jobs \in [Job -> Item \cup {NoJob}] /\ PassInv(p)
    BY <1>1, <1>2, Holds, PlacesAre DEF PassInv
<1>6. /\ pass'[p] = w /\ pass' \in [Steward -> PassRecord]
      /\ \A q \in Steward \ {p} : pass'[q] = pass[q]
    BY <1>4, <1>5 DEF Takes
<1>7. /\ jobs'[r] = i /\ jobs' \in [Job -> Item \cup {NoJob}]
      /\ \A q \in Job \ {r} : jobs'[q] = jobs[q]
    BY <1>2, <1>5
<1>8. RelocTypeOK'
    BY <1>1, <1>5, <1>6, <1>7 DEF RelocTypeOK
<1>9. /\ \A j : Originals(j)' = Originals(j)
      /\ \A q : Removed(q)' = Removed(q)
      /\ Base' = Base
    BY <1>1 DEF Originals, Removed
<1>10. Unused(r)
    BY <1>2, <1>5 DEF JobInv
<1>11. \A j : ~Worked(j)
  <2>1. pass[p].at \in UnderLock /\ pass[p].at \notin Working
      BY <1>1, PlacesAre
  <2>. QED BY <2>1, OnlyWorker
<1>12. \A j : Worked(j)' => j = i /\ StillFree(i)
  <2>. SUFFICES ASSUME NEW j, Worked(j)' PROVE j = i /\ StillFree(i)
      OBVIOUS
  <2>1. PICK q \in Steward : pass'[q].at \in Working /\ jobs'[pass'[q].job] = j
      BY DEF Worked, Working, ItemOf
  <2>2. q = p
    <3>1. pass[p].at \in UnderLock
        BY <1>1, PlacesAre
    <3>. QED BY <1>6, <2>1, <3>1, AloneThere, PlacesAre
  <2>. QED BY <1>3, <1>4, <1>6, <1>7, <2>1, <2>2
<1>13. ItemInv(w, r, i)'
  <2>1. Originals(i) \subseteq pins
      BY <1>1, <1>5 DEF PassInv
  <2>2. v \in Ahead \cup Moving => v \in {"recheck", "stage"} /\ place[i] = "named"
      BY <1>3 DEF Working, StillFree
  <2>3. Removed(r) = {} /\ receipts[r] = "none"
      BY <1>10 DEF Unused
  <2>4. v \in Ahead => v \in {"recheck", "stage"}
      BY <2>2
  <2>5. v \notin Moving /\ v \notin {"build", "intent", "rename"}
      BY <2>2 DEF Ahead, Moving, Removing
  <2>6. s # "RELOCATED"
      BY <1>2
  <2>. QED BY <1>1, <1>2, <1>4, <1>7, <1>9, <2>1, <2>2, <2>3, <2>5, <2>6
       DEF ItemInv, Moving, Removing
<1>14. \A q \in Steward : PassInv(q)'
  <2>. SUFFICES ASSUME NEW q \in Steward PROVE PassInv(q)'
      OBVIOUS
  <2>1. CASE q = p
    <3>1. \A j \in w.todo : Originals(j)' \subseteq pins'
        BY <1>1, <1>4, <1>5, <1>9 DEF PassInv
    <3>2. w = pass'[p] /\ i = jobs'[w.job] /\ lock' = p /\ ItemInv(w, w.job, i)'
        BY <1>1, <1>4, <1>5, <1>6, <1>7, <1>13
    <3>. QED BY <2>1, <3>1, <3>2, PassIs
  <2>2. CASE q # p
    <3>1. pass[q].at \notin UnderLock
        BY <1>1, <2>2, AloneThere, PlacesAre
    <3>. QED BY <1>1, <1>6, <2>2, <3>1, OthersAre, Holds
  <2>. QED BY <2>1, <2>2
<1>15. JobInv(r)'
  <2>1. jobs'[r] \in Item /\ NoJob \notin Item /\ Removed(r)' = {} /\ receipts'[r] # "RELOCATED"
        /\ (staged'[r] = "target" => "build" \in journal'[r])
      BY <1>1, <1>7, <1>9, <1>10, RelocationAssumption DEF Unused
  <2>. QED BY <1>2, <2>1, JobIsWhole
<1>16. \A q \in Job \ {r} : JobInv(q)'
  <2>. SUFFICES ASSUME NEW q \in Job \ {r} PROVE JobInv(q)'
      OBVIOUS
  <2>. PICK k : k = jobs[q]
      OBVIOUS
  <2>1. JobInv(q) /\ k \in Item \cup {NoJob} /\ jobs'[q] = k
      BY <1>7, Holds
  <2>2. k = NoJob => Unused(q)'
      BY <1>1, <1>9, <2>1 DEF JobInv, Unused
  <2>3. staged'[q] = "target" => "build" \in journal'[q]
      BY <1>1, <2>1 DEF JobInv
  <2>4. ASSUME Removed(q) # {}
        PROVE  /\ "removal" \in journal'[q] /\ receipts'[q] # "KEPT"
               /\ kind'[k] # "extract" => bundles'[q] = Base'
               /\ \A o \in Originals(k)' : o \in pins' /\ place'[o] # "gone" /\ ~Worked(o)'
    <3>1. /\ "removal" \in journal[q] /\ receipts[q] # "KEPT"
          /\ kind[k] # "extract" => bundles[q] = Base
          /\ \A o \in Originals(k) : o \in pins /\ place[o] # "gone"
        BY <2>1, <2>4 DEF JobInv
    <3>2. \A o \in Originals(k) : ~Worked(o)'
      <4>. SUFFICES ASSUME NEW o \in Originals(k), Worked(o)' PROVE FALSE
          OBVIOUS
      <4>1. o = i /\ StillFree(i) /\ o \in pins
          BY <1>12, <3>1
      <4>2. i \in Originals(i)
          BY <4>1 DEF StillFree, Pinned
      <4>. QED BY <4>2, RelocationAssumption DEF Originals
    <3>. QED BY <1>1, <1>9, <3>1, <3>2
  <2>5. ASSUME receipts[q] = "RELOCATED"
        PROVE  place'[k] \in {"gone", "quarantine"} /\ ~Worked(k)'
    <3>1. place[k] \in {"gone", "quarantine"}
        BY <2>1, <2>5 DEF JobInv
    <3>. QED BY <1>1, <1>12, <3>1 DEF StillFree
  <2>. QED BY <1>1, <1>9, <2>1, <2>2, <2>3, <2>4, <2>5 DEF JobInv
<1>17. OneCopy'
  <2>. SUFFICES ASSUME NEW a \in Job, NEW b \in Job, staged'[a] = "target", staged'[b] = "target",
                       jobs'[a] = jobs'[b]
                PROVE  a = b
      BY DEF OneCopy
  <2>1. OneCopy /\ staged[r] = "none"
      BY <1>10, Holds DEF Unused
  <2>. QED BY <1>1, <1>7, <2>1 DEF OneCopy
<1>18. \A x \in removedBy' : x[2] \in Planned /\ Foreseen(x[1], x[2], x[3])'
    BY <1>1, Holds DEF Foreseen
<1>19. \A j \in Item : place'[j] = "versioned" => j \in retaken'
    BY <1>1, Holds
<1>. QED BY <1>8, <1>14, <1>15, <1>16, <1>17, <1>18, <1>19 DEF RelocInv

-----------------------------------------------------------------------------
(* The theorems                                                            *)

LEMMA RelocInitInv ==
    ASSUME RelocInit
    PROVE  RelocInv
<1>1. Base \in Tree
    BY DEF Base, Tree, Content
<1>2. NoBundle \in Tree \cup {NoBundle} /\ NoPass \in PassRecord /\ NoPass.at = "idle"
    BY NoPassIs
<1>3. RelocTypeOK
  <2>1. /\ kind \in [Item -> {"duplicate", "git", "extract"}]
        /\ tree \in [Item -> Tree]
        /\ place \in [Item -> {"named", "quarantine", "versioned", "gone"}]
        /\ retaken \subseteq Item /\ visitor \in [Item -> {"none", "reads", "wrote"}]
        /\ retention \subseteq Item /\ pins \subseteq Item
      BY <1>1 DEF RelocInit
  <2>2. target \in {"up", "away", "unread"}
      BY Zenon DEF RelocInit
  <2>3. /\ jobs \in [Job -> Item \cup {NoJob}]
        /\ journal \in [Job -> SUBSET {"build", "intent", "removal", "done"}]
        /\ receipts \in [Job -> {"none"} \cup Outcome]
        /\ staged \in [Job -> {"none", "guest", "target"}]
        /\ bundles \in [Job -> Tree \cup {NoBundle}]
      BY DEF RelocInit
  <2>4. /\ lock \in Steward \cup {NoLock} /\ pass \in [Steward -> PassRecord]
        /\ removedBy \subseteq Job \X Entry \X Content /\ events \in Nat
        /\ unseen \subseteq Job \X Entry /\ spoilt \subseteq Job
      BY <1>2 DEF RelocInit
  <2>. QED BY <2>1, <2>2, <2>3, <2>4 DEF RelocTypeOK
<1>4. \A p \in Steward : PassInv(p)
  <2>. SUFFICES ASSUME NEW p \in Steward PROVE PassInv(p)
      OBVIOUS
  <2>1. pass[p].at = "idle"
      BY <1>2 DEF RelocInit
  <2>. QED BY <2>1, PlacesAre DEF PassInv
<1>5. \A r \in Job : JobInv(r)
  <2>. SUFFICES ASSUME NEW r \in Job PROVE JobInv(r)
      OBVIOUS
  <2>1. Removed(r) = {}
      BY DEF RelocInit, Removed
  <2>. QED BY <2>1 DEF RelocInit, JobInv, Unused
<1>6. OneCopy
    BY DEF RelocInit, OneCopy
<1>7. removedBy = {} /\ \A i \in Item : place[i] # "versioned"
    BY DEF RelocInit
<1>. QED BY <1>3, <1>4, <1>5, <1>6, <1>7 DEF RelocInv

LEMMA RelocStep ==
    ASSUME RelocInv, [RelocNext]_relocVars
    PROVE  RelocInv'
<1>1. ASSUME NEW p \in Steward, StartPass(p) \/ PlanStep(p) \/ EndPass(p) PROVE RelocInv'
    BY <1>1, PlanningKeeps
<1>2. ASSUME NEW p \in Steward, ItemStep(p) PROVE RelocInv'
  <2>1. CASE \E i \in Item : StartItem(p, i)
      BY <2>1, StartsItem
  <2>2. CASE \E where \in {"guest", "target"} : Stage(p, where)
      BY <2>2, Stages
  <2>3. CASE Build(p)
      BY <2>3, Builds
  <2>4. CASE PlaceBundle(p)
      BY <2>4, PlacesBundle
  <2>5. CASE Recheck(p)
      BY <2>5, Rechecks
  <2>6. CASE WriteIntent(p)
      BY <2>6, WritesIntent
  <2>7. CASE Rename(p)
      BY <2>7, Renames
  <2>8. CASE Compare(p)
      BY <2>8, Compares
  <2>9. CASE Probe(p)
      BY <2>9, Probes
  <2>10. CASE StartRemoval(p)
      BY <2>10, StartsRemoval
  <2>11. CASE \E e \in Entry : Rehash(p, e) \/ RemoveEntry(p, e)
      BY <2>11, Rehashes, RemovesEntry
  <2>12. CASE RemoveDirectory(p)
      BY <2>12, RemovesDirectory
  <2>13. CASE WriteReceipt(p)
      BY <2>13, WritesReceipt
  <2>14. CASE WriteCompletion(p)
      BY <2>14, WritesCompletion
  <2>15. CASE EndExecute(p)
      BY <2>15, PlanningKeeps
  <2>. QED BY <1>2, <2>1, <2>2, <2>3, <2>4, <2>5, <2>6, <2>7, <2>8, <2>9, <2>10, <2>11, <2>12,
              <2>13, <2>14, <2>15 DEF ItemStep
<1>3. ASSUME NEW p \in Steward, RecoverStep(p) PROVE RelocInv'
    BY <1>3, Resolves, PlanningKeeps DEF RecoverStep
<1>4. ASSUME NEW p \in Steward, StepFails(p) PROVE RelocInv'
    BY <1>4, FailsSomewhere
<1>5. ASSUME NEW p \in Steward, StewardDies(p) PROVE RelocInv'
    BY <1>5, StewardDiesKeeps
<1>6. CASE \/ \E i \in Item : \/ Enter(i) \/ Leave(i) \/ Retake(i)
                              \/ \E e \in Entry, c \in Content : Write(i, e, c)
           \/ \E listed \in SUBSET Item : CommitRetention(listed)
           \/ TargetGoes \/ TargetReturns \/ (\E r \in Job : Spoil(r))
    BY <1>6, WorldSteps
<1>7. CASE UNCHANGED relocVars
  <2>1. RelocTypeOK'
      BY <1>7, Holds DEF relocVars, RelocTypeOK
  <2>. QED BY <1>7, <2>1, WorldTurns DEF relocVars, SeenOrTold
<1>. QED BY <1>1, <1>2, <1>3, <1>4, <1>5, <1>6, <1>7 DEF RelocNext

\* Passes of several processes, crashes at any step, writers inside an item, somebody
\* taking its name, a target that goes, commits of the manifests: all keep the invariant.
THEOREM RelocKept == RelocSpec => []RelocInv
<1>1. RelocInit => RelocInv
    BY RelocInitInv
<1>2. RelocInv /\ [RelocNext]_relocVars => RelocInv'
    BY RelocStep
<1>. QED BY <1>1, <1>2, PTL DEF RelocSpec

LEMMA MovesFollow ==
    ASSUME RelocInv
    PROVE  MovesAreSafe
<1>1. ASSUME NEW x \in removedBy
      PROVE  /\ x[1] \in Job /\ x[2] \in Planned /\ Foreseen(x[1], x[2], x[3])
             /\ Removed(x[1]) # {} /\ JobInv(x[1])
  <2>1. removedBy \subseteq Job \X Entry \X Content
      BY Holds DEF RelocTypeOK
  <2>2. x[1] \in Job /\ x[2] \in Entry /\ x[3] \in Content /\ x = <<x[1], x[2], x[3]>>
      BY <2>1
  <2>3. x[2] \in Removed(x[1])
      BY <2>2 DEF Removed
  <2>. QED BY <2>2, <2>3, Holds
<1>2. \A e \in Planned : Base[e] = "base"
    BY DEF Planned, Base
<1>3. Base # NoBundle
    BY RelocationAssumption DEF Base, Content
<1>4. ContentIsKept
    BY <1>1, <1>2, <1>3 DEF ContentIsKept, JobInv, Foreseen
<1>5. OriginalsStay
    BY Holds DEF OriginalsStay, JobInv, Originals
<1>6. ReceiptsAreTrue
    BY Holds DEF ReceiptsAreTrue, JobInv, OneCopy
<1>. QED BY <1>4, <1>5, <1>6 DEF MovesAreSafe, NothingLost

\* What was unlinked is in a bundle as it was, but for what was written in the window before
\* its unlink; what a removed duplicate relied on stays; every receipt tells what happened.
THEOREM MovesAlwaysSafe == RelocSpec => []MovesAreSafe
<1>1. RelocInv => MovesAreSafe
    BY MovesFollow
<1>. QED BY <1>1, RelocKept, PTL

\* What is unlinked goes while its original is held, in its place, and equal.
LEMMA OriginalFollows ==
    ASSUME RelocInv, [RelocNext]_relocVars, NEW x \in removedBy' \ removedBy,
           NEW o \in Originals(jobs[x[1]])
    PROVE  /\ place[o] = "named" /\ tree[o][x[2]] = "base"
           /\ <<x[1], x[2]>> \notin unseen => tree[o][x[2]] = x[3]
<1>1. PICK p \in Steward, e \in Entry : RemoveEntry(p, e)
  <2>1. removedBy' # removedBy
      OBVIOUS
  <2>2. ASSUME NEW p \in Steward, StartPass(p) \/ PlanStep(p) \/ EndPass(p) \/ RecoverStep(p)
        PROVE  removedBy' = removedBy
      BY <2>2 DEF StartPass, PlanStep, Choose, WritePlan, Execute, EndPass, RecoverStep,
                  ResolveIntent, EndRecover
  <2>3. ASSUME NEW p \in Steward, StepFails(p) \/ StewardDies(p)
        PROVE  removedBy' = removedBy
      BY <2>3 DEF StepFails, StewardDies
  <2>4. ASSUME NEW p \in Steward, ItemStep(p), ~\E e \in Entry : RemoveEntry(p, e)
        PROVE  removedBy' = removedBy
      BY <2>4 DEF ItemStep, StartItem, Stage, Build, PlaceBundle, Recheck, WriteIntent, Rename,
                  Compare, Probe, StartRemoval, Rehash, RemoveDirectory, WriteReceipt,
                  WriteCompletion, EndExecute
  <2>5. ASSUME \/ \E i \in Item : \/ Enter(i) \/ Leave(i) \/ Retake(i)
                                  \/ \E e \in Entry, c \in Content : Write(i, e, c)
               \/ \E listed \in SUBSET Item : CommitRetention(listed)
               \/ TargetGoes \/ TargetReturns \/ (\E r \in Job : Spoil(r))
        PROVE  removedBy' = removedBy
      BY <2>5 DEF Enter, Leave, Retake, Write, CommitRetention, TargetGoes, TargetReturns,
                  Spoil
  <2>6. UNCHANGED relocVars => removedBy' = removedBy
      BY DEF relocVars
  <2>. QED BY <2>1, <2>2, <2>3, <2>4, <2>5, <2>6 DEF RelocNext
<1>. PICK r, i : r = pass[p].job /\ i = jobs[r]
    OBVIOUS
<1>2. /\ pass[p].at = "unlink" /\ pass[p].at \in OnItem /\ pass[p].at \in Moving
      /\ e \in Planned /\ Turn(r, e) /\ removedBy' = removedBy \cup {<<r, e, tree[i][e]>>}
    BY <1>1 DEF RemoveEntry, At, OnItem, Moving, Removing, ItemOf, Turn
<1>3. x = <<r, e, tree[i][e]>>
    BY <1>2
<1>4. ItemInv(pass[p], r, i)
    BY <1>2, ItemHolds DEF ItemOf
<1>5. place[o] = "named" /\ tree[o] = Base
    BY <1>2, <1>3, <1>4 DEF ItemInv
<1>6. Base[e] = "base"
    BY <1>2 DEF Base, Planned
<1>7. Foreseen(r, e, tree[i][e])
    BY <1>2, <1>4 DEF ItemInv
<1>. QED BY <1>3, <1>5, <1>6, <1>7 DEF Foreseen

\* A duplicate goes only while what it is a duplicate of stands, as it was.
THEOREM OriginalAlwaysThere == RelocSpec => OriginalIsThere
<1>1. RelocInv /\ [RelocNext]_relocVars =>
        [\A x \in removedBy' \ removedBy : \A o \in Originals(jobs[x[1]]) :
            /\ place[o] = "named" /\ tree[o][x[2]] = "base"
            /\ <<x[1], x[2]>> \notin unseen => tree[o][x[2]] = x[3]]_relocVars
    BY OriginalFollows
<1>. QED BY <1>1, RelocKept, PTL DEF RelocSpec, OriginalIsThere

==============================================================================
