------------------------------ MODULE RunLease ------------------------------
(***************************************************************************)
(* The lease of one run: the record and its protocol (runlease.py), the    *)
(* driver that takes it, keeps it alive and gives it up (rundrive.py), and *)
(* the archive of ended leases (leaseadmin.py).  Drivers run in places, a  *)
(* host and a pid namespace, that share the directory; the process lock of *)
(* the run is honoured within a host, the short lock of the directory by   *)
(* all.  A life is one process: its pid, start time and boot.              *)
(***************************************************************************)
EXTENDS Naturals, FiniteSets

CONSTANTS Driver, Host, HostOf, SpaceOf,
          Ttl, MaxRenewFailures, MinAge,
          MaxLife, MaxTime, MaxGeneration, MaxTroubles     \* bounds

VARIABLES
    time,       \* the clock the hosts share
    setBack,    \* history: whether the clock was ever set back
    born,       \* lives used
    drive,      \* every driver: its life, where it is, its handle, its failed renewals
    current,     \* the current lease record
    parked,     \* the copies <run>.json.g<generation>
    archive,    \* what archives of ended leases hold
    short,      \* who holds the short lock
    keeper,     \* the archive command: where it is
    replaced,   \* history: the records a takeover replaced
    late,       \* history: records released or renewed after a takeover had parked them
    troubles

leaseVars == <<time, setBack, born, drive, current, parked, archive, short, keeper,
               replaced, late, troubles>>
files == <<current, parked, archive>>
marks == <<replaced, late>>

Keeper == "archive"
Nobody == "nobody"

\* MAX_RENEW_FAILURES periods of the keepalive are one lifetime of the lease.
ASSUME RunLeaseAssumption ==
    /\ HostOf \in [Driver -> Host] /\ {Keeper, Nobody} \cap Driver = {}
    /\ Ttl \in Nat \ {0} /\ MinAge \in Nat
    /\ MaxRenewFailures \in Nat /\ Ttl <= MaxRenewFailures
    /\ MaxLife \in Nat /\ MaxTime \in Nat /\ MaxGeneration \in Nat /\ MaxTroubles \in Nat

NoRecord == [holder |-> 0, by |-> "none", generation |-> 0, acquired |-> 0, renewed |-> 0,
             expires |-> 0, released |-> FALSE, ended |-> 0]
NoDrive == [life |-> 0, at |-> "off", handle |-> NoRecord, next |-> 0, failed |-> 0]

LeaseInit ==
    /\ time = 0 /\ setBack = FALSE /\ born = 0 /\ drive = [d \in Driver |-> NoDrive]
    /\ current = NoRecord /\ parked = {} /\ archive = {} /\ short = Nobody
    /\ keeper = "idle" /\ replaced = {} /\ late = {} /\ troubles = 0

Trouble == troubles < MaxTroubles /\ troubles' = troubles + 1
Runs(l) == \E d \in Driver : drive[d].life = l
Moves(d, at) == drive' = [drive EXCEPT ![d].at = at]

-----------------------------------------------------------------------------
(* The record                                                              *)

\* A pid that cannot be seen is taken for dead, wherever its process runs.
JudgeAnySpace(d, r) ==
    IF r.released THEN "RELEASED"
    ELSE IF SpaceOf[r.by] # SpaceOf[d] \/ ~Runs(r.holder) THEN "LOST"
    ELSE IF r.expires <= time THEN "LOST" ELSE "LIVE"

\* _judge: a process is looked up only in its own host and pid namespace; another boot
\* of the same host ends it, too, which here is that it is not alive.
Judge(d, r) ==
    IF r.released THEN "RELEASED"
    ELSE IF SpaceOf[r.by] = SpaceOf[d] /\ ~Runs(r.holder) THEN "LOST"
    ELSE IF r.expires <= time THEN "LOST" ELSE "LIVE"

\* _park: a copy of that generation must be the same bytes.
Conflicts(r) == \E c \in parked : c.generation = r.generation /\ c # r

\* _current: the record is the very grant of the handle, and not released.
SameGrant(d) ==
    /\ current # NoRecord /\ ~current.released
    /\ current.holder = drive[d].handle.holder
    /\ current.generation = drive[d].handle.generation
    /\ current.acquired = drive[d].handle.acquired

\* What changes a record whose copy is parked already is remembered.
Changes(r) ==
    /\ current' = r
    /\ late' = IF current \in parked THEN late \cup {r.generation} ELSE late

Granted(d, n) ==
    [holder |-> drive[d].life, by |-> d, generation |-> n, acquired |-> time,
     renewed |-> time, expires |-> time + Ttl, released |-> FALSE, ended |-> 0]

-----------------------------------------------------------------------------
(* hoh run: the process lock, the lease, the keepalive, and giving it up   *)

Starts(d) ==
    /\ drive[d].at = "off" /\ born < MaxLife
    /\ \A e \in Driver : HostOf[e] = HostOf[d] => drive[e].life = 0     \* process_marker
    /\ born' = born + 1
    /\ drive' = [drive EXCEPT ![d].life = born + 1, ![d].at = "locked"]
    /\ UNCHANGED <<time, setBack, files, short, keeper, marks, troubles>>

\* The new record is written before the old one is parked.
AcquireWritesFirst(d) ==
    /\ drive[d].at = "locked" /\ short = Nobody /\ current.generation < MaxGeneration
    /\ current # NoRecord => Judge(d, current) # "LIVE" /\ ~Conflicts(current)
    /\ current' = Granted(d, current.generation + 1)
    /\ replaced' = IF current = NoRecord THEN replaced ELSE replaced \cup {current}
    /\ drive' = [drive EXCEPT ![d].at = "parked", ![d].handle = current']
    /\ short' = d
    /\ UNCHANGED <<time, setBack, born, parked, archive, keeper, late, troubles>>

\* acquire: refused over a live holder or a conflicting copy; otherwise the record
\* that is replaced is parked, and the lock is kept.
Acquire(d) ==
    /\ drive[d].at = "locked" /\ short = Nobody /\ current.generation < MaxGeneration
    /\ IF current # NoRecord /\ (Judge(d, current) = "LIVE" \/ Conflicts(current))
       THEN /\ drive' = [drive EXCEPT ![d] = NoDrive]
            /\ UNCHANGED <<parked, short>>
       ELSE /\ parked' = IF current = NoRecord THEN parked ELSE parked \cup {current}
            /\ short' = d
            /\ drive' = [drive EXCEPT ![d].at = "parked",
                                      ![d].handle = Granted(d, current.generation + 1)]
    /\ UNCHANGED <<time, setBack, born, current, archive, keeper, marks, troubles>>
\* ... and the new grant written.  A write whose directory entry is in doubt raises.
WriteGrant(d, synced) ==
    /\ drive[d].at = "parked" /\ short = d
    /\ current' = drive[d].handle /\ short' = Nobody
    /\ replaced' = IF current = NoRecord THEN replaced ELSE replaced \cup {current}
    /\ IF synced THEN troubles' = troubles ELSE Trouble
    /\ drive' = [drive EXCEPT ![d].at = IF synced THEN "driving" ELSE "ending",
                              ![d].next = time + 1]
    /\ UNCHANGED <<time, setBack, born, parked, archive, keeper, late>>

\* _keepalive: one attempt per period; the first refusal ends it.
Renew(d) ==
    /\ drive[d].at = "driving" /\ drive[d].next <= time /\ short = Nobody
    /\ IF SameGrant(d) /\ current.renewed <= time /\ time < current.expires
       THEN /\ Changes([current EXCEPT !.renewed = time, !.expires = time + Ttl])
            /\ drive' = [drive EXCEPT ![d].handle = current', ![d].next = time + 1,
                                      ![d].failed = 0]
       ELSE /\ IF SameGrant(d) /\ time < current.renewed
               THEN drive' = [drive EXCEPT ![d].failed = @ + 1, ![d].next = time + 1,
                     ![d].at = IF drive[d].failed + 1 >= MaxRenewFailures THEN "lost" ELSE @]
               ELSE Moves(d, "lost")
            /\ UNCHANGED <<current, late>>
    /\ UNCHANGED <<time, setBack, born, parked, archive, short, keeper, replaced, troubles>>
\* A renewal that fails some other way is counted.
RenewFails(d) ==
    /\ drive[d].at = "driving" /\ drive[d].next <= time /\ Trouble
    /\ drive' = [drive EXCEPT ![d].failed = @ + 1, ![d].next = time + 1,
                              ![d].at = IF drive[d].failed + 1 >= MaxRenewFailures
                                        THEN "lost" ELSE @]
    /\ UNCHANGED <<time, setBack, born, files, short, keeper, marks>>

\* close, and _give_back of an acquire that raised: the run's own grant is released,
\* also after it lapsed; whatever else is left alone.  The process ends.
Close(d) ==
    /\ drive[d].at \in {"driving", "lost", "ending"} /\ short = Nobody
    /\ IF SameGrant(d) /\ current.renewed <= time
       THEN Changes([current EXCEPT !.released = TRUE, !.ended = time])
       ELSE UNCHANGED <<current, late>>
    /\ drive' = [drive EXCEPT ![d] = NoDrive]
    /\ UNCHANGED <<time, setBack, born, parked, archive, short, keeper, replaced, troubles>>

-----------------------------------------------------------------------------
(* The archive of ended leases                                             *)

Ended(r) == IF r.released THEN r.ended ELSE r.expires
\* _run_entries: the current lease ended at or before the cutoff.
Archivable == current # NoRecord /\ Ended(current) + MinAge <= time

ArchivePlan ==
    /\ keeper = "idle" /\ Archivable /\ keeper' = "planned"
    /\ UNCHANGED <<time, setBack, born, drive, files, short, marks, troubles>>
\* What was planned is moved, without another look.
ArchiveTrusting ==
    /\ keeper = "planned" /\ short = Nobody /\ keeper' = "moving" /\ short' = Keeper
    /\ UNCHANGED <<time, setBack, born, drive, files, marks, troubles>>
\* Under the lock it is planned again.
ArchiveReplans ==
    /\ keeper = "planned" /\ short = Nobody
    /\ IF Archivable THEN keeper' = "moving" /\ short' = Keeper
                     ELSE keeper' = "idle" /\ short' = short
    /\ UNCHANGED <<time, setBack, born, drive, files, marks, troubles>>
\* The manifest's files one by one: every copy, oldest first, then the current record.
ArchiveMoves ==
    /\ keeper = "moving"
    /\ IF parked # {}
       THEN /\ \E c \in parked : /\ \A e \in parked : c.generation <= e.generation
                                 /\ parked' = parked \ {c} /\ archive' = archive \cup {c}
            /\ UNCHANGED <<current, short, keeper>>
       ELSE IF current # NoRecord
       THEN /\ archive' = archive \cup {current} /\ current' = NoRecord
            /\ UNCHANGED <<parked, short, keeper>>
       ELSE /\ keeper' = "idle" /\ short' = Nobody /\ UNCHANGED files
    /\ UNCHANGED <<time, setBack, born, drive, marks, troubles>>

-----------------------------------------------------------------------------
(* What happens to processes and to the clock                              *)

\* A driver is killed, or its host reboots: a host has at most one driver of the run.
DriverDies(d) ==
    /\ drive[d].life # 0 /\ Trouble
    /\ drive' = [drive EXCEPT ![d] = NoDrive]
    /\ short' = IF short = d THEN Nobody ELSE short
    /\ UNCHANGED <<time, setBack, born, files, keeper, marks>>
ArchiverDies ==
    /\ keeper # "idle" /\ Trouble /\ keeper' = "idle"
    /\ short' = IF short = Keeper THEN Nobody ELSE short
    /\ UNCHANGED <<time, setBack, born, drive, files, marks>>
LeaseTick ==
    /\ time < MaxTime /\ time' = time + 1
    /\ UNCHANGED <<setBack, born, drive, files, short, keeper, marks, troubles>>
ClockSetBack ==
    /\ time > 0 /\ Trouble /\ time' = time - 1 /\ setBack' = TRUE
    /\ UNCHANGED <<born, drive, files, short, keeper, marks>>

LeaseNext ==
    \/ \E d \in Driver : \/ Starts(d) \/ Acquire(d) \/ Renew(d) \/ RenewFails(d) \/ Close(d)
                         \/ DriverDies(d) \/ \E synced \in BOOLEAN : WriteGrant(d, synced)
    \/ ArchivePlan \/ ArchiveReplans \/ ArchiveMoves \/ ArchiverDies
    \/ LeaseTick \/ ClockSetBack

LeaseSpec == LeaseInit /\ [][LeaseNext]_leaseVars

-----------------------------------------------------------------------------
(* Properties                                                              *)

Record == [holder : Nat, by : Driver \cup {"none"}, generation : Nat, acquired : Nat,
           renewed : Nat, expires : Nat, released : BOOLEAN, ended : Nat]
Drive == [life : Nat, at : {"off", "locked", "parked", "driving", "lost", "ending"},
          handle : Record, next : Nat, failed : Nat]

\* Every variable keeps to its type.
LeaseTypeOK ==
    /\ time \in Nat /\ setBack \in BOOLEAN /\ born \in Nat /\ drive \in [Driver -> Drive]
    /\ current \in Record /\ parked \subseteq Record /\ archive \subseteq Record
    /\ short \in Driver \cup {Nobody, Keeper} /\ keeper \in {"idle", "planned", "moving"}
    /\ replaced \subseteq Record

\* A lease stands until it has run out: until then the record is its driver's, whom no
\* takeover from whatever host or namespace and no archive displaced; a keepalive that gave
\* up after failures gave up a lease that had lapsed; and a copy in the way of a takeover
\* is the doing of a holder that came back late, never of an archive that stopped half-way.
GrantIsExclusive ==
    \A d \in Driver :
       drive[d].at \in {"driving", "lost"} /\ time < drive[d].handle.expires /\ ~setBack
          => current = drive[d].handle
GivenUpIsLapsed ==
    \A d \in Driver : drive[d].at = "lost" /\ ~setBack => drive[d].handle.expires <= time
ConflictsAreLate ==
    current # NoRecord /\ Conflicts(current) => current.generation \in late
LeaseStands == GrantIsExclusive /\ GivenUpIsLapsed /\ ConflictsAreLate

\* Nothing is deleted: a record that was replaced is parked or archived, whatever died.
ReplacedIsKept ==
    \A r \in replaced : \E c \in parked \cup archive : c = r

\* A lease stands while it lasts and stays on record when it is replaced.
LeaseIsKept == LeaseStands /\ ReplacedIsKept

\* A record leaves the directory for the archive only when it ended MinAge ago.
ArchivedHasEnded ==
    [][current # NoRecord /\ current' = NoRecord /\ ~setBack'
          => Ended(current) + MinAge <= time]_leaseVars

-----------------------------------------------------------------------------
(* The inductive invariant behind LeaseStands and ReplacedIsKept.          *)

\* A driver that does something is a process of its own.
LivesAreDistinct ==
    \A d \in Driver :
       /\ drive[d].life <= born /\ (drive[d].at # "off" => drive[d].life # 0)
       /\ \A e \in Driver : e # d /\ drive[d].life = drive[e].life => drive[d].life = 0
\* The short lock is held by the archive while it moves and by a driver between its two
\* writes.
ShortIsHeld ==
    /\ keeper = "moving" <=> short = Keeper
    /\ \A d \in Driver : drive[d].at = "parked" => short = d
\* A handle is its process's grant, for one lifetime.
HandlesAreOwn ==
    \A d \in Driver :
       /\ drive[d].at \in {"parked", "driving", "lost", "ending"}
             => drive[d].handle.holder = drive[d].life /\ ~drive[d].handle.released
       /\ drive[d].at \in {"parked", "driving", "lost"}
             => drive[d].handle.expires = drive[d].handle.renewed + Ttl
\* Copies are of the generations up to the current one.
CopiesArePast ==
    /\ current = NoRecord => parked = {}
    /\ \A c \in parked : c.generation <= current.generation
\* Between its two writes a driver has parked what it replaces, which nobody drives on.
ParkedIsReplaceable ==
    \A d \in Driver : drive[d].at = "parked" =>
       /\ drive[d].handle.generation = current.generation + 1
       /\ current # NoRecord => current \in parked
       /\ \A e \in Driver : drive[e].at \in {"driving", "lost"} /\ ~setBack
                               => drive[e].handle.expires <= time
\* What the archive moves has ended.
MovedHasEnded ==
    keeper = "moving" /\ current # NoRecord /\ ~setBack => Ended(current) + MinAge <= time
\* Renewals lie in the past, and a driver that failed to renew waited a period each time.
RenewalsArePast ==
    ~setBack => /\ current.renewed <= time
                /\ \A d \in Driver : drive[d].handle.renewed <= time
PeriodsPass ==
    \A d \in Driver :
       /\ drive[d].at \in {"off", "locked", "parked"} => drive[d].failed = 0
       /\ drive[d].at = "driving" /\ ~setBack
             => drive[d].next >= drive[d].handle.renewed + 1 + drive[d].failed
StandsInv ==
    /\ LivesAreDistinct /\ ShortIsHeld /\ HandlesAreOwn /\ CopiesArePast
    /\ ParkedIsReplaceable /\ MovedHasEnded /\ RenewalsArePast /\ PeriodsPass
    /\ GrantIsExclusive /\ GivenUpIsLapsed /\ ConflictsAreLate
=============================================================================
