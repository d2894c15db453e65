------------------------------ MODULE Admission ------------------------------
(***************************************************************************)
(* Storage admission (storage_pressure.py): one ledger per filesystem,     *)
(* shared by every controller of the machine.  Each decision is taken      *)
(* under the flock on the ledger and is one step here.  Free space is      *)
(* counted in small units; the host volume under the guest may be          *)
(* unobservable for a while.                                               *)
(***************************************************************************)
EXTENDS Integers, Sequences, FiniteSets, FiniteSetsExt, Sums

CONSTANTS Process, Namespace, Pid,
          Default,                          \* the policy's estimate of an operation
          Asked,                            \* estimates a caller may ask for
          CriticalBelow, Reserve, PressureBelow, NormalAt, Hysteresis,
          InodeFloor, InodeHysteresis, InodeCritical, InodePressure, InodeNormal, InodeSlack,
          HistoryWindow, HostMaxAge,
          HostFree, GuestFree, Inodes,      \* what is free at the start
          MaxReservations, MaxClock, MaxHappenings   \* bounds

ASSUME AdmissionAssumption ==
    /\ \A n \in {Default, Hysteresis, InodeFloor, InodeHysteresis, InodeSlack, HistoryWindow,
                 HostMaxAge, HostFree, GuestFree, Inodes, MaxReservations, MaxClock,
                 MaxHappenings, CriticalBelow, Reserve, PressureBelow, NormalAt,
                 InodeCritical, InodePressure, InodeNormal} : n \in Nat
    /\ CriticalBelow < Reserve /\ Reserve < PressureBelow /\ PressureBelow < NormalAt
    /\ InodeCritical < InodePressure /\ InodePressure < InodeNormal
    /\ HistoryWindow # 0 /\ Asked \subseteq Nat /\ IsFiniteSet(Process)

VARIABLES
    boot,        \* the boot id of the machine
    record,      \* namespace.json: the namespace the boot belongs to, and whether it is claimed
    proc,        \* the controllers: identity, and the reservation in hand
    file,        \* reservations/<id>.json, .closed, .stale
    history,     \* history.jsonl
    reading,     \* host_last.json
    press,       \* state.json: the severity, or NoState
    host, guest, inodes,
    hostSeen,    \* whether the host volume can be observed
    clock,
    unpromised,  \* history: bytes gone since the last admission that saw the host,
                 \* beyond what live reservations promise
    happened     \* disturbances so far

ledger == <<record, file, history, reading, press>>
admVars == <<boot, record, proc, file, history, reading, press, host, guest, inodes, hostSeen,
             clock, unpromised, happened>>

Id == 1..MaxReservations
NORMAL == 0
OPTIMIZE == 1
PRESSURE == 2
CRITICAL == 3
NoState == -1
Unreadable == -1                \* a start time that cannot be read
Unknown == -100                 \* a figure that cannot be had
NoFile == [at |-> "none", pid |-> 0, start |-> 0, ns |-> "none", boot |-> 0, est |-> 0,
           opened |-> 0, ok |-> TRUE]
Down == [up |-> FALSE, pid |-> 0, start |-> 0, ns |-> "none", hold |-> 0, wrote |-> 0,
         child |-> FALSE]

AdmInit ==
    /\ boot = 1 /\ record = [boot |-> 0, ns |-> "none", claimed |-> FALSE]
    /\ proc = [p \in Process |-> Down] /\ file = [r \in Id |-> NoFile] /\ history = <<>>
    /\ reading = [free |-> 0, at |-> Unknown] /\ press = NoState
    /\ host = HostFree /\ guest = GuestFree /\ inodes = Inodes /\ hostSeen = TRUE
    /\ clock = 0 /\ unpromised = 0
    /\ happened = 0

Happens == happened < MaxHappenings /\ happened' = happened + 1
Alive(n, i) == \E p \in Process : proc[p].up /\ proc[p].ns = n /\ proc[p].pid = i

-----------------------------------------------------------------------------
(* The state tracker                                                       *)

Worse(a, b) == IF a >= b THEN a ELSE b

\* inode_axis, with a total that is known: the absolute floor, then the shares.
InodeAxis(n, floor) ==
    CASE n < floor -> CRITICAL
      [] n >= floor /\ n < InodeCritical -> CRITICAL
      [] n >= floor /\ n >= InodeCritical /\ n < InodePressure -> PRESSURE
      [] n >= floor /\ n >= InodePressure /\ n < InodeNormal -> OPTIMIZE
      [] OTHER -> NORMAL

ByteAxis(free) ==
    CASE free < CriticalBelow -> CRITICAL
      [] free >= CriticalBelow /\ free < PressureBelow -> PRESSURE
      [] free >= PressureBelow /\ free < NormalAt -> OPTIMIZE
      [] OTHER -> NORMAL

Classify(free, n, floor) == Worse(ByteAxis(free), InodeAxis(n, floor))

\* update: worse at once, better only when the boundary is cleared.
Update(prev, free, unknown) ==
    LET raw == Classify(free, inodes, InodeFloor)
        floor == InodeFloor + (IF prev = CRITICAL THEN InodeHysteresis ELSE 0)
        cleared == Classify(free - Hysteresis, inodes - InodeSlack, floor)
        state == CASE raw >= prev -> raw
                   [] raw < prev /\ cleared < prev -> cleared
                   [] OTHER -> prev
    IN  IF unknown THEN Worse(state, PRESSURE) ELSE state

-----------------------------------------------------------------------------
(* Reading the ledger                                                      *)

ClaimedFor(b) == record.claimed /\ record.boot = b

\* _namespace_refusal
NamespaceOk(p) == ClaimedFor(boot) /\ record.ns = proc[p].ns

\* A start time that could not be read when the reservation was made counts as another one.
IsStaleUnread(f, n) ==
    \/ f.boot # boot
    \/ /\ f.ns = n
       /\ \A q \in Process : ~(/\ proc[q].up /\ proc[q].ns = f.ns /\ proc[q].pid = f.pid
                               /\ proc[q].start = f.start)

\* _is_stale: an owner of another boot, or one whose pid is dead or somebody else's.
IsStale(f, n) ==
    \/ f.boot # boot
    \/ /\ f.ns = n
       /\ \/ ~Alive(f.ns, f.pid)
          \/ /\ f.start # Unreadable
             /\ \E q \in Process : /\ proc[q].up /\ proc[q].ns = f.ns /\ proc[q].pid = f.pid
                                   /\ proc[q].start # f.start

Readable(state) == {r \in Id : file[r].at = state /\ file[r].ok}
Malformed == {r \in Id : file[r].at = "open" /\ ~file[r].ok}
StaleNow(n) == {r \in Readable("open") : IsStale(file[r], n)}
Counted(n) == Readable("open") \ StaleNow(n)
Estimates == [r \in Id |-> file[r].est]
Reserved(n) == Total(Estimates, Counted(n))

\* _scan with rename: what is found stale is renamed and stays.
Scanned(n) == [r \in Id |-> IF r \in StaleNow(n) THEN [file[r] EXCEPT !.at = "stale"]
                                                 ELSE file[r]]

\* estimate: the default, or 1.5 times the 95th percentile of the last actuals.
Actuals == LET n == Len(history) IN
           SubSeq(history, IF n > HistoryWindow THEN n - HistoryWindow + 1 ELSE 1, n)
P95 ==
    LET s == Actuals
        k == (19 * Len(s) + 19) \div 20
    IN  CHOOSE a \in {s[i].actual : i \in DOMAIN s} :
           /\ Cardinality({i \in DOMAIN s : s[i].actual < a}) < k
           /\ Cardinality({i \in DOMAIN s : s[i].actual <= a}) >= k
Estimate(asked) ==
    LET known == IF history = <<>> THEN Default
                 ELSE Max({Default, (3 * P95 + 1) \div 2})
    IN  Max({asked, known})

HostIsKnown == reading.at # Unknown /\ clock - reading.at < HostMaxAge
OpenedSince ==
    Total(Estimates, {r \in Readable("open") \cup Readable("stale") \cup Readable("closed") :
                        file[r].opened >= reading.at})
ReleasedSince ==
    Total([i \in DOMAIN history |-> history[i].actual],
          {i \in DOMAIN history : history[i].closed >= reading.at})

\* Mutant: a host term that forgets what older reservations wrote before they were released.
HostTermOpened == IF HostIsKnown THEN reading.free - OpenedSince ELSE Unknown

\* _host_term: the last reading, less what was promised or released since.
HostTerm == IF HostIsKnown THEN reading.free - OpenedSince - ReleasedSince ELSE Unknown

\* Observation.effective_free_bytes, with the derived host term where one is needed.
HostFigure == IF hostSeen THEN host ELSE HostTerm
Seen == IF HostFigure = Unknown THEN guest ELSE Min({guest, HostFigure})
Effective == IF HostFigure = Unknown THEN Unknown ELSE Seen

\* _assess: observe, update the persisted state, keep a successful host reading.
Assess ==
    /\ press' = Update(press, Seen, ~hostSeen)
    /\ reading' = IF hostSeen THEN [free |-> host, at |-> clock] ELSE reading

\* _decide
Admits(p, est) ==
    /\ NamespaceOk(p)
    /\ Malformed = {}
    /\ Update(press, Seen, ~hostSeen) # CRITICAL
    /\ Effective # Unknown
    /\ Effective - Reserved(proc[p].ns) - est >= Reserve

-----------------------------------------------------------------------------
(* Operations of a controller                                              *)

\* storage_admission: _create_ledger on the first use, then claim_boot.  A
\* controller of another namespace than the one that claimed the boot is refused.
Start(p, i, n) ==
    /\ ~proc[p].up /\ ~Alive(n, i) /\ clock < MaxClock
    /\ ~ClaimedFor(boot) \/ record.ns = n
    /\ record' = IF ClaimedFor(boot) THEN record
                 ELSE [boot |-> boot, ns |-> n, claimed |-> TRUE]
    /\ clock' = clock + 1
    /\ proc' = [proc EXCEPT ![p] = [Down EXCEPT !.up = TRUE, !.pid = i, !.ns = n,
                                                !.start = clock + 1, !.wrote = 0]]
    /\ UNCHANGED <<boot, file, history, reading, press, host, guest, inodes, hostSeen,
                   unpromised, happened>>

\* reserve, refused; and would_admit, status, observe, stale_reservations: they
\* read, keep the observation, and rename what they find stale (would_admit does not).
Look(p, rename) ==
    /\ proc[p].up
    /\ Assess
    /\ file' = IF rename THEN Scanned(proc[p].ns) ELSE file
    /\ UNCHANGED <<boot, record, proc, history, host, guest, inodes, hostSeen, clock,
                   unpromised, happened>>

\* reserve, admitted.
Admit(p, r, asked, readable) ==
    /\ proc[p].up /\ proc[p].hold = 0 /\ file[r].at = "none"
    /\ \A s \in Id : s < r => file[s].at # "none"
    /\ LET est == Estimate(asked) IN
       /\ Admits(p, est)
       /\ file' = [Scanned(proc[p].ns) EXCEPT ![r] =
                     [at |-> "open", pid |-> proc[p].pid,
                      start |-> IF readable THEN proc[p].start ELSE Unreadable,
                      ns |-> proc[p].ns, boot |-> boot, est |-> est, opened |-> clock,
                      ok |-> TRUE]]
    /\ Assess
    /\ proc' = [proc EXCEPT ![p].hold = r, ![p].wrote = 0, ![p].child = TRUE]
    /\ unpromised' = IF hostSeen THEN 0 ELSE unpromised
    /\ UNCHANGED <<boot, record, history, host, guest, inodes, hostSeen, clock, happened>>

Rest(f, wrote) == IF f.est > wrote THEN f.est - wrote ELSE 0

\* The admitted operation writes; past its estimate nothing stops it.
Write(p) ==
    /\ proc[p].up /\ proc[p].hold # 0 /\ host > 0 /\ guest > 0
    /\ proc[p].wrote <= file[proc[p].hold].est
    /\ host' = host - 1 /\ guest' = guest - 1
    /\ proc' = [proc EXCEPT ![p].wrote = @ + 1]
    /\ unpromised' = IF proc[p].wrote < file[proc[p].hold].est THEN unpromised
                                                               ELSE unpromised + 1
    /\ UNCHANGED <<boot, ledger, inodes, hostSeen, clock, happened>>

Recorded(r) == \E i \in DOMAIN history : history[i].id = r

\* release: the record first, then the rename.
ReleaseWrites(r, actual, outcome) ==
    /\ history' = IF outcome = "unwritten" THEN history
                  ELSE Append(history, [id |-> r, actual |-> actual, closed |-> clock])
    /\ file' = IF outcome = "closed" /\ file[r].at = "open"
               THEN [file EXCEPT ![r].at = "closed"] ELSE file

\* The dispatch is over: release, whatever its outcome.  The controller notes a
\* failure and goes on; a reservation judged stale is recorded, and only once.
Release(p, outcome) ==
    LET r == proc[p].hold IN
    /\ proc[p].up /\ r # 0
    /\ outcome # "closed" => Happens
    /\ outcome = "closed" => happened' = happened
    /\ IF file[r].at = "open" \/ (file[r].at = "stale" /\ ~Recorded(r))
       THEN ReleaseWrites(r, proc[p].wrote, outcome) ELSE UNCHANGED <<file, history>>
    /\ proc' = [proc EXCEPT ![p].hold = 0, ![p].wrote = 0, ![p].child = FALSE]
    /\ unpromised' = unpromised + IF outcome = "unwritten" THEN proc[p].wrote ELSE 0
    /\ UNCHANGED <<boot, record, reading, press, host, guest, inodes, hostSeen, clock>>

-----------------------------------------------------------------------------
(* Everybody else                                                          *)

\* A controller is killed; the role it started may go on (here: writes once more).
Killed(p) ==
    /\ proc[p].up /\ Happens
    /\ proc' = [proc EXCEPT ![p] = [Down EXCEPT !.child = proc[p].child]]
    /\ unpromised' = unpromised + proc[p].wrote
    /\ UNCHANGED <<boot, ledger, host, guest, inodes, hostSeen, clock>>

OrphanWrites(p) ==
    /\ ~proc[p].up /\ proc[p].child /\ host > 0 /\ guest > 0
    /\ host' = host - 1 /\ guest' = guest - 1 /\ unpromised' = unpromised + 1
    /\ proc' = [proc EXCEPT ![p].child = FALSE]
    /\ UNCHANGED <<boot, ledger, inodes, hostSeen, clock, happened>>

Reboot ==
    /\ Happens /\ boot' = boot + 1
    /\ proc' = [p \in Process |-> Down]
    /\ unpromised' = unpromised + Total([p \in Process |-> proc[p].wrote], Process)
    /\ UNCHANGED <<ledger, host, guest, inodes, hostSeen, clock>>

\* Foreign data comes and goes; a reservation file is damaged; the host is seen or not.
Foreign(d) ==
    /\ Happens /\ host + d >= 0 /\ host' = host + d
    /\ unpromised' = unpromised + IF d < 0 THEN -d ELSE 0
    /\ UNCHANGED <<boot, ledger, proc, guest, inodes, hostSeen, clock>>
ForeignInodes(n) ==
    /\ Happens /\ inodes' = n
    /\ UNCHANGED <<boot, ledger, proc, host, guest, hostSeen, clock, unpromised>>
Damage(r) ==
    /\ file[r].at = "open" /\ file[r].ok /\ Happens
    /\ file' = [file EXCEPT ![r].ok = FALSE]
    /\ UNCHANGED <<boot, record, proc, history, reading, press, host, guest, inodes, hostSeen,
                   clock, unpromised>>
HostSight ==
    /\ Happens /\ hostSeen' = ~hostSeen
    /\ UNCHANGED <<boot, ledger, proc, host, guest, inodes, clock, unpromised>>
AdmTick ==
    /\ clock < MaxClock /\ clock' = clock + 1
    /\ UNCHANGED <<boot, ledger, proc, host, guest, inodes, hostSeen, unpromised,
                   happened>>

AdmNext ==
    \/ \E p \in Process, i \in Pid, n \in Namespace : Start(p, i, n)
    \/ \E p \in Process, rename \in BOOLEAN : Look(p, rename)
    \/ \E p \in Process, r \in Id, asked \in Asked, readable \in BOOLEAN :
          Admit(p, r, asked, readable)
    \/ \E p \in Process : Write(p)
    \/ \E p \in Process, outcome \in {"unwritten", "unrenamed", "closed"} : Release(p, outcome)
    \/ \E p \in Process : Killed(p)
    \/ \E p \in Process : OrphanWrites(p)
    \/ Reboot
    \/ \E d \in {-1, 1} : Foreign(d)
    \/ \E n \in {0, Inodes} : ForeignInodes(n)
    \/ \E r \in Id : Damage(r)
    \/ HostSight
    \/ AdmTick

AdmSpec == AdmInit /\ [][AdmNext]_admVars

-----------------------------------------------------------------------------
(* Properties                                                              *)

Holding == {p \in Process : proc[p].up /\ proc[p].hold # 0}
Owed == [p \in Holding |-> Rest(file[proc[p].hold], proc[p].wrote)]

\* What live operations may still write is there, and the reserve with it: no byte is
\* promised twice.  What nobody promised (foreign data, an operation beyond its estimate,
\* an orphaned role, a holder that died or could not record what it wrote) is set apart
\* until an admission sees the host again.
SpaceIsCovered ==
    Holding # {} =>
       Min({host, guest}) + unpromised >= Reserve + Total(Owed, Holding)

\* The ledger tells the truth, whatever failed on the way: the reservation of a live
\* operation is never judged stale, whatever pids are reused, namespaces enter and boots
\* pass; and what a closed one wrote is in the history, on which later estimates rest.
LiveIsCounted == \A p \in Holding : file[proc[p].hold].at = "open"
ClosedIsRecorded == \A r \in Id : file[r].at = "closed" => Recorded(r)
LedgerIsTrue == LiveIsCounted /\ ClosedIsRecorded

\* What is promised is there, and what is there is on the ledger.
SpaceIsAccounted == SpaceIsCovered /\ LedgerIsTrue

-----------------------------------------------------------------------------
(* Why it holds: an invariant that every step keeps                        *)

ControllerRecord ==
    [up : BOOLEAN, pid : Pid \cup {0}, start : Nat, ns : Namespace \cup {"none"},
     hold : Id \cup {0}, wrote : Nat, child : BOOLEAN]
ReservationRecord ==
    [at : {"none", "open", "stale", "closed"}, pid : Pid \cup {0},
     start : Nat \cup {Unreadable}, ns : Namespace \cup {"none"}, boot : Nat,
     est : Nat, opened : Nat, ok : BOOLEAN]
AdmTypeOK ==
    /\ boot \in Nat /\ clock \in Nat /\ host \in Nat /\ guest \in Nat /\ inodes \in Nat
    /\ unpromised \in Nat /\ happened \in Nat /\ hostSeen \in BOOLEAN /\ press \in -1..3
    /\ record \in [boot : Nat, ns : Namespace \cup {"none"}, claimed : BOOLEAN]
    /\ proc \in [Process -> ControllerRecord] /\ file \in [Id -> ReservationRecord]
    /\ history \in Seq([id : Id, actual : Nat, closed : Nat])
    /\ reading \in [free : Nat, at : Nat \cup {Unknown}]

\* Who lives has its identity to itself, and its reservation is in its name.
OneLives == \A p, q \in Process :
    (proc[p].up /\ proc[q].up /\ proc[p].ns = proc[q].ns /\ proc[p].pid = proc[q].pid) => p = q
InItsName(p) == LET f == file[proc[p].hold] IN
    /\ f.at = "open" /\ f.boot = boot /\ f.pid = proc[p].pid /\ f.ns = proc[p].ns
    /\ f.start \in {proc[p].start, Unreadable}
HoldersLive == \A p \in Process : proc[p].hold # 0 => proc[p].up /\ InItsName(p)

\* What is gone from the host since it was last seen was written by an operation that is still
\* at work, or is in the history as written since, or nobody promised it.
Promised == [p \in Holding |-> file[proc[p].hold].est]
GoneIsKnown ==
    reading.at # Unknown =>
       /\ reading.at <= clock
       /\ host + unpromised + ReleasedSince + Total(Promised, Holding)
             >= reading.free + Total(Owed, Holding)

AdmInv == /\ AdmTypeOK /\ OneLives /\ HoldersLive /\ GoneIsKnown
          /\ SpaceIsCovered /\ ClosedIsRecorded
=============================================================================
