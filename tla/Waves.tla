-------------------------------- MODULE Waves --------------------------------
(***************************************************************************)
(* The shared dispatch budget and the waves that spend it: the holds       *)
(* (reservation.py), the launcher that takes and ends them (launcher.py),  *)
(* the round that launches several nodes at once (orchestrator.py,         *)
(* wave.py), the outcome it leaves, and the recovery of the holds of a     *)
(* dead controller (waverecovery.py).  Sessions drive the project one      *)
(* after another; a master that froze may go on beside its successor.      *)
(* Every node has one run; nodes are numbered as the planner orders them.  *)
(***************************************************************************)
EXTENDS Naturals, FiniteSets, Sums

CONSTANTS Session, Nodes, Budget, Want, Keep, MaxRounds, MaxAttempts, MaxWaits,
          MaxFaults                                        \* bound

Member == 1..Nodes

ASSUME WavesAssumption ==
    /\ Nodes \in Nat \ {0} /\ Budget \in Nat \ {0} /\ Want \in Nat \ {0}
    /\ Keep \in [Member -> 0..Budget - 1] /\ MaxRounds \in Nat \ {0}
    /\ MaxAttempts \in Nat \ {0} /\ MaxWaits \in Nat
    /\ Session \cap {"none", "gone", "any"} = {}

VARIABLES
    hold,       \* the ledger: the open hold of every run, and whose launcher knows its id
    job,        \* the runs: made, begun, alive and launched by whom; ceiling and spend
    life,       \* the lifecycles of the nodes on file
    outcomes,   \* the wave outcomes that are OPEN
    master,     \* the session that has the leader lease
    drive,      \* every session's drive
    overtaken,  \* history: a session was replaced after its launches were authorised
    faults

waveVars == <<hold, job, life, outcomes, master, drive, overtaken, faults>>

NoHold == [id |-> 0, amount |-> 0, by |-> "gone"]
NewJob == [made |-> FALSE, began |-> FALSE, live |-> FALSE, by |-> "gone", ceiling |-> 0,
           spent |-> 0]
Asleep == [at |-> "off", rounds |-> 0, seen |-> [n \in Member |-> "READY"],
           todo |-> {}, proven |-> {},
           many |-> FALSE, asked |-> {}, wave |-> {},
           back |-> {}, flying |-> {}]

WaveInit ==
    /\ hold = [n \in Member |-> NoHold] /\ job = [n \in Member |-> NewJob]
    /\ life = [n \in Member |-> "READY"] /\ outcomes = {} /\ master = "none"
    /\ drive = [s \in Session |-> Asleep] /\ overtaken = FALSE /\ faults = 0

Fault == faults < MaxFaults /\ faults' = faults + 1
NoFault == faults' = faults
In(s, at) == drive[s].at = at
Least(ns) == CHOOSE n \in ns : \A m \in ns : n <= m

-----------------------------------------------------------------------------
(* reservation.py                                                          *)

Larger(a, b) == IF a > b THEN a ELSE b
SpentBy(ns) == Total([n \in Member |-> job[n].spent], ns)
\* A run that holds is committed to what it holds, or to what it has spent if that is more.
Uses == [n \in Member |-> Larger(job[n].spent, hold[n].amount)]
Committed(ns) == Total(Uses, ns)

\* Mutant: what other runs hold is not counted.
LeftOfSpend(n) == LET used == SpentBy(Member \ {n}) IN IF used > Budget THEN 0 ELSE Budget - used
\* _left, for a run that is resumed: its own spend is part of what it is granted.
Left(n) == LET used == Committed(Member \ {n}) IN IF used > Budget THEN 0 ELSE Budget - used

\* The outcomes on file or in a reader's hand, what they and the recoveries name, and every
\* id there is.
Filed == outcomes \cup UNION {drive[s].todo : s \in Session}
Named == UNION ({o.holds : o \in Filed} \cup {drive[s].proven : s \in Session})
Names == {o.name : o \in Filed}
Known == {0} \cup {hold[n].id : n \in Member} \cup {h.id : h \in Named}
FreshId == CHOOSE i \in 1..Cardinality(Known) : i \notin Known
Granted(n, s) ==
    [id |-> FreshId, by |-> s,
     amount |-> IF Want < Left(n) - Keep[n] THEN Want ELSE Left(n) - Keep[n]]
\* reserve with _hold_arguments: a grant that the run has spent already is given up.
Grants(n) == Left(n) > Keep[n] /\ Granted(n, "any").amount > job[n].spent

\* settle: whatever the run holds.
Ended(h, n) == [h EXCEPT ![n] = NoHold]
\* settle_holds: the holds of these ids and no others.
EndedById(h, ids) == [n \in Member |-> IF h[n].id \in ids THEN NoHold ELSE h[n]]
SettleProven(h, proven) == EndedById(h, {p.id : p \in proven})

-----------------------------------------------------------------------------
(* The runs, and the sessions                                              *)

\* hoh run dispatches up to its ceiling, and ends.
Spend(n) ==
    /\ job[n].live /\ job[n].spent < job[n].ceiling
    /\ job' = [job EXCEPT ![n].spent = @ + 1]
    /\ UNCHANGED <<hold, life, outcomes, master, drive, overtaken, faults>>
Stop(n) ==
    /\ job[n].live /\ job' = [job EXCEPT ![n].live = FALSE]
    /\ UNCHANGED <<hold, life, outcomes, master, drive, overtaken, faults>>

IsMaster(s) == master = s
Bytes(o) == [o EXCEPT !.owner = "any"]
\* What the end of a process leaves: its runs live on, nobody owns its outcome.
Disowned(os, s) == {IF o.owner = s THEN [o EXCEPT !.owner = "gone"] ELSE o : o \in os}
Orphaned(j, s) == [n \in Member |-> IF j[n].by = s THEN [j[n] EXCEPT !.by = "gone"] ELSE j[n]]
Forgotten(h, s) == [n \in Member |-> IF h[n].by = s THEN [h[n] EXCEPT !.by = "gone"] ELSE h[n]]
Leave(s, h) ==
    /\ hold' = Forgotten(h, s)
    /\ drive' = [drive EXCEPT ![s] = Asleep] /\ outcomes' = Disowned(outcomes, s)
    /\ job' = Orphaned(job, s) /\ master' = IF IsMaster(s) THEN "none" ELSE master
Goes(s, at) ==
    drive' = [drive EXCEPT ![s].at = at] /\ UNCHANGED <<hold, outcomes, job, master>>

Drive(s) ==
    /\ In(s, "off") /\ (master = "none" \/ \E t \in Session : master = t /\ In(t, "off"))
    /\ master' = s
    /\ overtaken' = (overtaken \/ \E t \in Session : In(t, "running"))
    /\ drive' = [drive EXCEPT ![s].at = "recover", ![s].todo = {Bytes(o) : o \in outcomes}]
    /\ UNCHANGED <<hold, job, life, outcomes, faults>>

SessionDies(s) ==
    /\ ~In(s, "off") /\ Fault
    /\ drive' = [drive EXCEPT ![s] = Asleep] /\ outcomes' = Disowned(outcomes, s)
    /\ job' = Orphaned(job, s) /\ hold' = Forgotten(hold, s)
    /\ UNCHANGED <<life, master, overtaken>>
MasterLapses ==
    /\ \E s \in Session : IsMaster(s) /\ ~In(s, "off")
    /\ Fault /\ master' = "none"
    /\ UNCHANGED <<hold, job, life, outcomes, drive, overtaken>>

-----------------------------------------------------------------------------
(* waverecovery.py: recover_open                                           *)

Next0(s) == CHOOSE o \in drive[s].todo : \A p \in drive[s].todo : o.name <= p.name
OnFile(b) == {o \in outcomes : Bytes(o) = b}
Skipped(s, b) == [drive EXCEPT ![s].todo = @ \ {b}, ![s].at = "recover"]
OwnerAlive(o, s) == o.owner \notin {"gone", s}

\* Mutant: an attempt is not counted.
CountedWaits(o, s) == IF OwnerAlive(o, s) THEN [o EXCEPT !.waits = @ + 1] ELSE o
\* An outcome whose owner lives is waited for, others are recovered.  Every attempt and every
\* wait is counted before it is made; past the bound the outcome is abandoned.
Counted(o, s) ==
    IF OwnerAlive(o, s) THEN [o EXCEPT !.waits = @ + 1] ELSE [o EXCEPT !.attempts = @ + 1]
Exhausted(o, s) ==
    o.attempts >= MaxAttempts \/ (OwnerAlive(o, s) /\ o.waits >= MaxWaits)
Consider(s) ==
    /\ In(s, "recover") /\ drive[s].todo # {}
    /\ LET b == Next0(s)
           o == CHOOSE o \in OnFile(b) : TRUE
       IN IF ~IsMaster(s) THEN Leave(s, hold)
          ELSE /\ IF OnFile(b) = {}
                  THEN drive' = Skipped(s, b) /\ UNCHANGED outcomes
                  ELSE IF Exhausted(o, s)
                  THEN outcomes' = outcomes \ {o} /\ drive' = Skipped(s, b)
                  ELSE /\ outcomes' = (outcomes \ {o}) \cup {Counted(o, s)}
                       /\ drive' = IF OwnerAlive(o, s) THEN Skipped(s, b)
                                   ELSE [drive EXCEPT ![s].at = "claim",
                                           ![s].todo = (@ \ {b}) \cup {Bytes(Counted(o, s))}]
               /\ UNCHANGED <<hold, job, master>>
    /\ UNCHANGED <<life, overtaken, faults>>

\* A record that says SETTLED is settled again.  Otherwise the project state is claimed,
\* and every READY node of the wave must be shown to be idle.
Claim(s) ==
    /\ In(s, "claim")
    /\ LET b == Next0(s)
           idle == {h \in b.holds : life[h.node] = "READY"}
       IN \/ /\ b.settled /\ NoFault
             /\ hold' = EndedById(hold, {h.id : h \in {h \in b.holds : h.node \notin b.flying}})
             /\ outcomes' = outcomes \ OnFile(b) /\ drive' = Skipped(s, b)
             /\ UNCHANGED <<job, master>>
          \/ /\ ~b.settled /\ NoFault
             /\ IF ~IsMaster(s) THEN Leave(s, hold)
                ELSE /\ UNCHANGED hold
                     /\ drive' = IF \E h \in idle : job[h.node].live THEN Skipped(s, b)
                                 ELSE [drive EXCEPT ![s].at = "end", ![s].proven = idle]
                     /\ UNCHANGED <<outcomes, job, master>>
          \/ /\ ~b.settled /\ NoFault                   \* a run that cannot be read
             /\ drive' = Skipped(s, b) /\ UNCHANGED <<hold, outcomes, job, master>>
    /\ UNCHANGED <<life, overtaken>>

\* The holds end by their ids; then the outcome is closed, unless the session dies first.
EndProven(s) ==
    /\ In(s, "end")
    /\ \/ /\ NoFault /\ hold' = SettleProven(hold, drive[s].proven)
          /\ outcomes' = outcomes \ OnFile(Next0(s))
          /\ drive' = [Skipped(s, Next0(s)) EXCEPT ![s].proven = {}]
          /\ UNCHANGED <<job, master>>
       \/ Fault /\ Leave(s, SettleProven(hold, drive[s].proven))
    /\ UNCHANGED <<life, overtaken>>

\* The recovery is over: the state is read again.
Recovered(s) ==
    /\ In(s, "recover") /\ drive[s].todo = {}
    /\ drive' = [drive EXCEPT ![s].at = "boot", ![s].seen = life]
    /\ UNCHANGED <<hold, job, life, outcomes, master, overtaken, faults>>

-----------------------------------------------------------------------------
(* The boot: what a dead session left RUNNING                              *)

Sees(s, lf) == {n \in Member : drive[s].seen[n] = lf}
Becomes == {"READY", "DONE"}

\* _persist: the state of every node, by the master, or the drive ends.
Persists(s, seen, at, h) ==
    IF IsMaster(s)
    THEN /\ life' = seen /\ hold' = h
         /\ drive' = [drive EXCEPT ![s].seen = seen, ![s].at = at]
         /\ UNCHANGED <<outcomes, job, master>>
    ELSE Leave(s, h) /\ UNCHANGED life

\* evaluate, and what follows: a live run is waited for, one that never began is work again
\* and keeps its hold, any other verdict ends the hold and settles the node.
Boot(s) ==
    /\ In(s, "boot") /\ Sees(s, "RUNNING") # {}
    /\ LET n == Least(Sees(s, "RUNNING")) IN
       \/ /\ job[n].live /\ Leave(s, hold) /\ UNCHANGED life
       \/ /\ ~job[n].live /\ ~job[n].began
          /\ Persists(s, [drive[s].seen EXCEPT ![n] = "READY"], "boot", hold)
       \/ /\ ~job[n].live /\ job[n].began
          /\ \E lf \in Becomes :
                Persists(s, [drive[s].seen EXCEPT ![n] = lf], "boot", Ended(hold, n))
    /\ UNCHANGED <<overtaken, faults>>
Booted(s) ==
    /\ In(s, "boot") /\ Sees(s, "RUNNING") = {} /\ Goes(s, "round")
    /\ UNCHANGED <<life, overtaken, faults>>

-----------------------------------------------------------------------------
(* A round: holds, outcome, admission                                      *)

\* More than one node is a wave.
Round(s) ==
    /\ In(s, "round")
    /\ IF Sees(s, "READY") = {} \/ drive[s].rounds = MaxRounds THEN Leave(s, hold)
       ELSE /\ drive' = [drive EXCEPT ![s].at = "prepare", ![s].rounds = @ + 1,
                                      ![s].asked = Sees(s, "READY"),
                                      ![s].many = Cardinality(Sees(s, "READY")) > 1,
                                      ![s].wave = {}, ![s].back = {}, ![s].flying = {}]
            /\ UNCHANGED <<hold, outcomes, job, master>>
    /\ UNCHANGED <<life, overtaken, faults>>

\* release_prepared_hold, for all of them: the hold this launcher took, and no other.
Mine(s, n) == hold[n].by = s
ReleasedAll(s, ns) == EndedById(hold, {hold[n].id : n \in {m \in ns : Mine(s, m)}})
\* The head of the round stops the drive; a later node is only left out of the wave.
LeftOut(s, n) ==
    IF drive[s].wave = {}
    THEN Leave(s, hold)
    ELSE /\ drive' = [drive EXCEPT ![s].asked = IF drive[s].many THEN @ \ {n} ELSE {}]
         /\ UNCHANGED <<hold, outcomes, job, master>>
Taken(s, n, h, makes) ==
    /\ hold' = [hold EXCEPT ![n] = h]
    /\ drive' = [drive EXCEPT ![s].wave = @ \cup {n}, ![s].asked = @ \ {n}]
    /\ job' = [job EXCEPT ![n].made = @ \/ makes]
    /\ UNCHANGED <<outcomes, master>>
Joins(s, n) ==
    /\ drive' = [drive EXCEPT ![s].wave = @ \cup {n}, ![s].asked = @ \ {n}]
    /\ UNCHANGED <<hold, outcomes, job, master>>
\* _block_node, of the head or of another.
Blocks(s, n) ==
    LET seen == [drive[s].seen EXCEPT ![n] = "DONE"] IN
    IF ~IsMaster(s) THEN Leave(s, ReleasedAll(s, drive[s].wave)) /\ UNCHANGED life
    ELSE /\ life' = seen
         /\ IF drive[s].wave = {} THEN Leave(s, hold)
            ELSE /\ drive' = [drive EXCEPT ![s].seen = seen, ![s].asked = @ \ {n}]
                 /\ UNCHANGED <<hold, outcomes, job, master>>

\* prepare, evaluate, take_hold.
Prepare(s) ==
    /\ In(s, "prepare") /\ drive[s].asked # {}
    /\ LET n == Least(drive[s].asked)
           exhausted == SpentBy(Member) >= Budget
       IN \/ /\ (exhausted \/ (~job[n].made /\ ~Grants(n))) /\ NoFault /\ Blocks(s, n)
          \/ /\ ~exhausted /\ ~job[n].made /\ Grants(n) /\ NoFault
             /\ Taken(s, n, Granted(n, s), TRUE) /\ UNCHANGED life
          \/ /\ ~exhausted /\ job[n].made /\ NoFault /\ UNCHANGED life
             /\ IF job[n].live THEN LeftOut(s, n)
                ELSE IF ~drive[s].many \/ Mine(s, n)
                THEN Joins(s, n)
                ELSE IF hold[n].id = 0 /\ Grants(n) THEN Taken(s, n, Granted(n, s), FALSE)
                ELSE LeftOut(s, n)
          \/ Fault /\ Blocks(s, n)                      \* an obstacle
    /\ UNCHANGED overtaken

\* The outcome names the holds of the wave before the executor starts; if it cannot be
\* written, the holds are given back.
File(s) ==
    /\ In(s, "prepare") /\ drive[s].asked = {} /\ drive[s].many
    /\ LET d == drive[s]
           new == [name |-> CHOOSE i \in 0..Cardinality(Names) : i \notin Names,
                   owner |-> s, attempts |-> 0, waits |-> 0, settled |-> FALSE, flying |-> {},
                   holds |-> {[node |-> n, id |-> hold[n].id] :
                                 n \in {m \in d.wave : hold[m].id # 0}}]
       IN \/ /\ NoFault /\ outcomes' = outcomes \cup {new}
             /\ drive' = [drive EXCEPT ![s].at = "admit"] /\ UNCHANGED <<hold, job, master>>
          \/ Fault /\ Leave(s, ReleasedAll(s, d.wave))
    /\ UNCHANGED <<life, overtaken>>

\* Every node that is to be launched holds, and a wave has its outcome on file.
Held(s) == (In(s, "prepare") /\ drive[s].asked = {} /\ ~drive[s].many) \/ In(s, "admit")
\* make_running: the nodes are RUNNING on file, and the master is asked, before a run starts.
Admit(s) ==
    /\ Held(s)
    /\ LET d == drive[s]
           seen == [n \in Member |-> IF n \in d.wave THEN "RUNNING" ELSE d.seen[n]]
       IN IF IsMaster(s)
          THEN /\ life' = seen
               /\ drive' = [drive EXCEPT ![s].seen = seen, ![s].at = "running",
                                         ![s].asked = d.wave]
               /\ UNCHANGED <<hold, outcomes, job, master>>
          ELSE /\ Leave(s, IF d.many THEN ReleasedAll(s, d.wave) ELSE hold)
               /\ UNCHANGED life
    /\ UNCHANGED <<overtaken, faults>>

-----------------------------------------------------------------------------
(* The launches, and the end of the wave                                   *)

Comes(s, n, flies) ==
    drive' = [drive EXCEPT ![s].asked = @ \ {n}, ![s].back = @ \cup {n},
                           ![s].flying = IF flies THEN @ \cup {n} ELSE @]

\* launch: the hold of this launcher, or a new one, in place of one that a launcher that
\* is gone left; then hoh run, which one process at a time may execute.
Launch(s, n) ==
    /\ In(s, "running") /\ n \in drive[s].asked
    /\ LET own == Mine(s, n)
           h == IF own THEN hold[n] ELSE Granted(n, s)
           free == hold[n].id = 0 \/ ~job[n].live
       IN \/ /\ own \/ (free /\ Grants(n))
             /\ hold' = [hold EXCEPT ![n] = h]
             /\ IF job[n].live
                THEN Comes(s, n, TRUE) /\ UNCHANGED job
                ELSE /\ drive' = [drive EXCEPT ![s].asked = @ \ {n}]
                     /\ job' = [job EXCEPT ![n].live = TRUE, ![n].began = TRUE, ![n].by = s,
                                           ![n].ceiling = h.amount]
          \/ /\ ~own /\ ~(free /\ Grants(n))
             /\ hold' = IF free THEN Ended(hold, n) ELSE hold
             /\ Comes(s, n, FALSE) /\ UNCHANGED job
    /\ UNCHANGED <<life, outcomes, master, overtaken, faults>>

\* The launch returned: whatever the run holds is ended.
Return(s, n) ==
    /\ In(s, "running") /\ n \in drive[s].wave \ (drive[s].asked \cup drive[s].back)
    /\ ~(job[n].live /\ job[n].by = s)
    /\ hold' = Ended(hold, n) /\ Comes(s, n, FALSE)
    /\ UNCHANGED <<job, life, outcomes, master, overtaken, faults>>

\* The record says SETTLED; then the outcome is closed and the wave settled by the ids it
\* names.  A run in flight keeps its hold.
Record(s) ==
    /\ In(s, "running") /\ drive[s].back = drive[s].wave
    /\ outcomes' = {IF o.owner = s THEN [o EXCEPT !.settled = TRUE, !.flying = drive[s].flying]
                    ELSE o : o \in outcomes}
    /\ drive' = [drive EXCEPT ![s].at = "close"]
    /\ UNCHANGED <<hold, job, life, master, overtaken, faults>>
Close(s) ==
    /\ In(s, "close")
    /\ LET own == {o \in outcomes : o.owner = s} IN
       /\ hold' = EndedById(hold, {h.id : h \in UNION {
                     {h \in o.holds : h.node \notin drive[s].flying} : o \in own}})
       /\ \/ NoFault /\ outcomes' = outcomes \ own
          \/ Fault /\ own # {} /\ UNCHANGED outcomes
    /\ drive' = [drive EXCEPT ![s].at = "settle", ![s].asked = drive[s].wave]
    /\ UNCHANGED <<job, life, master, overtaken>>

\* _settle, one node after the other: settled, work again, or still in flight.
Settle(s) ==
    /\ In(s, "settle") /\ drive[s].asked # {}
    /\ LET n == Least(drive[s].asked) IN
       \E lf \in IF n \in drive[s].flying THEN {"RUNNING"} ELSE Becomes :
          LET seen == [drive[s].seen EXCEPT ![n] = lf] IN
          IF IsMaster(s) THEN /\ life' = seen
                              /\ drive' = [drive EXCEPT ![s].seen = seen, ![s].asked = @ \ {n}]
                              /\ UNCHANGED <<hold, outcomes, job, master>>
          ELSE Leave(s, hold) /\ UNCHANGED life
    /\ UNCHANGED <<overtaken, faults>>
Settled(s) ==
    /\ In(s, "settle") /\ drive[s].asked = {}
    /\ \/ Leave(s, hold)
       \/ drive[s].flying = {} /\ Goes(s, "round")
    /\ UNCHANGED <<life, overtaken, faults>>

-----------------------------------------------------------------------------

Step(s) ==
    \/ Consider(s) \/ Claim(s) \/ EndProven(s) \/ Recovered(s) \/ Boot(s) \/ Booted(s)
    \/ Round(s) \/ Prepare(s) \/ File(s) \/ Admit(s) \/ Record(s) \/ Close(s) \/ Settle(s)
    \/ Settled(s) \/ \E n \in Member : Launch(s, n) \/ Return(s, n)

WaveNext ==
    \/ \E s \in Session : Drive(s) \/ Step(s) \/ SessionDies(s)
    \/ \E n \in Member : Spend(n) \/ Stop(n)
    \/ MasterLapses

WaveSpec == WaveInit /\ [][WaveNext]_waveVars

\* A session that drives takes its steps, a run ends (its roles and its loops are bounded),
\* and a project that nobody drives is driven again.
WaveFairness ==
    /\ \A s \in Session : WF_waveVars(Step(s))
    /\ \A n \in Member : WF_waveVars(Stop(n))
    /\ WF_waveVars(\E s \in Session : Drive(s))
WaveFairSpec == WaveSpec /\ WaveFairness

-----------------------------------------------------------------------------
(* Properties                                                              *)

\* "Together they could spend twice the ceiling" (reservation.py): what the runs have spent
\* and hold stays within the budget, and a node that is to leave a reserve leaves it.
BudgetIsKept ==
    ~overtaken =>
       /\ Committed(Member) <= Budget
       /\ \A n \in Member : hold[n].id # 0 =>
             Committed({m \in Member : Keep[m] >= Keep[n]}) <= Budget - Keep[n]

\* A live run holds all that it may spend, and its node is RUNNING on file, so that whoever
\* drives next waits for it; whoever prepares, recovers, settles or dies beside it.  The
\* exception is a session that was replaced while its launches were out.
LiveIsAccounted ==
    ~overtaken => \A n \in Member :
                     job[n].live => hold[n].amount >= job[n].ceiling /\ life[n] = "RUNNING"

\* What a run spends is covered, and what it holds is its own, for the whole of its life.
BudgetCoversLive == BudgetIsKept /\ LiveIsAccounted

\* "every path terminates in a state a reader sees" (waverecovery.py): an outcome that a
\* controller left OPEN is recovered, closed or abandoned by the drives that follow.
OutcomesEnd ==
    (\E o \in outcomes : o.owner = "gone") ~> (\A o \in outcomes : o.owner # "gone")

\* "NOT_STARTED (it becomes work again, and its launch ends the hold)" (launcher.py): the
\* hold a launcher that is gone left on a node that is ready again is not there for ever.
LeftHold(n) ==
    hold[n].id # 0 /\ hold[n].by = "gone" /\ life[n] = "READY" /\ ~job[n].live
LeftHoldEnds == \A n \in Member : LeftHold(n) ~> ~LeftHold(n)

-----------------------------------------------------------------------------
(* Why the budget is kept: an invariant that every step keeps              *)

Entry == [node : Member, id : Nat \ {0}]
Lives == {"READY", "RUNNING", "DONE"}
HoldRecord == [id : Nat, amount : 0..Want, by : Session \cup {"gone"}]
JobRecord == [made : BOOLEAN, began : BOOLEAN, live : BOOLEAN, by : Session \cup {"gone"},
              ceiling : 0..Want, spent : 0..Want]
OutcomeRecord == [name : Nat, owner : Session \cup {"gone", "any"}, attempts : Nat, waits : Nat,
                  settled : BOOLEAN, flying : SUBSET Member, holds : SUBSET Entry]
Launching == {"prepare", "admit", "running"}
Reading == {"boot", "round", "close", "settle"} \cup Launching
DriveRecord == [at : {"off", "recover", "claim", "end"} \cup Reading, rounds : Nat,
                seen : [Member -> Lives], todo : SUBSET OutcomeRecord, proven : SUBSET Entry,
                many : BOOLEAN, asked : SUBSET Member, wave : SUBSET Member,
                back : SUBSET Member, flying : SUBSET Member]
WaveTypeOK ==
    /\ hold \in [Member -> HoldRecord] /\ job \in [Member -> JobRecord]
    /\ life \in [Member -> Lives] /\ outcomes \subseteq OutcomeRecord
    /\ master \in Session \cup {"none"} /\ drive \in [Session -> DriveRecord]
    /\ overtaken \in BOOLEAN /\ faults \in Nat

\* Ids and names are not given again while anyone knows them.
KnownInv == IsFiniteSet(Known) /\ IsFiniteSet(Names)
TodoInv == \A s \in Session : drive[s].at \in {"claim", "end"} => drive[s].todo # {}
IdInv ==
    /\ \A n \in Member : hold[n].id = 0 => hold[n] = NoHold
    /\ \A m, n \in Member : hold[m].id = hold[n].id /\ hold[m].id # 0 => m = n
    /\ \A h \in Named, n \in Member : hold[n].id = h.id => n = h.node

\* One session launches at a time, as the master or after its lease lapsed, and what the
\* master read is what is on file.
Reigns(s) == IsMaster(s) \/ In(s, "running")
MasterInv ==
    /\ \A s \in Session : In(s, "running") => master \in {s, "none"}
    /\ \A s, t \in Session : In(s, "running") /\ In(t, "running") => s = t
    /\ \A s \in Session : IsMaster(s) /\ drive[s].at \in Reading => drive[s].seen = life

\* A launcher holds for what it is about to launch or has launched.
Holds(d, n, live) ==
    d.at \in Launching /\ n \in d.wave \ d.back /\ (live => d.at = "running")
MineInv == \A n \in Member, s \in Session :
    hold[n].by = s => Holds(drive[s], n, job[n].live)

\* What the waves of the sessions have to do with the runs that are alive.
MadeInv ==
    /\ \A n \in Member : job[n].live => job[n].made
    /\ \A s \in Session : \A n \in drive[s].wave : job[n].made
Asks(d) ==
    /\ d.at = "prepare" => \A n \in d.asked : d.seen[n] = "READY"
    /\ d.at \in {"prepare", "admit"} => d.back = {}
    /\ d.at \in {"running", "settle"} => d.asked \subseteq d.wave
    /\ d.at = "running" => d.asked \cap d.back = {}
    /\ d.flying = {}
AskedInv == \A s \in Session : Asks(drive[s])
Rests(d) == d.at \in {"prepare", "admit", "close", "settle"}
Out(s, d, n) ==
    /\ n \in d.asked \cup d.back => ~job[n].live
    /\ n \notin d.asked \cup d.back => job[n].by = s
    /\ n \in d.asked => life[n] = "RUNNING"
QuietInv == \A s \in Session :
    /\ IsMaster(s) /\ Rests(drive[s]) => \A n \in drive[s].wave : ~job[n].live
    /\ In(s, "running") => \A n \in drive[s].wave : Out(s, drive[s], n)

\* What an outcome names: the wave of its owner, and, once it is settled, no hold any more.
Owns(d, o) ==
    /\ d.at \in {"admit", "running"}
    /\ \A h \in o.holds : /\ h.node \in d.wave
                          /\ h.node \in d.back => hold[h.node].id # h.id
OwnInv == \A o \in outcomes : o.owner \in Session /\ ~o.settled => Owns(drive[o.owner], o)
Dead(o) == \A h \in o.holds, n \in Member : hold[n].id # h.id
SettledInv == \A o \in Filed : o.settled => Dead(o)

\* What a recovery is about to end: no hold of a live run, nor one of the session that
\* launches or may come to launch.
Idle(p) ==
    /\ hold[p.node].id = p.id => ~job[p.node].live
    /\ \A t \in Session, n \in Member : Reigns(t) /\ hold[n].by = t => hold[n].id # p.id
ProvenInv == \A s \in Session : In(s, "end") => \A p \in drive[s].proven : Idle(p)

OrderInv ==
    /\ IdInv /\ MasterInv /\ MineInv /\ MadeInv /\ AskedInv /\ QuietInv /\ OwnInv
    /\ SettledInv /\ ProvenInv
WaveInv ==
    /\ WaveTypeOK /\ KnownInv /\ TodoInv /\ (~overtaken => OrderInv)
    /\ BudgetIsKept /\ LiveIsAccounted
=============================================================================
