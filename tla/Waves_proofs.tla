----------------------------- MODULE Waves_proofs -----------------------------
(***************************************************************************)
(* Proofs about Waves, for any sessions, nodes, budget and reserves, and   *)
(* any number of faults: the order that the sessions, their waves, the     *)
(* outcomes and the recoveries keep, and the budget that follows from it.  *)
(* One lemma says what a step must see to (StepKeeps); one lemma for every *)
(* action shows that it does.                                              *)
(***************************************************************************)
EXTENDS Waves, Sums_proofs, FiniteSetTheorems, WellFoundedInduction, TLAPS

-----------------------------------------------------------------------------
(* Numbers and sums                                                        *)

\* Not all of the first numbers are in a finite set with zero.
LEMMA FreshExists ==
    ASSUME NEW K, IsFiniteSet(K)
    PROVE  /\ \E i \in 0..Cardinality(K) : i \notin K
           /\ 0 \in K => \E i \in 1..Cardinality(K) : i \notin K
<1>1. Cardinality(K) \in Nat
    BY FS_CardinalityType
<1>2. IsFiniteSet(0..Cardinality(K)) /\ Cardinality(0..Cardinality(K)) = Cardinality(K) + 1
    BY <1>1, FS_Interval, SMT
<1>3. ~(0..Cardinality(K) \subseteq K)
  <2>1. SUFFICES ASSUME 0..Cardinality(K) \in SUBSET K PROVE FALSE
      OBVIOUS
  <2>2. Cardinality(0..Cardinality(K)) <= Cardinality(K)
      BY <2>1, FS_Subset, Zenon
  <2>. QED BY <1>1, <1>2, <2>2, SMT
<1>4. PICK i \in 0..Cardinality(K) : i \notin K
    BY <1>3
<1>. QED BY <1>1, <1>4, SMT

LEMMA FreshIs ==
    ASSUME IsFiniteSet(Known)
    PROVE  FreshId \in Nat \ {0} /\ FreshId \notin Known
<1>1. 0 \in Known
    BY DEF Known
<1>2. Cardinality(Known) \in Nat
    BY FS_CardinalityType
<1>3. \E i \in 1..Cardinality(Known) : i \notin Known
    BY <1>1, FreshExists
<1>4. FreshId \in 1..Cardinality(Known) /\ FreshId \notin Known
    BY <1>3, Zenon DEF FreshId
<1>. QED BY <1>2, <1>4, SMT

Amounts == [Member -> 0..Want]

LEMMA UnitsFinite ==
    ASSUME WavesAssumption, NEW f \in Amounts, NEW ns \in SUBSET Member
    PROVE  IsFiniteSet(ns) /\ (\A n \in ns : f[n] \in Nat) /\ Total(f, ns) \in Nat
<1>1. IsFiniteSet(Member)
    BY FS_Interval DEF Member, WavesAssumption
<1>2. IsFiniteSet(ns)
    BY <1>1, FS_Subset
<1>3. \A n \in ns : f[n] \in Nat
  <2>1. \A n \in ns : f[n] \in 0..Want
      BY DEF Amounts
  <2>. QED BY <2>1, SMT DEF WavesAssumption
<1>. QED BY <1>2, <1>3, SumFinite

\* A sum over fewer runs of less each is no more.
LEMMA TotalMonotone ==
    ASSUME WavesAssumption, NEW f \in Amounts, NEW g \in Amounts,
           NEW ns \in SUBSET Member, NEW ms \in SUBSET Member, ns \subseteq ms,
           \A n \in ns : f[n] <= g[n]
    PROVE  Total(f, ns) <= Total(g, ms)
<1>1. /\ IsFiniteSet(ms) /\ \A n \in ms : g[n] \in Nat
      /\ \A n \in ns : f[n] \in Nat /\ f[n] <= g[n]
    BY UnitsFinite
<1>. QED BY <1>1, SumMonotone

\* A sum is the part of one run and the sum over the others.
LEMMA TotalSplits ==
    ASSUME WavesAssumption, NEW f \in Amounts, NEW ns \in SUBSET Member, NEW n \in ns
    PROVE  Total(f, ns) = Total(f, ns \ {n}) + f[n]
<1>1. IsFiniteSet(ns) /\ \A m \in ns : f[m] \in Nat
    BY UnitsFinite
<1>. QED BY <1>1, SumSplits

-----------------------------------------------------------------------------
(* The budget                                                              *)

LEMMA UsesAre ==
    ASSUME WavesAssumption, WaveTypeOK
    PROVE  Uses \in Amounts
<1>. SUFFICES ASSUME NEW n \in Member PROVE Larger(job[n].spent, hold[n].amount) \in 0..Want
    BY DEF Uses, Amounts
<1>1. job[n] \in JobRecord /\ hold[n] \in HoldRecord
    BY DEF WaveTypeOK
<1>2. job[n].spent \in 0..Want /\ hold[n].amount \in 0..Want
    BY <1>1 DEF JobRecord, HoldRecord
<1>. QED BY <1>2 DEF Larger

\* Nothing is granted and no run spends past what it holds.
LEMMA BudgetShrinks ==
    ASSUME WavesAssumption, BudgetIsKept, Uses \in Amounts, Uses' \in Amounts,
           overtaken => overtaken',
           ~overtaken => \A n \in Member : /\ Uses'[n] <= Uses[n]
                                           /\ hold'[n].id # 0 => hold[n].id # 0
    PROVE  BudgetIsKept'
<1>. SUFFICES ASSUME ~overtaken' PROVE
       /\ Committed(Member)' <= Budget
       /\ \A n \in Member : hold'[n].id # 0 =>
             Committed({m \in Member : Keep[m] >= Keep[n]})' <= Budget - Keep[n]
    BY DEF BudgetIsKept
<1>1. \A n \in Member : Uses'[n] <= Uses[n] /\ (hold'[n].id # 0 => hold[n].id # 0)
    OBVIOUS
<1>2. ASSUME NEW ns \in SUBSET Member
      PROVE  Committed(ns)' <= Committed(ns) /\ Committed(ns) \in Nat /\ Committed(ns)' \in Nat
  <2>1. Total(Uses', ns) <= Total(Uses, ns)
      BY <1>1, TotalMonotone
  <2>. QED BY <2>1, UnitsFinite DEF Committed
<1>3. Committed(Member)' <= Budget
  <2>1. Committed(Member) <= Budget /\ Budget \in Nat
      BY DEF BudgetIsKept, WavesAssumption
  <2>2. Committed(Member)' <= Committed(Member) /\ Committed(Member) \in Nat
        /\ Committed(Member)' \in Nat
      BY <1>2
  <2>. QED BY <2>1, <2>2
<1>4. ASSUME NEW n \in Member, hold'[n].id # 0
      PROVE  Committed({m \in Member : Keep[m] >= Keep[n]})' <= Budget - Keep[n]
  <2>. DEFINE ns == {m \in Member : Keep[m] >= Keep[n]}
  <2>1. Committed(ns) <= Budget - Keep[n] /\ Budget \in Nat /\ Keep[n] \in Nat
      BY <1>1, <1>4 DEF BudgetIsKept, WavesAssumption
  <2>2. Committed(ns)' <= Committed(ns) /\ Committed(ns) \in Nat /\ Committed(ns)' \in Nat
      BY <1>2
  <2>. QED BY <2>1, <2>2
<1>. QED BY <1>3, <1>4

\* What a run is granted leaves the others what they hold, and the reserve of its node.
LEMMA BudgetGranted ==
    ASSUME WavesAssumption, BudgetIsKept, Uses \in Amounts, Uses' \in Amounts,
           overtaken' = overtaken, NEW n \in Member, NEW s, Grants(n),
           Uses'[n] = Granted(n, s).amount,
           \A m \in Member \ {n} : Uses'[m] = Uses[m] /\ (hold'[m].id # 0 => hold[m].id # 0)
    PROVE  BudgetIsKept'
<1>. SUFFICES ASSUME ~overtaken, ~overtaken' PROVE
       /\ Committed(Member)' <= Budget
       /\ \A m \in Member : hold'[m].id # 0 =>
             Committed({k \in Member : Keep[k] >= Keep[m]})' <= Budget - Keep[m]
    BY DEF BudgetIsKept
<1>. DEFINE rest == Total(Uses, Member \ {n})
            got == Granted(n, s).amount
<1>1. rest \in Nat /\ Budget \in Nat /\ Keep[n] \in Nat /\ Want \in Nat
    BY UnitsFinite DEF WavesAssumption
<1>2. got <= Budget - rest - Keep[n] /\ got \in Nat /\ Left(n) = Budget - rest
  <2>1. Left(n) = IF rest > Budget THEN 0 ELSE Budget - rest
      BY DEF Left, Committed
  <2>2. Left(n) > Keep[n]
      BY DEF Grants
  <2>3. got = IF Want < Left(n) - Keep[n] THEN Want ELSE Left(n) - Keep[n]
      BY DEF Granted
  <2>. HIDE DEF rest, got
  <2>. QED BY <1>1, <2>1, <2>2, <2>3
<1>3. Total(Uses', Member) = Total(Uses', Member \ {n}) + got
    BY TotalSplits
<1>4. Total(Uses', Member \ {n}) <= rest /\ Total(Uses', Member \ {n}) \in Nat
  <2>1. \A m \in Member \ {n} : Uses'[m] <= Uses[m]
    <3>1. \A m \in Member : Uses[m] \in 0..Want
        BY DEF Amounts
    <3>. QED BY <1>1, <3>1
  <2>. QED BY <2>1, TotalMonotone, UnitsFinite
<1>. HIDE DEF rest, got
<1>5. Total(Uses', Member) <= Budget - Keep[n] /\ Total(Uses', Member) \in Nat
    BY <1>1, <1>2, <1>3, <1>4
<1>6. Committed(Member)' <= Budget
    BY <1>1, <1>5 DEF Committed
<1>7. ASSUME NEW m \in Member, hold'[m].id # 0
      PROVE  Committed({k \in Member : Keep[k] >= Keep[m]})' <= Budget - Keep[m]
  <2>. DEFINE ns == {k \in Member : Keep[k] >= Keep[m]}
  <2>1. Keep[m] \in Nat
      BY DEF WavesAssumption
  <2>2. CASE n \in ns
    <3>1. Total(Uses', ns) <= Total(Uses', Member)
      <4>1. \A k \in ns : Uses'[k] <= Uses'[k]
        <5>1. \A k \in Member : Uses'[k] \in 0..Want
            BY DEF Amounts
        <5>. QED BY <1>1, <5>1
      <4>. QED BY <4>1, TotalMonotone
    <3>2. Total(Uses', ns) \in Nat
        BY UnitsFinite
    <3>3. Keep[n] >= Keep[m]
        BY <2>2
    <3>. QED BY <1>1, <1>5, <2>1, <3>1, <3>2, <3>3 DEF Committed
  <2>3. CASE n \notin ns
    <3>1. m # n
        BY <2>1, <2>3
    <3>2. hold[m].id # 0
        BY <1>7, <3>1
    <3>3. Committed(ns) <= Budget - Keep[m]
        BY <3>2 DEF BudgetIsKept
    <3>4. Total(Uses', ns) <= Total(Uses, ns)
      <4>1. \A k \in ns : Uses'[k] <= Uses[k]
        <5>1. \A k \in Member : Uses[k] \in 0..Want
            BY DEF Amounts
        <5>. QED BY <1>1, <2>3, <5>1
      <4>. QED BY <4>1, TotalMonotone
    <3>5. Total(Uses, ns) \in Nat /\ Total(Uses', ns) \in Nat
        BY UnitsFinite
    <3>. QED BY <1>1, <2>1, <3>3, <3>4, <3>5 DEF Committed
  <2>. QED BY <2>2, <2>3
<1>. QED BY <1>6, <1>7

-----------------------------------------------------------------------------
(* Types                                                                   *)

Steps == {"off", "recover", "claim", "end"} \cup Reading
Owners == Session \cup {"gone", "any"}

LEMMA DriveFields ==
    ASSUME NEW d \in DriveRecord
    PROVE  /\ \A x \in Steps : [d EXCEPT !.at = x] \in DriveRecord
           /\ \A x \in Nat : [d EXCEPT !.rounds = x] \in DriveRecord
           /\ \A x \in [Member -> Lives] : [d EXCEPT !.seen = x] \in DriveRecord
           /\ \A x \in SUBSET OutcomeRecord : [d EXCEPT !.todo = x] \in DriveRecord
           /\ \A x \in SUBSET Entry : [d EXCEPT !.proven = x] \in DriveRecord
           /\ \A x \in BOOLEAN : [d EXCEPT !.many = x] \in DriveRecord
           /\ \A x \in SUBSET Member : /\ [d EXCEPT !.asked = x] \in DriveRecord
                                       /\ [d EXCEPT !.wave = x] \in DriveRecord
                                       /\ [d EXCEPT !.back = x] \in DriveRecord
                                       /\ [d EXCEPT !.flying = x] \in DriveRecord
BY SMTT(60) DEF DriveRecord, Steps

LEMMA AsleepIs ==
    /\ Asleep \in DriveRecord /\ Asleep.at = "off" /\ Asleep.todo = {} /\ Asleep.proven = {}
    /\ Asleep.wave = {} /\ Asleep.flying = {}
BY SMT DEF Asleep, DriveRecord, Lives, Reading, Launching

LEMMA NoHoldIs ==
    /\ WavesAssumption => NoHold \in HoldRecord
    /\ NoHold.id = 0 /\ NoHold.amount = 0 /\ NoHold.by = "gone"
BY SMT DEF NoHold, HoldRecord, WavesAssumption

LEMMA OutcomeFields ==
    ASSUME NEW o \in OutcomeRecord
    PROVE  /\ \A x \in Owners : LET p == [o EXCEPT !.owner = x] IN
              /\ p \in OutcomeRecord /\ p.owner = x /\ p.name = o.name
              /\ p.settled = o.settled /\ p.holds = o.holds
           /\ \A x \in Nat : LET p == [o EXCEPT !.waits = x] IN
              /\ p \in OutcomeRecord /\ p.owner = o.owner /\ p.name = o.name
              /\ p.settled = o.settled /\ p.holds = o.holds
           /\ \A x \in Nat : LET p == [o EXCEPT !.attempts = x] IN
              /\ p \in OutcomeRecord /\ p.owner = o.owner /\ p.name = o.name
              /\ p.settled = o.settled /\ p.holds = o.holds
BY SMT DEF OutcomeRecord, Owners

\* What is known, and what a step adds to it.
BaseInv == WaveTypeOK /\ KnownInv /\ TodoInv
Kept(d, y) ==
    /\ \A o \in outcomes' \cup d.todo :
          o.name \in Names \cup {y} /\ \A h \in o.holds : h.id \in Known
    /\ \A h \in d.proven : h.id \in Known
    /\ d.at \in {"claim", "end"} => d.todo # {}

LEMMA KnownHas ==
    /\ 0 \in Known /\ \A n \in Member : hold[n].id \in Known
    /\ \A h \in Named : h.id \in Known
    /\ \A o \in Filed : o.name \in Names /\ \A h \in o.holds : h \in Named /\ h.id \in Known
    /\ \A s \in Session : /\ \A o \in drive[s].todo : o \in Filed
                          /\ \A h \in drive[s].proven : h \in Named /\ h.id \in Known
    /\ outcomes \subseteq Filed
<1>1. /\ 0 \in Known /\ \A n \in Member : hold[n].id \in Known
      /\ \A h \in Named : h.id \in Known
    BY DEF Known
<1>2. outcomes \subseteq Filed /\ \A s \in Session : \A o \in drive[s].todo : o \in Filed
    BY DEF Filed
<1>3. \A o \in Filed : o.name \in Names /\ \A h \in o.holds : h \in Named
  <2>1. SUFFICES ASSUME NEW o \in Filed PROVE o.name \in Names /\ \A h \in o.holds : h \in Named
      OBVIOUS
  <2>2. o.name \in Names
      BY DEF Names
  <2>3. ASSUME NEW h \in o.holds PROVE h \in Named
      BY DEF Named
  <2>. QED BY <2>2, <2>3
<1>4. \A s \in Session : \A h \in drive[s].proven : h \in Named
    BY DEF Named
<1>. QED BY <1>1, <1>2, <1>3, <1>4, Zenon

LEMMA BaseLift ==
    ASSUME BaseInv, NEW s \in Session, NEW d \in DriveRecord, NEW x, NEW y,
           drive' = [drive EXCEPT ![s] = d], Kept(d, y),
           hold' \in [Member -> HoldRecord], \A n \in Member : hold'[n].id \in Known \cup {x},
           job' \in [Member -> JobRecord], life' \in [Member -> Lives],
           outcomes' \subseteq OutcomeRecord, master' \in Session \cup {"none"},
           overtaken' \in BOOLEAN, faults' \in Nat
    PROVE  BaseInv'
<1>1. drive \in [Session -> DriveRecord] /\ IsFiniteSet(Known) /\ IsFiniteSet(Names)
    BY DEF BaseInv, WaveTypeOK, KnownInv
<1>2. drive' \in [Session -> DriveRecord] /\ drive'[s] = d
      /\ \A t \in Session \ {s} : drive'[t] = drive[t]
    BY <1>1
<1>3. WaveTypeOK'
    BY <1>2 DEF WaveTypeOK
<1>4. \A o \in Filed' : o \in outcomes' \cup d.todo \/ o \in Filed
  <2>1. SUFFICES ASSUME NEW t \in Session, NEW o \in drive'[t].todo
                 PROVE  o \in outcomes' \cup d.todo \/ o \in Filed
      BY DEF Filed
  <2>2. CASE t = s
      BY <1>2, <2>1, <2>2, Zenon
  <2>3. CASE t # s
    <3>1. o \in drive[t].todo
        BY <1>2, <2>1, <2>3, Zenon
    <3>. QED BY <3>1, KnownHas, Zenon
  <2>. QED BY <2>2, <2>3
<1>5. Names' \subseteq Names \cup {y}
    BY <1>4, KnownHas, Zenon DEF Kept, Names
<1>6. \A o \in Filed' : \A h \in o.holds : h.id \in Known
    BY <1>4, KnownHas, Zenon DEF Kept
<1>7. \A t \in Session : \A h \in drive'[t].proven : h.id \in Known
  <2>1. SUFFICES ASSUME NEW t \in Session, NEW h \in drive'[t].proven PROVE h.id \in Known
      OBVIOUS
  <2>2. CASE t = s
      BY <1>2, <2>2, Zenon DEF Kept
  <2>3. CASE t # s
      BY <1>2, <2>3, KnownHas, Zenon
  <2>. QED BY <2>2, <2>3
<1>8. \A h \in Named' : h.id \in Known
  <2>1. SUFFICES ASSUME NEW h \in Named' PROVE h.id \in Known
      OBVIOUS
  <2>2. \/ \E o \in Filed' : h \in o.holds
        \/ \E t \in Session : h \in drive'[t].proven
    <3>1. Named' = UNION ({o.holds : o \in Filed'} \cup {drive'[t].proven : t \in Session})
        BY Zenon DEF Named
    <3>. QED BY <2>1, <3>1
  <2>. QED BY <1>6, <1>7, <2>2, Zenon
<1>9. Known' \subseteq Known \cup {x}
    BY <1>8, KnownHas, Zenon DEF Known
<1>10. KnownInv'
  <2>1. IsFiniteSet(Known \cup {x}) /\ IsFiniteSet(Names \cup {y})
      BY <1>1, FS_AddElement
  <2>2. IsFiniteSet(Known')
      BY <1>9, <2>1, FS_Subset
  <2>3. IsFiniteSet(Names')
      BY <1>5, <2>1, FS_Subset
  <2>. QED BY <2>2, <2>3 DEF KnownInv
<1>11. TodoInv'
    BY <1>2, Zenon DEF BaseInv, TodoInv, Kept
<1>. QED BY <1>3, <1>10, <1>11 DEF BaseInv

-----------------------------------------------------------------------------
(* One session goes on                                                     *)

\* A hold ends or stays, and no launcher but s loses one; or s takes a new one at m.
HoldGoes(s, m, n) ==
    \/ /\ hold'[n].id \in {0, hold[n].id} /\ (hold'[n].id = 0 => hold'[n] = NoHold)
       /\ \A t \in Session : hold'[n].by = t => hold[n].by = t /\ hold'[n].id = hold[n].id
       /\ job[n].live => hold'[n].id = hold[n].id /\ hold'[n].amount = hold[n].amount
    \/ n = m /\ hold'[n].by = s /\ hold'[n].id \notin Known /\ ~job[n].live
JobGoes(s, m, n) ==
    /\ job[n].made => job'[n].made
    /\ \/ /\ job'[n].live => job[n].live
          /\ job'[n].ceiling = job[n].ceiling
          /\ \A t \in Session \ {s} : job[n].by = t => job'[n].by = t
       \/ /\ n = m /\ ~job[n].live /\ job'[n].made /\ Reigns(s) /\ hold'[n].by = s
          /\ life'[n] = "RUNNING" /\ hold'[n].amount >= job'[n].ceiling
Alike(o, p) == o.owner = p.owner /\ o.settled = p.settled /\ o.holds = p.holds
OwnOutcomes(s, d) == \A o \in outcomes' : o.owner \in Session /\ ~o.settled =>
    \/ o.owner # s /\ \E p \in outcomes : Alike(o, p)
    \/ /\ o.owner = s /\ d.at \in {"admit", "running"}
       /\ \A h \in o.holds : h.node \in d.wave /\ (h.node \in d.back => hold'[h.node].id # h.id)
Ends(o) == \A h \in o.holds, n \in Member : hold'[n].id # h.id
ReadOutcomes(d) ==
    /\ \A o \in outcomes' \cup d.todo :
          /\ o.settled => Ends(o) \/ \E p \in Filed : p.settled /\ o.holds = p.holds
          /\ \A h \in o.holds : h \in Named \/ \A n \in Member : hold'[n].id = h.id => n = h.node
    /\ \A h \in d.proven : h \in Named
\* What a session that goes on to d, with a new hold at m if any, must see to.
Sound(s, m, d) ==
    /\ \A n \in Member : HoldGoes(s, m, n)
    /\ \A n \in Member : JobGoes(s, m, n)
    /\ life' = life \/ (IsMaster(s) /\ \A n \in Member : job[n].live => life'[n] = "RUNNING")
    /\ \/ master' \in {master, "none"}
       \/ master' = s /\ d.at = "recover" /\ \A t \in Session : ~In(t, "running")
    /\ d.at = "running" => Reigns(s)
    /\ master' = s /\ d.at \in Reading => d.seen = life'
    /\ \A n \in Member : hold'[n].by = s => Holds(d, n, job'[n].live)
    /\ \A n \in d.wave : job'[n].made
    /\ Asks(d)
    /\ master' = s /\ Rests(d) => \A n \in d.wave : ~job'[n].live
    /\ d.at = "running" => \A n \in d.wave :
          /\ n \in d.asked \cup d.back => ~job'[n].live
          /\ n \notin d.asked \cup d.back => job'[n].by = s
          /\ n \in d.asked => life'[n] = "RUNNING"
    /\ OwnOutcomes(s, d) /\ ReadOutcomes(d)
    /\ d.at = "end" => Reigns(s) /\ \A p \in d.proven : p.node \in Member /\ ~job'[p.node].live

LEMMA NamedIds ==
    ASSUME WaveTypeOK, NEW h \in Named
    PROVE  h.id \in Nat \ {0} /\ h.node \in Member
<1>1. h \in Entry
  <2>1. \/ \E o \in Filed : h \in o.holds
        \/ \E s \in Session : h \in drive[s].proven
      BY DEF Named
  <2>2. Filed \subseteq OutcomeRecord
      BY DEF Filed, WaveTypeOK, DriveRecord
  <2>3. \A o \in OutcomeRecord : o.holds \subseteq Entry
      BY DEF OutcomeRecord
  <2>4. \A s \in Session : drive[s].proven \subseteq Entry
      BY DEF WaveTypeOK, DriveRecord
  <2>. QED BY <2>1, <2>2, <2>3, <2>4, Zenon
<1>. QED BY <1>1 DEF Entry

\* Who reigns is one session.
LEMMA OneReigns ==
    ASSUME MasterInv, NEW s \in Session, NEW t \in Session, Reigns(s), Reigns(t),
           WavesAssumption, master \in Session \cup {"none"}
    PROVE  s = t
BY DEF MasterInv, Reigns, IsMaster, WavesAssumption

\* The order is kept by a session that sees to that.
LEMMA OrderKeeps ==
    ASSUME WavesAssumption, WaveTypeOK, WaveTypeOK', OrderInv, LiveIsAccounted, ~overtaken,
           NEW s \in Session, NEW m, NEW d, drive' = [drive EXCEPT ![s] = d], Sound(s, m, d)
    PROVE  OrderInv' /\ LiveIsAccounted'
<1>1. /\ drive \in [Session -> DriveRecord] /\ master \in Session \cup {"none"}
      /\ drive'[s] = d /\ \A t \in Session \ {s} : drive'[t] = drive[t]
    BY DEF WaveTypeOK
<1>2. /\ IdInv /\ MasterInv /\ MineInv /\ MadeInv /\ AskedInv /\ QuietInv /\ OwnInv
      /\ SettledInv /\ ProvenInv
    BY DEF OrderInv
<1>3. /\ NoHold.id = 0 /\ NoHold.by = "gone" /\ "gone" \notin Session /\ "none" \notin Session
      /\ 0 \in Known /\ \A n \in Member : hold[n].id \in Known
    BY NoHoldIs, KnownHas DEF WavesAssumption
<1>4. ASSUME NEW n \in Member
      PROVE  /\ hold'[n].id \in {0, hold[n].id} \/ hold'[n].id \notin Known
             /\ hold'[n].id = 0 => hold'[n] = NoHold
             /\ \A t \in Session \ {s} : hold'[n].by = t =>
                   hold[n].by = t /\ hold'[n].id = hold[n].id
             /\ hold'[n].by = s /\ hold'[n].id \in Known =>
                   hold[n].by = s /\ hold'[n].id = hold[n].id
             /\ job[n].live => hold'[n].id = hold[n].id /\ hold'[n].amount = hold[n].amount
    BY <1>3, Zenon DEF Sound, HoldGoes
<1>5. ASSUME NEW n \in Member
      PROVE  /\ job[n].made => job'[n].made
             /\ job'[n].live /\ job[n].live => job'[n].ceiling = job[n].ceiling
             /\ job'[n].live /\ ~job[n].live =>
                   /\ job'[n].made /\ Reigns(s) /\ hold'[n].by = s
                   /\ life'[n] = "RUNNING" /\ hold'[n].amount >= job'[n].ceiling
             /\ ~Reigns(s) => /\ job'[n].live => job[n].live
                              /\ \A t \in Session \ {s} : job[n].by = t => job'[n].by = t
    BY Zenon DEF Sound, JobGoes
<1>6. \A t \in Session \ {s} : master' = t => master = t
    BY <1>3, Zenon DEF Sound
<1>7. \A t \in Session \ {s} : Reigns(t)' => Reigns(t)
  <2>1. ASSUME NEW t \in Session \ {s}, Reigns(t)' PROVE Reigns(t)
    <3>1. master' = t \/ drive'[t].at = "running"
        BY <2>1 DEF Reigns, IsMaster, In
    <3>. QED BY <1>1, <1>6, <2>1, <3>1, Zenon DEF Reigns, IsMaster, In
  <2>. QED BY <2>1
<1>8. \A t \in Session \ {s} : Reigns(t) => ~Reigns(s) /\ life' = life
  <2>1. SUFFICES ASSUME NEW t \in Session \ {s}, Reigns(t), Reigns(s) PROVE FALSE
      BY Zenon DEF Sound, Reigns
  <2>. QED BY <1>1, <1>2, <2>1, OneReigns
<1>9. \A h \in Named' : \/ h \in Named
                        \/ \A n \in Member : hold'[n].id = h.id => n = h.node
  <2>1. SUFFICES ASSUME NEW h \in Named', h \notin Named
                 PROVE  \A n \in Member : hold'[n].id = h.id => n = h.node
      OBVIOUS
  <2>2. \/ \E o \in Filed' : h \in o.holds
        \/ \E t \in Session : h \in drive'[t].proven
    <3>1. Named' = UNION ({o.holds : o \in Filed'} \cup {drive'[t].proven : t \in Session})
        BY Zenon DEF Named
    <3>. QED BY <2>1, <3>1
  <2>3. CASE \E o \in Filed' : h \in o.holds
    <3>1. PICK o \in Filed' : h \in o.holds
        BY <2>3
    <3>2. o \in outcomes' \cup d.todo \/ o \in Filed
      <4>1. o \in outcomes' \/ \E t \in Session : o \in drive'[t].todo
          BY <3>1 DEF Filed
      <4>. QED BY <1>1, <4>1, KnownHas, Zenon
    <3>. QED BY <2>1, <3>1, <3>2, KnownHas, Zenon DEF Sound, ReadOutcomes
  <2>4. CASE \E t \in Session : h \in drive'[t].proven
    <3>1. PICK t \in Session : h \in drive'[t].proven
        BY <2>4
    <3>. QED BY <1>1, <2>1, <3>1, KnownHas, Zenon DEF Sound, ReadOutcomes
  <2>. QED BY <2>2, <2>3, <2>4
\* An id that somebody names is the id of no new hold.
<1>10. ASSUME NEW h \in Named, NEW n \in Member, hold'[n].id = h.id
       PROVE  hold[n].id = h.id
    BY <1>4, <1>10, KnownHas, NamedIds, Zenon
<1>11. IdInv'
  <2>1. \A n \in Member : hold'[n].id = 0 => hold'[n] = NoHold
      BY <1>4, Zenon
  <2>2. \A k, n \in Member : hold'[k].id = hold'[n].id /\ hold'[k].id # 0 => k = n
    <3>1. SUFFICES ASSUME NEW k \in Member, NEW n \in Member, hold'[k].id = hold'[n].id,
                          hold'[k].id # 0
                   PROVE  k = n
        BY Zenon
    <3>2. CASE hold'[k].id \in Known
      <4>1. hold'[k].id = hold[k].id /\ hold'[n].id = hold[n].id
          BY <1>4, <3>1, <3>2, Zenon
      <4>. QED BY <1>2, <3>1, <4>1, Zenon DEF IdInv
    <3>3. CASE hold'[k].id \notin Known
      <4>1. k = m /\ n = m
          BY <1>3, <3>1, <3>3, ZenonT(60) DEF Sound, HoldGoes
      <4>. QED BY <4>1
    <3>. QED BY <3>2, <3>3
  <2>3. \A h \in Named', n \in Member : hold'[n].id = h.id => n = h.node
      BY <1>2, <1>9, <1>10, Zenon DEF IdInv
  <2>. QED BY <2>1, <2>2, <2>3, Zenon DEF IdInv
<1>12. MasterInv'
  <2>1. ASSUME NEW t \in Session, drive'[t].at = "running" PROVE master' \in {t, "none"}
    <3>1. Reigns(t)
      <4>1. CASE t = s
          BY <1>1, <2>1, <4>1, Zenon DEF Sound
      <4>2. CASE t # s
          BY <1>1, <2>1, <4>2, Zenon DEF Reigns, In
      <4>. QED BY <4>1, <4>2
    <3>2. master \in {t, "none"}
        BY <1>2, <3>1, Zenon DEF Reigns, MasterInv, IsMaster
    <3>3. CASE master' \in {master, "none"}
        BY <3>2, <3>3
    <3>4. CASE /\ master' = s /\ d.at = "recover" /\ \A u \in Session : ~In(u, "running")
      <4>1. t # s => In(t, "running")
          BY <1>1, <2>1, Zenon DEF In
      <4>2. t = s
          BY <3>4, <4>1, Zenon
      <4>. QED BY <3>4, <4>2
    <3>. QED BY <3>3, <3>4, Zenon DEF Sound
  <2>2. ASSUME NEW t \in Session, NEW u \in Session,
               drive'[t].at = "running", drive'[u].at = "running"
        PROVE  t = u
    <3>1. \A w \in Session : drive'[w].at = "running" => Reigns(w)
        BY <1>1, Zenon DEF Sound, Reigns, In
    <3>2. Reigns(t) /\ Reigns(u)
        BY <2>2, <3>1, Zenon
    <3>. QED BY <1>1, <1>2, <3>2, OneReigns
  <2>3. ASSUME NEW t \in Session, master' = t, drive'[t].at \in Reading
        PROVE  drive'[t].seen = life'
    <3>1. CASE t = s
        BY <1>1, <2>3, <3>1, Zenon DEF Sound
    <3>2. CASE t # s
      <4>1. master = t /\ life' = life
          BY <1>6, <1>8, <2>3, <3>2, Zenon DEF Reigns, IsMaster
      <4>. QED BY <1>1, <1>2, <2>3, <3>2, <4>1, Zenon DEF MasterInv, IsMaster
    <3>. QED BY <3>1, <3>2
  <2>. QED BY <2>1, <2>2, <2>3, Zenon DEF MasterInv, In, IsMaster
<1>13. MineInv'
  <2>1. SUFFICES ASSUME NEW n \in Member, NEW t \in Session, hold'[n].by = t
                 PROVE  Holds(drive'[t], n, job'[n].live)
      BY Zenon DEF MineInv
  <2>2. CASE t = s
      BY <1>1, <2>1, <2>2, Zenon DEF Sound
  <2>3. CASE t # s
    <3>1. hold[n].by = t /\ drive'[t] = drive[t]
        BY <1>1, <1>4, <2>1, <2>3, Zenon
    <3>2. job'[n].live => job[n].live
        BY <1>5, <2>1, <2>3, Zenon
    <3>. QED BY <1>2, <3>1, <3>2, Zenon DEF MineInv, Holds
  <2>. QED BY <2>2, <2>3
<1>14. MadeInv'
  <2>1. ASSUME NEW t \in Session, NEW n \in drive'[t].wave PROVE job'[n].made
    <3>1. CASE t = s
        BY <1>1, <2>1, <3>1, Zenon DEF Sound
    <3>2. CASE t # s
      <4>1. n \in drive[t].wave /\ drive[t].wave \subseteq Member
          BY <1>1, <2>1, <3>2 DEF DriveRecord
      <4>. QED BY <1>2, <1>5, <4>1, Zenon DEF MadeInv
    <3>. QED BY <3>1, <3>2
  <2>2. \A n \in Member : job'[n].live => job'[n].made
      BY <1>2, <1>5, Zenon DEF MadeInv
  <2>. QED BY <2>1, <2>2, Zenon DEF MadeInv
<1>15. AskedInv'
    BY <1>1, <1>2, Zenon DEF Sound, AskedInv
<1>16. QuietInv'
  <2>1. ASSUME NEW t \in Session
        PROVE  /\ master' = t /\ Rests(drive'[t]) => \A n \in drive'[t].wave : ~job'[n].live
               /\ drive'[t].at = "running" => \A n \in drive'[t].wave :
                     /\ n \in drive'[t].asked \cup drive'[t].back => ~job'[n].live
                     /\ n \notin drive'[t].asked \cup drive'[t].back => job'[n].by = t
                     /\ n \in drive'[t].asked => life'[n] = "RUNNING"
    <3>1. CASE t = s
        BY <1>1, <3>1, Zenon DEF Sound
    <3>2. CASE t # s
      <4>1. drive'[t] = drive[t] /\ drive[t].wave \subseteq Member
          BY <1>1, <3>2 DEF DriveRecord
      <4>2. (master' = t \/ drive[t].at = "running") => Reigns(t)
          BY <1>6, <3>2 DEF Reigns, IsMaster, In
      <4>5. (master' = t \/ drive[t].at = "running") => life' = life /\ ~Reigns(s)
          BY <1>8, <3>2, <4>2, Zenon
      <4>3. \A n \in Member : ~Reigns(s) => /\ job'[n].live => job[n].live
                                            /\ job[n].by = t => job'[n].by = t
          BY <1>5, <3>2, Zenon
      <4>4. master' = t => master = t
          BY <1>6, <3>2
      <4>6. ASSUME master' = t, Rests(drive'[t]), NEW n \in drive'[t].wave PROVE ~job'[n].live
          BY <1>2, <4>1, <4>3, <4>4, <4>5, <4>6, Zenon DEF QuietInv, IsMaster
      <4>7. ASSUME drive'[t].at = "running", NEW n \in drive'[t].wave
            PROVE  /\ n \in drive'[t].asked \cup drive'[t].back => ~job'[n].live
                   /\ n \notin drive'[t].asked \cup drive'[t].back => job'[n].by = t
                   /\ n \in drive'[t].asked => life'[n] = "RUNNING"
        <5>1. Out(t, drive[t], n)
            BY <1>2, <4>1, <4>7, Zenon DEF QuietInv, In
        <5>2. n \in Member /\ ~Reigns(s) /\ life' = life
            BY <4>1, <4>5, <4>7, Zenon
        <5>3. /\ job'[n].live => job[n].live
              /\ job[n].by = t => job'[n].by = t
            BY <4>3, <5>2, Zenon
        <5>. QED BY <4>1, <5>1, <5>2, <5>3 DEF Out
      <4>. QED BY <4>6, <4>7, Zenon
    <3>. QED BY <3>1, <3>2
  <2>. QED BY <2>1, Zenon DEF QuietInv, Out, In, IsMaster
<1>17. OwnInv'
  <2>1. ASSUME NEW o \in outcomes', o.owner \in Session, ~o.settled
        PROVE  /\ drive'[o.owner].at \in {"admit", "running"}
               /\ \A h \in o.holds : /\ h.node \in drive'[o.owner].wave
                                     /\ h.node \in drive'[o.owner].back => hold'[h.node].id # h.id
    <3>1. CASE o.owner = s
        BY <1>1, <2>1, <3>1, Zenon DEF Sound, OwnOutcomes
    <3>2. CASE o.owner # s
      <4>1. PICK p \in outcomes : Alike(o, p)
          BY <2>1, <3>2, Zenon DEF Sound, OwnOutcomes
      <4>2. Owns(drive[o.owner], p) /\ drive'[o.owner] = drive[o.owner] /\ p.holds = o.holds
          BY <1>1, <1>2, <2>1, <3>2, <4>1, Zenon DEF OwnInv, Alike
      <4>3. \A h \in o.holds : h \in Named /\ h.node \in Member
          BY <4>1, <4>2, KnownHas, NamedIds, Zenon
      <4>4. \A h \in o.holds : hold'[h.node].id = h.id => hold[h.node].id = h.id
          BY <1>10, <4>3, Zenon
      <4>. QED BY <4>2, <4>4, Zenon DEF Owns
    <3>. QED BY <3>1, <3>2
  <2>. QED BY <2>1, Zenon DEF OwnInv, Owns
<1>18. SettledInv'
  <2>1. SUFFICES ASSUME NEW o \in Filed', o.settled PROVE Ends(o)
      BY Zenon DEF SettledInv, Dead, Ends
  <2>2. o \in outcomes' \cup d.todo \/ o \in Filed
    <3>1. o \in outcomes' \/ \E t \in Session : o \in drive'[t].todo
        BY <2>1 DEF Filed
    <3>. QED BY <1>1, <3>1, KnownHas, Zenon
  <2>3. CASE ~Ends(o)
    <3>1. PICK p \in Filed : p.settled /\ o.holds = p.holds
        BY <2>1, <2>2, <2>3, Zenon DEF Sound, ReadOutcomes
    <3>2. Dead(p) /\ \A h \in o.holds : h \in Named
        BY <1>2, <3>1, KnownHas, Zenon DEF SettledInv
    <3>. QED BY <1>10, <3>1, <3>2, Zenon DEF Dead, Ends
  <2>. QED BY <2>3
<1>19. ProvenInv'
  <2>1. ASSUME NEW t \in Session, drive'[t].at = "end", NEW p \in drive'[t].proven
        PROVE  /\ hold'[p.node].id = p.id => ~job'[p.node].live
               /\ \A u \in Session, n \in Member : Reigns(u)' /\ hold'[n].by = u =>
                     hold'[n].id # p.id
    <3>1. p \in Named
        BY <1>1, <2>1, KnownHas, Zenon DEF Sound, ReadOutcomes
    <3>2. p.id \in Known /\ p.id # 0 /\ p.node \in Member
        BY <3>1, KnownHas, NamedIds
    <3>3. CASE t = s
      <4>1. Reigns(s) /\ ~job'[p.node].live /\ d.at = "end"
          BY <1>1, <2>1, <3>3, Zenon DEF Sound
      <4>2. ASSUME NEW u \in Session, NEW n \in Member, Reigns(u)', hold'[n].by = u PROVE FALSE
        <5>1. u = s
            BY <1>7, <1>8, <4>1, <4>2, Zenon
        <5>2. d.at \in Launching
            BY <4>2, <5>1, Zenon DEF Sound, Holds
        <5>. QED BY <4>1, <5>2 DEF Launching
      <4>. QED BY <4>1, <4>2, Zenon
    <3>4. CASE t # s
      <4>1. Idle(p)
          BY <1>1, <1>2, <2>1, <3>4, Zenon DEF ProvenInv, In
      <4>2. ASSUME hold'[p.node].id = p.id, job'[p.node].live PROVE FALSE
        <5>1. hold[p.node].id = p.id
            BY <1>10, <3>1, <3>2, <4>2, Zenon
        <5>2. ~job[p.node].live
            BY <4>1, <5>1, Zenon DEF Idle
        <5>3. Reigns(s) /\ hold'[p.node].by = s
            BY <1>5, <3>2, <4>2, <5>2, Zenon
        <5>4. hold[p.node].by = s
            BY <1>4, <3>2, <4>2, <5>3, Zenon
        <5>. QED BY <3>2, <4>1, <5>1, <5>3, <5>4, Zenon DEF Idle
      <4>3. ASSUME NEW u \in Session, NEW n \in Member, Reigns(u)', hold'[n].by = u,
                   hold'[n].id = p.id
            PROVE  FALSE
        <5>1. hold[n].id = p.id /\ hold[n].by = u
            BY <1>4, <1>10, <3>1, <3>2, <4>3, Zenon
        <5>2. ~Reigns(u)
            BY <4>1, <5>1, Zenon DEF Idle
        <5>3. u = s
            BY <1>7, <4>3, <5>2, Zenon
        <5>4. d.at \in Launching /\ d.at # "recover" /\ (master' = s => master = s)
          <6>1. d.at \in Launching
              BY <4>3, <5>3, Zenon DEF Sound, Holds
          <6>2. d.at # "recover"
              BY <6>1 DEF Launching
          <6>. QED BY <1>3, <6>1, <6>2, Zenon DEF Sound
        <5>5. master' = s \/ d.at = "running"
            BY <1>1, <4>3, <5>3, Zenon DEF Reigns, IsMaster, In
        <5>6. Reigns(s)
            BY <5>4, <5>5, Zenon DEF Sound, Reigns, IsMaster
        <5>. QED BY <5>2, <5>3, <5>6
      <4>. QED BY <4>2, <4>3, Zenon
    <3>. QED BY <3>3, <3>4
  <2>. QED BY <2>1, Zenon DEF ProvenInv, Idle, In
<1>20. LiveIsAccounted'
  <2>1. SUFFICES ASSUME NEW n \in Member, job'[n].live
                 PROVE  hold'[n].amount >= job'[n].ceiling /\ life'[n] = "RUNNING"
      BY Zenon DEF LiveIsAccounted
  <2>2. CASE ~job[n].live
      BY <1>5, <2>1, <2>2, Zenon
  <2>3. CASE job[n].live
    <3>1. hold[n].amount >= job[n].ceiling /\ life[n] = "RUNNING"
        BY <2>3, Zenon DEF LiveIsAccounted
    <3>2. hold'[n].amount = hold[n].amount /\ job'[n].ceiling = job[n].ceiling
        BY <1>4, <1>5, <2>1, <2>3, Zenon
    <3>. QED BY <2>3, <3>1, <3>2, Zenon DEF Sound
  <2>. QED BY <2>2, <2>3
<1>. QED BY <1>11, <1>12, <1>13, <1>14, <1>15, <1>16, <1>17, <1>18, <1>19, <1>20 DEF OrderInv

Typed(s, d, x, y) ==
    /\ drive' = [drive EXCEPT ![s] = d] /\ d \in DriveRecord /\ Kept(d, y)
    /\ hold' \in [Member -> HoldRecord] /\ \A n \in Member : hold'[n].id \in Known \cup {x}
    /\ job' \in [Member -> JobRecord] /\ life' \in [Member -> Lives]
    /\ outcomes' \subseteq OutcomeRecord /\ master' \in Session \cup {"none"}
    /\ overtaken' \in BOOLEAN /\ faults' \in Nat

LEMMA StepKeeps ==
    ASSUME WavesAssumption, WaveInv, NEW s \in Session, NEW m, NEW d, NEW x, NEW y,
           Typed(s, d, x, y), BudgetIsKept', ~overtaken' => ~overtaken /\ Sound(s, m, d)
    PROVE  WaveInv'
<1>1. BaseInv'
  <2>1. BaseInv
      BY DEF BaseInv, WaveInv
  <2>. QED BY <2>1, BaseLift, Zenon DEF Typed
<1>2. WaveTypeOK /\ WaveTypeOK' /\ drive' = [drive EXCEPT ![s] = d]
    BY <1>1 DEF WaveInv, BaseInv, Typed
<1>3. CASE overtaken'
    BY <1>1, <1>3 DEF WaveInv, BaseInv, LiveIsAccounted
<1>4. CASE ~overtaken'
  <2>1. ~overtaken /\ Sound(s, m, d) /\ OrderInv /\ LiveIsAccounted
      BY <1>4, Zenon DEF WaveInv
  <2>2. OrderInv' /\ LiveIsAccounted'
      BY <1>2, <2>1, OrderKeeps, Zenon
  <2>. QED BY <1>1, <2>2, Zenon DEF WaveInv, BaseInv
<1>. QED BY <1>3, <1>4

LEMMA AmountsOf ==
    ASSUME WavesAssumption, NEW j \in [Member -> JobRecord], NEW h \in [Member -> HoldRecord]
    PROVE  [n \in Member |-> Larger(j[n].spent, h[n].amount)] \in Amounts
<1>. SUFFICES ASSUME NEW n \in Member PROVE Larger(j[n].spent, h[n].amount) \in 0..Want
    BY DEF Amounts
<1>1. j[n] \in JobRecord /\ h[n] \in HoldRecord
    OBVIOUS
<1>2. j[n].spent \in 0..Want /\ h[n].amount \in 0..Want
    BY <1>1 DEF JobRecord, HoldRecord
<1>. QED BY <1>2 DEF Larger

\* When no run spends, the budget is kept by whoever ends holds.
LEMMA EndingKeepsBudget ==
    ASSUME WavesAssumption, BudgetIsKept, WaveTypeOK, hold' \in [Member -> HoldRecord],
           job' \in [Member -> JobRecord], overtaken => overtaken',
           \A n \in Member : /\ \/ hold'[n].id = hold[n].id /\ hold'[n].amount = hold[n].amount
                                \/ hold'[n].id = 0 /\ hold'[n].amount = 0
                             /\ job'[n].spent = job[n].spent
    PROVE  BudgetIsKept'
<1>1. Uses' = [n \in Member |-> Larger(job'[n].spent, hold'[n].amount)]
    BY Zenon DEF Uses
<1>2. job \in [Member -> JobRecord] /\ hold \in [Member -> HoldRecord]
    BY DEF WaveTypeOK
<1>3. Uses \in Amounts /\ Uses' \in Amounts
    BY <1>1, <1>2, AmountsOf DEF Uses
<1>4. ASSUME NEW n \in Member
      PROVE  Uses'[n] <= Uses[n] /\ (hold'[n].id # 0 => hold[n].id # 0)
  <2>1. Uses'[n] = Larger(job[n].spent, hold'[n].amount)
        /\ Uses[n] = Larger(job[n].spent, hold[n].amount)
      BY <1>1, Zenon DEF Uses
  <2>2. job[n].spent \in Nat /\ hold[n].amount \in Nat /\ hold'[n].amount \in Nat
    <3>1. job[n] \in JobRecord /\ hold[n] \in HoldRecord /\ hold'[n] \in HoldRecord
        BY <1>2
    <3>. QED BY <3>1 DEF JobRecord, HoldRecord, WavesAssumption
  <2>3. hold'[n].amount <= hold[n].amount /\ (hold'[n].id # 0 => hold[n].id # 0)
      BY <2>2, NoHoldIs
  <2>. QED BY <2>1, <2>2, <2>3 DEF Larger
<1>. QED BY <1>3, <1>4, BudgetShrinks

\* What a session sees to that takes no hold and leaves the runs alone.
Fits(s, d) ==
    /\ life' = life \/ (IsMaster(s) /\ \A n \in Member : job[n].live => life'[n] = "RUNNING")
    /\ d.at = "running" => Reigns(s)
    /\ IsMaster(s) /\ d.at \in Reading => d.seen = life'
    /\ \A n \in Member : hold'[n].by = s => Holds(d, n, job[n].live)
    /\ \A n \in d.wave : job[n].made
    /\ Asks(d)
    /\ IsMaster(s) /\ Rests(d) => \A n \in d.wave : ~job[n].live
    /\ d.at = "running" => \A n \in d.wave :
          /\ n \in d.asked \cup d.back => ~job[n].live
          /\ n \notin d.asked \cup d.back => job[n].by = s
          /\ n \in d.asked => life'[n] = "RUNNING"
    /\ OwnOutcomes(s, d) /\ ReadOutcomes(d)
    /\ d.at = "end" => IsMaster(s) /\ \A p \in d.proven : p.node \in Member /\ ~job[p.node].live
Local(s, d, y) ==
    /\ drive' = [drive EXCEPT ![s] = d] /\ d \in DriveRecord /\ Kept(d, y)
    /\ hold' \in [Member -> HoldRecord]
    /\ \A n \in Member : hold'[n] = hold[n]
                         \/ (hold'[n] = NoHold /\ (~overtaken => ~job[n].live))
    /\ job' = job /\ life' \in [Member -> Lives] /\ outcomes' \subseteq OutcomeRecord
    /\ master' = master /\ overtaken' = overtaken /\ faults' \in Nat
    /\ ~overtaken => Fits(s, d)

LEMMA LocalKeeps ==
    ASSUME WavesAssumption, WaveInv, NEW s \in Session, NEW d, NEW y, Local(s, d, y)
    PROVE  WaveInv'
<1>1. /\ job \in [Member -> JobRecord] /\ master \in Session \cup {"none"}
      /\ overtaken \in BOOLEAN /\ hold \in [Member -> HoldRecord] /\ WaveTypeOK /\ BudgetIsKept
    BY DEF WaveInv, WaveTypeOK
<1>2. /\ job' = job /\ master' = master /\ overtaken' = overtaken
      /\ hold' \in [Member -> HoldRecord]
      /\ \A n \in Member : hold'[n] = hold[n] \/ hold'[n] = NoHold
    BY Zenon DEF Local
<1>3. NoHold.id = 0 /\ NoHold.by = "gone" /\ 0 \in Known /\ "gone" \notin Session
      /\ \A n \in Member : hold[n].id \in Known
    BY NoHoldIs, KnownHas DEF WavesAssumption
<1>4. Typed(s, d, 0, y)
  <2>1. \A n \in Member : hold'[n].id \in Known \cup {0}
      BY <1>2, <1>3, Zenon
  <2>. QED BY <1>1, <1>2, <2>1, Zenon DEF Typed, Local
<1>5. BudgetIsKept'
  <2>1. \A n \in Member : /\ \/ hold'[n].id = hold[n].id /\ hold'[n].amount = hold[n].amount
                             \/ hold'[n].id = 0 /\ hold'[n].amount = 0
                          /\ job'[n].spent = job[n].spent
      BY <1>2, NoHoldIs, Zenon
  <2>. QED BY <1>1, <1>2, <2>1, EndingKeepsBudget
<1>6. ASSUME ~overtaken PROVE Sound(s, 0, d)
  <2>1. Fits(s, d) /\ IdInv
      BY <1>6, Zenon DEF Local, WaveInv, OrderInv
  <2>2. \A n \in Member : HoldGoes(s, 0, n)
    <3>1. SUFFICES ASSUME NEW n \in Member PROVE HoldGoes(s, 0, n)
        OBVIOUS
    <3>2. CASE hold'[n] = hold[n]
        BY <2>1, <3>2, Zenon DEF HoldGoes, IdInv
    <3>3. CASE hold'[n] = NoHold /\ ~job[n].live
        BY <1>3, <3>3, Zenon DEF HoldGoes
    <3>. QED BY <1>6, <3>2, <3>3, Zenon DEF Local
  <2>3. \A n \in Member : JobGoes(s, 0, n)
      BY <1>2, Zenon DEF JobGoes
  <2>4. master' \in {master, "none"} /\ (IsMaster(s) <=> master' = s)
      BY <1>2 DEF IsMaster
  <2>. QED BY <1>2, <2>1, <2>2, <2>3, <2>4, Zenon DEF Sound, Fits, Reigns
<1>. QED BY <1>2, <1>4, <1>5, <1>6, StepKeeps

-----------------------------------------------------------------------------
(* A session ends                                                          *)

LifeGoes(s) ==
    /\ life' \in [Member -> Lives]
    /\ ~overtaken => life' = life
                     \/ (IsMaster(s) /\ \A n \in Member : job[n].live => life'[n] = "RUNNING")
Departs(s, h) ==
    /\ hold' = Forgotten(h, s) /\ drive' = [drive EXCEPT ![s] = Asleep]
    /\ outcomes' = Disowned(outcomes, s) /\ job' = Orphaned(job, s)
    /\ master' \in {master, "none"} /\ overtaken' = overtaken /\ faults' \in Nat
\* What a session may do to the holds when it ends, or before: end those of idle runs.
Frees(h) == \A n \in Member : h[n] = hold[n] \/ (h[n] = NoHold /\ (~overtaken => ~job[n].live))

LEMMA ForgottenIs ==
    ASSUME WavesAssumption, WaveTypeOK, NEW s \in Session, NEW h, Frees(h),
           NEW k, k = Forgotten(h, s)
    PROVE  /\ k \in [Member -> HoldRecord]
           /\ \A n \in Member : /\ k[n] = h[n] \/ (h[n].by = s /\ k[n].by = "gone")
                                /\ k[n].id = h[n].id /\ k[n].amount = h[n].amount /\ k[n].by # s
<1>1. ASSUME NEW n \in Member
      PROVE  /\ k[n] \in HoldRecord
             /\ k[n] = h[n] \/ (h[n].by = s /\ k[n].by = "gone")
             /\ k[n].id = h[n].id /\ k[n].amount = h[n].amount /\ k[n].by # s
  <2>1. h[n] \in HoldRecord
    <3>1. hold[n] \in HoldRecord
        BY DEF WaveTypeOK
    <3>. QED BY <3>1, NoHoldIs DEF Frees
  <2>2. "gone" # s
      BY DEF WavesAssumption
  <2>3. k[n] = IF h[n].by = s THEN [h[n] EXCEPT !.by = "gone"] ELSE h[n]
      BY DEF Forgotten
  <2>. QED BY <2>1, <2>2, <2>3 DEF HoldRecord
<1>2. k = [n \in Member |-> k[n]]
    BY DEF Forgotten
<1>. QED BY <1>1, <1>2, Zenon

LEMMA OrphanedIs ==
    ASSUME WavesAssumption, WaveTypeOK, NEW s \in Session, NEW j, j = Orphaned(job, s)
    PROVE  /\ j \in [Member -> JobRecord]
           /\ \A n \in Member :
                 /\ j[n].made = job[n].made /\ j[n].live = job[n].live
                 /\ j[n].ceiling = job[n].ceiling /\ j[n].spent = job[n].spent
                 /\ \A t \in Session \ {s} : job[n].by = t => j[n].by = t
<1>1. ASSUME NEW n \in Member
      PROVE  /\ j[n] \in JobRecord
             /\ j[n].made = job[n].made /\ j[n].live = job[n].live
             /\ j[n].ceiling = job[n].ceiling /\ j[n].spent = job[n].spent
             /\ \A t \in Session \ {s} : job[n].by = t => j[n].by = t
  <2>1. job[n] \in JobRecord
      BY DEF WaveTypeOK
  <2>2. j[n] = IF job[n].by = s THEN [job[n] EXCEPT !.by = "gone"] ELSE job[n]
      BY DEF Orphaned
  <2>. QED BY <2>1, <2>2 DEF JobRecord
<1>2. j = [n \in Member |-> j[n]]
    BY DEF Orphaned
<1>. QED BY <1>1, <1>2, Zenon

LEMMA DisownedIs ==
    ASSUME WavesAssumption, WaveTypeOK, NEW s \in Session, NEW o \in Disowned(outcomes, s)
    PROVE  /\ o \in OutcomeRecord /\ o.owner # s
           /\ \E p \in outcomes : /\ o.name = p.name /\ o.settled = p.settled /\ o.holds = p.holds
                                  /\ o = p \/ o.owner = "gone"
<1>1. PICK p \in outcomes : o = IF p.owner = s THEN [p EXCEPT !.owner = "gone"] ELSE p
    BY DEF Disowned
<1>2. p \in OutcomeRecord /\ "gone" \in Owners /\ "gone" # s
    BY DEF WaveTypeOK, Owners, WavesAssumption
<1>3. /\ o \in OutcomeRecord /\ o.name = p.name /\ o.settled = p.settled /\ o.holds = p.holds
      /\ o = p \/ o.owner = "gone"
    BY <1>1, <1>2, OutcomeFields
<1>4. o.owner # s
    BY <1>1, <1>2, OutcomeFields
<1>. QED BY <1>3, <1>4

LEMMA LeaveKeeps ==
    ASSUME WavesAssumption, WaveInv, NEW s \in Session, NEW h,
           Departs(s, h), Frees(h), LifeGoes(s)
    PROVE  WaveInv'
<1>1. /\ WaveTypeOK /\ BudgetIsKept /\ overtaken' = overtaken
      /\ "gone" \notin Session /\ "none" \notin Session
    BY DEF WaveInv, Departs, WavesAssumption
<1>2. /\ NoHold.id = 0 /\ NoHold.by = "gone" /\ NoHold.amount = 0 /\ 0 \in Known
      /\ \A n \in Member : hold[n].id \in Known
    BY NoHoldIs, KnownHas
<1>3. /\ hold' \in [Member -> HoldRecord]
      /\ \A n \in Member : /\ hold'[n] = h[n] \/ (h[n].by = s /\ hold'[n].by = "gone")
                           /\ hold'[n].id = h[n].id /\ hold'[n].amount = h[n].amount
                           /\ hold'[n].by # s
  <2>1. hold' = Forgotten(h, s)
      BY DEF Departs
  <2>. QED BY <1>1, <2>1, ForgottenIs
<1>4. /\ job' \in [Member -> JobRecord]
      /\ \A n \in Member :
            /\ job'[n].made = job[n].made /\ job'[n].live = job[n].live
            /\ job'[n].ceiling = job[n].ceiling /\ job'[n].spent = job[n].spent
            /\ \A t \in Session \ {s} : job[n].by = t => job'[n].by = t
  <2>1. job' = Orphaned(job, s)
      BY DEF Departs
  <2>. QED BY <1>1, <2>1, OrphanedIs
<1>5. /\ outcomes' \subseteq OutcomeRecord
      /\ \A o \in outcomes' :
            /\ o.owner # s
            /\ \E p \in outcomes : /\ o.name = p.name /\ o.settled = p.settled
                                   /\ o.holds = p.holds /\ (o = p \/ o.owner = "gone")
    BY <1>1, DisownedIs, Zenon DEF Departs
<1>6. Kept(Asleep, 0)
  <2>1. \A o \in outcomes' : o.name \in Names /\ \A g \in o.holds : g.id \in Known
      BY <1>5, KnownHas, Zenon
  <2>2. Asleep.at \notin {"claim", "end"}
      BY AsleepIs
  <2>. QED BY <2>1, <2>2, AsleepIs, Zenon DEF Kept
<1>7. Typed(s, Asleep, 0, 0)
  <2>1. \A n \in Member : hold'[n].id \in Known \cup {0}
      BY <1>2, <1>3, Zenon DEF Frees
  <2>2. master' \in Session \cup {"none"} /\ overtaken' \in BOOLEAN
      BY <1>1 DEF WaveTypeOK, Departs
  <2>. QED BY <1>3, <1>4, <1>5, <1>6, <2>1, <2>2, AsleepIs, Zenon DEF Typed, Departs, LifeGoes
<1>8. BudgetIsKept'
  <2>1. \A n \in Member : /\ \/ hold'[n].id = hold[n].id /\ hold'[n].amount = hold[n].amount
                             \/ hold'[n].id = 0 /\ hold'[n].amount = 0
                          /\ job'[n].spent = job[n].spent
    <3>1. SUFFICES ASSUME NEW n \in Member
                   PROVE  \/ h[n].id = hold[n].id /\ h[n].amount = hold[n].amount
                          \/ h[n].id = 0 /\ h[n].amount = 0
        BY <1>3, <1>4, Zenon
    <3>. QED BY <1>2, Zenon DEF Frees
  <2>. QED BY <1>1, <1>3, <1>4, <2>1, EndingKeepsBudget
<1>9. ASSUME ~overtaken PROVE Sound(s, 0, Asleep)
  <2>1. IdInv /\ MineInv /\ WaveTypeOK
      BY <1>1, <1>9, Zenon DEF WaveInv, OrderInv
  <2>2. \A n \in Member : HoldGoes(s, 0, n)
    <3>1. SUFFICES ASSUME NEW n \in Member PROVE HoldGoes(s, 0, n)
        OBVIOUS
    <3>2. hold'[n].id \in {0, hold[n].id}
        BY <1>2, <1>3, Zenon DEF Frees
    <3>3. hold'[n].id = 0 => hold'[n] = NoHold
      <4>1. hold'[n].id = 0 => h[n] = NoHold
          BY <1>2, <1>3, <2>1, ZenonT(60) DEF Frees, IdInv
      <4>. QED BY <1>1, <1>2, <1>3, <4>1, Zenon
    <3>4. \A t \in Session : hold'[n].by = t => hold[n].by = t /\ hold'[n].id = hold[n].id
        BY <1>1, <1>2, <1>3, ZenonT(60) DEF Frees
    <3>5. job[n].live => hold'[n].id = hold[n].id /\ hold'[n].amount = hold[n].amount
        BY <1>3, <1>9, Zenon DEF Frees
    <3>. QED BY <3>2, <3>3, <3>4, <3>5, Zenon DEF HoldGoes
  <2>3. \A n \in Member : JobGoes(s, 0, n)
      BY <1>4, Zenon DEF JobGoes
  <2>4. /\ Asleep.at \notin Reading /\ Asleep.at \notin {"running", "end"} /\ ~Rests(Asleep)
        /\ Asks(Asleep)
      BY AsleepIs DEF Reading, Launching, Rests, Asks
  <2>5. OwnOutcomes(s, Asleep)
      BY <1>1, <1>5, Zenon DEF OwnOutcomes, Alike
  <2>6. ReadOutcomes(Asleep)
    <3>1. \A o \in outcomes' : /\ \E p \in Filed : p.settled = o.settled /\ o.holds = p.holds
                               /\ \A g \in o.holds : g \in Named
        BY <1>5, KnownHas, Zenon
    <3>. QED BY <3>1, AsleepIs, Zenon DEF ReadOutcomes
  <2>. QED BY <1>3, <1>9, <2>2, <2>3, <2>4, <2>5, <2>6, AsleepIs, Zenon
           DEF Sound, Departs, LifeGoes
<1>. QED BY <1>1, <1>7, <1>8, <1>9, StepKeeps

-----------------------------------------------------------------------------
(* The runs, and the lease that lapses                                     *)

LEMMA OthersKeep ==
    ASSUME WavesAssumption, WaveInv, UNCHANGED <<hold, life, outcomes, drive, overtaken>>,
           master' \in {master, "none"}, faults' \in Nat, BudgetIsKept',
           job' \in [Member -> JobRecord],
           \A n \in Member : /\ job'[n].made = job[n].made /\ job'[n].ceiling = job[n].ceiling
                             /\ job'[n].by = job[n].by /\ (job'[n].live => job[n].live)
    PROVE  WaveInv'
<1>1. Filed' = Filed
    BY DEF Filed
<1>2. Named' = Named /\ Names' = Names
    BY <1>1 DEF Named, Names
<1>3. Known' = Known
    BY <1>2 DEF Known
<1>4. KnownInv' /\ TodoInv' /\ WaveTypeOK'
  <2>1. KnownInv' /\ TodoInv'
      BY <1>2, <1>3 DEF WaveInv, KnownInv, TodoInv
  <2>2. WaveTypeOK'
      BY DEF WaveInv, WaveTypeOK
  <2>. QED BY <2>1, <2>2
<1>5. CASE overtaken
    BY <1>4, <1>5 DEF WaveInv, LiveIsAccounted
<1>6. CASE ~overtaken
  <2>1. /\ IdInv /\ MasterInv /\ MineInv /\ MadeInv /\ AskedInv /\ QuietInv /\ OwnInv
        /\ SettledInv /\ ProvenInv /\ LiveIsAccounted
      BY <1>6 DEF WaveInv, OrderInv
  <2>2. /\ drive \in [Session -> DriveRecord] /\ "none" \notin Session
        /\ \A s \in Session : drive[s].wave \subseteq Member
      BY DEF WaveInv, WaveTypeOK, DriveRecord, WavesAssumption
  <2>3. \A s \in Session : master' = s => master = s
      BY <2>2
  <2>4. IdInv' /\ AskedInv' /\ OwnInv' /\ SettledInv'
    <3>1. IdInv' /\ AskedInv'
        BY <1>2, <2>1 DEF IdInv, AskedInv
    <3>2. OwnInv'
        BY <2>1 DEF OwnInv, Owns
    <3>3. SettledInv'
        BY <1>1, <2>1 DEF SettledInv, Dead
    <3>. QED BY <3>1, <3>2, <3>3
  <2>5. MasterInv'
      BY <2>1, <2>3 DEF MasterInv, In, IsMaster
  <2>6. MineInv'
      BY <2>1 DEF MineInv, Holds
  <2>7. MadeInv'
      BY <2>1, <2>2 DEF MadeInv
  <2>8. QuietInv'
    <3>1. ASSUME NEW s \in Session, master' = s, Rests(drive[s]), NEW n \in drive[s].wave
          PROVE  ~job'[n].live
        BY <2>1, <2>2, <2>3, <3>1, Zenon DEF QuietInv, IsMaster
    <3>2. ASSUME NEW s \in Session, drive[s].at = "running", NEW n \in drive[s].wave
          PROVE  /\ n \in drive[s].asked \cup drive[s].back => ~job'[n].live
                 /\ n \notin drive[s].asked \cup drive[s].back => job'[n].by = s
                 /\ n \in drive[s].asked => life[n] = "RUNNING"
      <4>1. Out(s, drive[s], n) /\ n \in Member
          BY <2>1, <2>2, <3>2, Zenon DEF QuietInv, In
      <4>. QED BY <4>1 DEF Out
    <3>. QED BY <3>1, <3>2, Zenon DEF QuietInv, IsMaster, In, Out
  <2>9. ProvenInv'
    <3>5. hold' = hold /\ drive' = drive
        OBVIOUS
    <3>1. SUFFICES ASSUME NEW s \in Session, drive[s].at = "end", NEW p \in drive[s].proven
                   PROVE  /\ hold'[p.node].id = p.id => ~job'[p.node].live
                          /\ \A t \in Session, n \in Member : Reigns(t)' /\ hold'[n].by = t =>
                                hold'[n].id # p.id
        BY <3>5 DEF ProvenInv, Idle, In
    <3>2. Idle(p)
        BY <2>1, <3>1, Zenon DEF ProvenInv, In
    <3>3. \A t \in Session : Reigns(t)' => Reigns(t)
        BY <2>3 DEF Reigns, IsMaster, In
    <3>4. p.node \in Member
      <4>1. drive[s].proven \subseteq Entry
          BY <2>2 DEF DriveRecord
      <4>. QED BY <3>1, <4>1 DEF Entry
    <3>. QED BY <2>2, <3>2, <3>3, <3>4, <3>5 DEF Idle
  <2>10. LiveIsAccounted'
      BY <2>1 DEF LiveIsAccounted
  <2>11. OrderInv'
      BY <2>4, <2>5, <2>6, <2>7, <2>8, <2>9 DEF OrderInv
  <2>. QED BY <1>4, <2>10, <2>11 DEF WaveInv
<1>. QED BY <1>5, <1>6

LEMMA LapseKeeps ==
    ASSUME WavesAssumption, WaveInv, MasterLapses
    PROVE  WaveInv'
<1>1. /\ UNCHANGED <<hold, life, outcomes, drive, overtaken, job>> /\ master' = "none"
      /\ WaveTypeOK /\ BudgetIsKept
    BY DEF MasterLapses, WaveInv
<1>2. faults' \in Nat /\ job' \in [Member -> JobRecord] /\ hold' \in [Member -> HoldRecord]
    BY <1>1 DEF MasterLapses, Fault, WaveTypeOK
<1>3. BudgetIsKept'
    BY <1>1, <1>2, EndingKeepsBudget
<1>. QED BY <1>1, <1>2, <1>3, OthersKeep

LEMMA StopKeeps ==
    ASSUME WavesAssumption, WaveInv, NEW n \in Member, Stop(n)
    PROVE  WaveInv'
<1>1. /\ UNCHANGED <<hold, life, outcomes, drive, overtaken, master, faults>>
      /\ WaveTypeOK /\ BudgetIsKept /\ job' = [job EXCEPT ![n].live = FALSE]
    BY DEF Stop, WaveInv
<1>2. faults' \in Nat /\ job \in [Member -> JobRecord] /\ hold' \in [Member -> HoldRecord]
    BY <1>1 DEF WaveTypeOK
<1>3. /\ job' \in [Member -> JobRecord]
      /\ \A k \in Member : /\ job'[k].made = job[k].made /\ job'[k].ceiling = job[k].ceiling
                           /\ job'[k].spent = job[k].spent
                           /\ job'[k].by = job[k].by /\ (job'[k].live => job[k].live)
  <2>1. job[n] \in JobRecord
      BY <1>2
  <2>2. [job[n] EXCEPT !.live = FALSE] \in JobRecord
      BY <2>1 DEF JobRecord
  <2>3. LET j == [job[n] EXCEPT !.live = FALSE] IN
        /\ j.made = job[n].made /\ j.ceiling = job[n].ceiling
        /\ j.spent = job[n].spent /\ j.by = job[n].by /\ ~j.live
      BY <2>1 DEF JobRecord
  <2>4. job' = [job EXCEPT ![n] = [job[n] EXCEPT !.live = FALSE]]
      BY <1>1
  <2>. QED BY <1>2, <2>2, <2>3, <2>4, Zenon
<1>4. BudgetIsKept'
    BY <1>1, <1>2, <1>3, EndingKeepsBudget
<1>. QED BY <1>1, <1>2, <1>3, <1>4, OthersKeep

LEMMA SpendKeeps ==
    ASSUME WavesAssumption, WaveInv, NEW n \in Member, Spend(n)
    PROVE  WaveInv'
<1>1. /\ UNCHANGED <<hold, life, outcomes, drive, overtaken, master, faults>>
      /\ WaveTypeOK /\ BudgetIsKept /\ job' = [job EXCEPT ![n].spent = @ + 1]
      /\ job[n].live /\ job[n].spent < job[n].ceiling
    BY DEF Spend, WaveInv
<1>2. faults' \in Nat /\ job \in [Member -> JobRecord] /\ hold \in [Member -> HoldRecord]
    BY <1>1 DEF WaveTypeOK
<1>3. /\ job[n] \in JobRecord /\ job[n].spent \in Nat /\ job[n].ceiling \in 0..Want
      /\ Want \in Nat /\ job[n].spent + 1 \in 0..Want /\ job[n].spent + 1 <= job[n].ceiling
  <2>1. job[n] \in JobRecord /\ Want \in Nat
      BY <1>2 DEF WavesAssumption
  <2>2. job[n].spent \in 0..Want /\ job[n].ceiling \in 0..Want
      BY <2>1 DEF JobRecord
  <2>. QED BY <1>1, <2>1, <2>2
<1>4. /\ job' \in [Member -> JobRecord]
      /\ \A k \in Member : /\ job'[k].made = job[k].made /\ job'[k].ceiling = job[k].ceiling
                           /\ job'[k].by = job[k].by /\ (job'[k].live => job[k].live)
                           /\ k # n => job'[k].spent = job[k].spent
      /\ job'[n].spent = job[n].spent + 1
  <2>2. [job[n] EXCEPT !.spent = job[n].spent + 1] \in JobRecord
      BY <1>3 DEF JobRecord
  <2>3. LET j == [job[n] EXCEPT !.spent = job[n].spent + 1] IN
        /\ j.made = job[n].made /\ j.ceiling = job[n].ceiling
        /\ j.spent = job[n].spent + 1 /\ j.by = job[n].by /\ (j.live => job[n].live)
      BY <1>3 DEF JobRecord
  <2>4. job' = [job EXCEPT ![n] = [job[n] EXCEPT !.spent = job[n].spent + 1]]
      BY <1>1
  <2>. QED BY <1>2, <2>2, <2>3, <2>4, Zenon
<1>5. BudgetIsKept'
  <2>1. Uses' = [k \in Member |-> Larger(job'[k].spent, hold[k].amount)]
      BY <1>1 DEF Uses
  <2>2. Uses \in Amounts /\ Uses' \in Amounts
      BY <1>2, <1>4, <2>1, AmountsOf DEF Uses
  <2>3. ASSUME ~overtaken, NEW k \in Member
        PROVE  Uses'[k] <= Uses[k] /\ (hold'[k].id # 0 => hold[k].id # 0)
    <3>1. Uses'[k] = Larger(job'[k].spent, hold[k].amount)
          /\ Uses[k] = Larger(job[k].spent, hold[k].amount)
        BY <2>1, Zenon DEF Uses
    <3>2. job[k].spent \in Nat /\ hold[k].amount \in Nat
      <4>1. job[k] \in JobRecord /\ hold[k] \in HoldRecord
          BY <1>2
      <4>. QED BY <4>1 DEF JobRecord, HoldRecord, WavesAssumption
    <3>3. CASE k = n
      <4>1. hold[n].amount >= job[n].ceiling
          BY <1>1, <2>3 DEF WaveInv, LiveIsAccounted
      <4>. QED BY <1>1, <1>3, <1>4, <3>1, <3>2, <3>3, <4>1 DEF Larger
    <3>4. CASE k # n
        BY <1>1, <1>4, <3>1, <3>2, <3>4 DEF Larger
    <3>. QED BY <3>3, <3>4
  <2>. QED BY <1>1, <2>2, <2>3, BudgetShrinks
<1>. QED BY <1>1, <1>2, <1>4, <1>5, OthersKeep

-----------------------------------------------------------------------------
(* A session recovers and boots                                            *)

\* Outcomes that were read or filed before, but for their counts and their owners.
Rereads(d) == \A o \in outcomes' \cup d.todo :
    \E p \in Filed : o.name = p.name /\ o.settled = p.settled /\ o.holds = p.holds

LEMMA RereadIs ==
    ASSUME NEW d, Rereads(d), \A h \in d.proven : h \in Named
    PROVE  /\ ReadOutcomes(d)
           /\ (d.at \in {"claim", "end"} => d.todo # {}) => Kept(d, 0)
<1>1. ReadOutcomes(d)
    BY KnownHas, Zenon DEF Rereads, ReadOutcomes
<1>2. ASSUME d.at \in {"claim", "end"} => d.todo # {} PROVE Kept(d, 0)
    BY <1>2, KnownHas, Zenon DEF Rereads, Kept
<1>. QED BY <1>1, <1>2

Asides == {"recover", "claim", "end", "boot", "round"}
Aside(s, d) ==
    /\ drive' = [drive EXCEPT ![s] = d] /\ d \in DriveRecord /\ d.at \in Asides
    /\ drive[s].at \notin Launching
    /\ d.wave = drive[s].wave /\ d.flying = drive[s].flying
    /\ hold' \in [Member -> HoldRecord] /\ Frees(hold') /\ LifeGoes(s)
    /\ job' = job /\ master' = master /\ overtaken' = overtaken /\ faults' \in Nat
    /\ outcomes' \subseteq OutcomeRecord
    /\ \A o \in outcomes' : \E p \in outcomes : Alike(o, p)
    /\ Rereads(d) /\ \A h \in d.proven : h \in Named
    /\ d.at \in {"claim", "end"} => d.todo # {}
    /\ ~overtaken => /\ IsMaster(s) /\ d.at \in {"boot", "round"} => d.seen = life'
                     /\ d.at = "end" => IsMaster(s) /\ \A p \in d.proven : ~job[p.node].live

LEMMA AsideKeeps ==
    ASSUME WavesAssumption, WaveInv, NEW s \in Session, NEW d, Aside(s, d)
    PROVE  WaveInv'
<1>1. WaveTypeOK /\ NoHold.by = "gone" /\ s # "gone"
    BY NoHoldIs DEF WaveInv, WavesAssumption
<1>2. Kept(d, 0) /\ ReadOutcomes(d)
    BY RereadIs DEF Aside
<1>3. ASSUME ~overtaken PROVE Fits(s, d)
  <2>1. /\ MineInv /\ MadeInv /\ AskedInv /\ OwnInv
      BY <1>3 DEF WaveInv, OrderInv
  <2>2. /\ d.at \notin Launching /\ d.at # "running" /\ ~Rests(d)
        /\ d.at \in Reading => d.at \in {"boot", "round"}
        /\ d.at \notin {"prepare", "admit", "running", "settle"}
      BY DEF Aside, Asides, Launching, Rests, Reading
  <2>3. drive[s].at \notin Launching /\ drive[s].at \notin {"admit", "running"}
      BY DEF Aside, Launching
  <2>4. \A n \in Member : hold'[n].by # s
      BY <1>1, <2>1, <2>3, Zenon DEF Aside, Frees, MineInv, Holds
  <2>5. \A n \in d.wave : job[n].made
      BY <2>1, Zenon DEF Aside, MadeInv
  <2>6. Asks(d)
    <3>1. d.flying = {}
        BY <2>1, Zenon DEF Aside, AskedInv, Asks
    <3>. QED BY <2>2, <3>1 DEF Asks
  <2>7. OwnOutcomes(s, d)
    <3>1. SUFFICES ASSUME NEW o \in outcomes', o.owner \in Session, ~o.settled
                   PROVE  o.owner # s /\ \E p \in outcomes : Alike(o, p)
        BY Zenon DEF OwnOutcomes
    <3>2. PICK p \in outcomes : Alike(o, p)
        BY DEF Aside
    <3>. QED BY <2>1, <2>3, <3>1, <3>2, Zenon DEF Alike, OwnInv, Owns
  <2>8. d.at = "end" => IsMaster(s) /\ \A p \in d.proven : p.node \in Member /\ ~job[p.node].live
      BY <1>1, <1>3, NamedIds, Zenon DEF Aside
  <2>9. /\ life' = life \/ (IsMaster(s) /\ \A n \in Member : job[n].live => life'[n] = "RUNNING")
        /\ IsMaster(s) /\ d.at \in Reading => d.seen = life'
      BY <1>3, <2>2, Zenon DEF Aside, LifeGoes
  <2>. QED BY <1>2, <2>2, <2>4, <2>5, <2>6, <2>7, <2>8, <2>9, Zenon DEF Fits
<1>4. Local(s, d, 0)
    BY <1>2, <1>3, Zenon DEF Local, Aside, Frees, LifeGoes
<1>. QED BY <1>4, LocalKeeps

\* Leave is a session's end.
LEMMA LeaveIs ==
    ASSUME WavesAssumption, WaveInv, NEW s \in Session, NEW h, Leave(s, h), Frees(h),
           LifeGoes(s), overtaken' = overtaken, faults' \in Nat
    PROVE  WaveInv'
<1>1. Departs(s, h)
    BY Zenon DEF Leave, Departs
<1>. QED BY <1>1, LeaveKeeps

LEMMA FaultsCount ==
    ASSUME WaveTypeOK, NoFault \/ Fault
    PROVE  faults' \in Nat
BY DEF WaveTypeOK, NoFault, Fault

\* What a session that reads an outcome has in hand.
LEMMA Next0Is ==
    ASSUME WaveTypeOK, NEW s \in Session, drive[s].todo # {}, NEW b, b = Next0(s)
    PROVE  b \in drive[s].todo /\ b \in OutcomeRecord /\ b \in Filed
<1>1. drive[s].todo \subseteq OutcomeRecord
    BY DEF WaveTypeOK, DriveRecord
<1>. DEFINE S == {o.name : o \in drive[s].todo}
<1>2. S \in SUBSET Nat /\ S # {}
    BY <1>1 DEF OutcomeRecord
<1>3. PICK m \in S : \A k \in S : m <= k
    BY <1>2, LeastExists
<1>4. PICK o \in drive[s].todo : o.name = m
    BY <1>3
<1>5. \A p \in drive[s].todo : o.name <= p.name
    BY <1>3, <1>4
<1>6. b \in drive[s].todo
    BY <1>4, <1>5, Zenon DEF Next0
<1>. QED BY <1>1, <1>6, KnownHas

LEMMA LeastIs ==
    ASSUME NEW ns \in SUBSET Member, ns # {}, NEW n, n = Least(ns)
    PROVE  n \in ns
<1>1. ns \in SUBSET Nat
    BY DEF Member
<1>2. \E m \in ns : \A k \in ns : m <= k
    BY <1>1, LeastExists
<1>. QED BY <1>2, Zenon DEF Least

LEMMA OnFileIs ==
    ASSUME WaveTypeOK, NEW b, NEW o \in OnFile(b)
    PROVE  /\ o \in outcomes /\ o \in OutcomeRecord /\ Bytes(o) = b
           /\ o.name = b.name /\ o.settled = b.settled /\ o.holds = b.holds
<1>1. o \in outcomes /\ Bytes(o) = b /\ o \in OutcomeRecord
    BY DEF OnFile, WaveTypeOK
<1>2. "any" \in Owners
    BY DEF Owners
<1>. QED BY <1>1, <1>2, OutcomeFields DEF Bytes

Passed(r, T, a) == [r EXCEPT !.todo = T, !.at = a]

LEMMA AtTodo ==
    ASSUME NEW r \in DriveRecord, NEW a \in Steps, NEW T \in SUBSET OutcomeRecord, NEW d,
           d = Passed(r, T, a)
    PROVE  /\ d \in DriveRecord /\ d.at = a /\ d.todo = T
           /\ d.proven = r.proven /\ d.wave = r.wave /\ d.flying = r.flying /\ d.seen = r.seen
<1>1. [r EXCEPT !.todo = T] \in DriveRecord
    BY DriveFields, Zenon
<1>2. d = [[r EXCEPT !.todo = T] EXCEPT !.at = a]
    BY DEF Passed
<1>3. d \in DriveRecord
    BY <1>1, <1>2, DriveFields, ZenonT(60)
<1>. QED BY <1>3, SMTT(60) DEF DriveRecord, Passed

LEMMA StepsAre ==
    /\ Asides \subseteq Steps /\ Launching \subseteq Reading /\ Reading \subseteq Steps
    /\ Asides \cap Launching = {}
    /\ "recover" \in Asides /\ "claim" \in Asides /\ "end" \in Asides /\ "boot" \in Asides
    /\ "round" \in Asides
BY DEF Asides, Steps, Reading, Launching

\* An outcome is passed over.
LEMMA SkippedIs ==
    ASSUME WaveTypeOK, NEW s \in Session, NEW b,
           NEW d, d = Passed(drive[s], drive[s].todo \ {b}, "recover")
    PROVE  /\ Skipped(s, b) = [drive EXCEPT ![s] = d]
           /\ d \in DriveRecord /\ d.at = "recover" /\ d.todo = drive[s].todo \ {b}
           /\ d.proven = drive[s].proven /\ d.wave = drive[s].wave
           /\ d.flying = drive[s].flying
<1>1. drive[s] \in DriveRecord /\ drive[s].todo \subseteq OutcomeRecord
    BY DEF WaveTypeOK, DriveRecord
<1>2. Skipped(s, b) = [drive EXCEPT ![s] = d]
    BY Zenon DEF Skipped, Passed
<1>3. drive[s].todo \ {b} \in SUBSET OutcomeRecord /\ "recover" \in Steps
    BY <1>1, StepsAre
<1>. QED BY <1>1, <1>2, <1>3, AtTodo

\* What is passed over changes nothing that others rely on.
LEMMA SkipKeeps ==
    ASSUME WavesAssumption, WaveInv, NEW s \in Session, NEW b, drive' = Skipped(s, b),
           drive[s].at \notin Launching, hold' \in [Member -> HoldRecord], Frees(hold'),
           UNCHANGED <<life, job, master, overtaken>>, faults' \in Nat,
           outcomes' \subseteq outcomes
    PROVE  WaveInv'
<1>1. PICK d : d = Passed(drive[s], drive[s].todo \ {b}, "recover")
    OBVIOUS
<1>2. WaveTypeOK /\ life \in [Member -> Lives] /\ outcomes \subseteq OutcomeRecord
    BY DEF WaveInv, WaveTypeOK
<1>3. /\ drive' = [drive EXCEPT ![s] = d]
      /\ d \in DriveRecord /\ d.at = "recover" /\ d.todo = drive[s].todo \ {b}
      /\ d.proven = drive[s].proven /\ d.wave = drive[s].wave /\ d.flying = drive[s].flying
  <2>1. Skipped(s, b) = [drive EXCEPT ![s] = d]
      BY <1>1, <1>2, SkippedIs, Zenon
  <2>2. /\ d \in DriveRecord /\ d.at = "recover" /\ d.todo = drive[s].todo \ {b}
        /\ d.proven = drive[s].proven /\ d.wave = drive[s].wave /\ d.flying = drive[s].flying
    <3>1. drive[s] \in DriveRecord /\ drive[s].todo \ {b} \in SUBSET OutcomeRecord
        BY <1>2 DEF WaveTypeOK, DriveRecord
    <3>2. "recover" \in Steps
        BY StepsAre
    <3>. QED BY <1>1, <3>1, <3>2, AtTodo
  <2>3. drive' = [drive EXCEPT ![s] = d]
      BY <2>1
  <2>. QED BY <2>2, <2>3
<1>4. Rereads(d) /\ \A h \in d.proven : h \in Named
    BY <1>3, KnownHas DEF Rereads
<1>5. life' = life /\ job' = job /\ master' = master /\ overtaken' = overtaken
    OBVIOUS
<1>6. LifeGoes(s)
    BY <1>2, <1>5 DEF LifeGoes
<1>7. Aside(s, d)
    BY <1>2, <1>3, <1>4, <1>5, <1>6, StepsAre DEF Aside, Alike
<1>. QED BY <1>7, AsideKeeps

LEMMA HoldStays ==
    ASSUME WaveInv
    PROVE  hold \in [Member -> HoldRecord] /\ Frees(hold) /\ WaveTypeOK
           /\ \A s \in Session : drive[s] \in DriveRecord
BY DEF WaveInv, WaveTypeOK, Frees

LEMMA CountedIs ==
    ASSUME NEW o \in OutcomeRecord, NEW s, NEW p, p = Counted(o, s)
    PROVE  /\ p \in OutcomeRecord /\ p.name = o.name /\ p.owner = o.owner
           /\ p.settled = o.settled /\ p.holds = o.holds
<1>1. o.waits + 1 \in Nat /\ o.attempts + 1 \in Nat
    BY DEF OutcomeRecord
<1>2. CASE OwnerAlive(o, s)
  <2>1. p = [o EXCEPT !.waits = o.waits + 1]
      BY <1>2 DEF Counted
  <2>. QED BY <1>1, <2>1, SMT DEF OutcomeRecord
<1>3. CASE ~OwnerAlive(o, s)
  <2>1. p = [o EXCEPT !.attempts = o.attempts + 1]
      BY <1>3 DEF Counted
  <2>. QED BY <1>1, <2>1, SMT DEF OutcomeRecord
<1>. QED BY <1>2, <1>3

LEMMA ConsiderKeeps ==
    ASSUME WavesAssumption, WaveInv, NEW s \in Session, Consider(s)
    PROVE  WaveInv'
<1>1. PICK b : b = Next0(s)
    OBVIOUS
<1>2. PICK o : o = CHOOSE x \in OnFile(b) : TRUE
    OBVIOUS
<1>3. /\ hold \in [Member -> HoldRecord] /\ Frees(hold) /\ WaveTypeOK
      /\ drive[s] \in DriveRecord /\ life \in [Member -> Lives] /\ faults \in Nat
    BY HoldStays DEF WaveTypeOK
<1>4. /\ drive[s].todo # {} /\ drive[s].at = "recover" /\ drive[s].at \notin Launching
      /\ life' = life /\ overtaken' = overtaken /\ faults' = faults
    BY StepsAre DEF Consider, In, Launching
<1>5. LifeGoes(s)
    BY <1>3, <1>4 DEF LifeGoes
<1>6. CASE ~IsMaster(s)
  <2>1. Leave(s, hold)
      BY <1>6 DEF Consider
  <2>. QED BY <1>3, <1>4, <1>5, <2>1, LeaveIs
<1>7. CASE IsMaster(s) /\ outcomes' \subseteq outcomes /\ drive' = Skipped(s, b)
  <2>1. hold' = hold /\ job' = job /\ master' = master
      BY <1>7 DEF Consider
  <2>. QED BY <1>3, <1>4, <1>7, <2>1, SkipKeeps
<1>8. CASE IsMaster(s) /\ ~(outcomes' \subseteq outcomes /\ drive' = Skipped(s, b))
  <2>1. hold' = hold /\ job' = job /\ master' = master
      BY <1>8 DEF Consider
  <2>2. /\ OnFile(b) # {} /\ outcomes' = (outcomes \ {o}) \cup {Counted(o, s)}
        /\ drive' = IF OwnerAlive(o, s) THEN Skipped(s, b)
                    ELSE [drive EXCEPT ![s].at = "claim",
                             ![s].todo = (@ \ {b}) \cup {Bytes(Counted(o, s))}]
      BY <1>1, <1>2, <1>8, Zenon DEF Consider
  <2>3. o \in OnFile(b)
      BY <1>2, <2>2
  <2>4. b \in OutcomeRecord /\ b \in Filed
      BY <1>1, <1>3, <1>4, Next0Is
  <2>5. /\ o \in outcomes /\ o \in OutcomeRecord
        /\ o.name = b.name /\ o.settled = b.settled /\ o.holds = b.holds
      BY <1>3, <2>3, OnFileIs
  <2>6. PICK c : c = Counted(o, s)
      OBVIOUS
  <2>7. /\ c \in OutcomeRecord /\ c.name = o.name /\ c.owner = o.owner
        /\ c.settled = o.settled /\ c.holds = o.holds
      BY <2>5, <2>6, CountedIs
  <2>8. PICK e : e = Bytes(c)
      OBVIOUS
  <2>9. e \in OutcomeRecord /\ e.name = o.name /\ e.settled = o.settled /\ e.holds = o.holds
      BY <2>7, <2>8, OutcomeFields DEF Bytes, Owners
  <2>10. PICK d : d = IF OwnerAlive(o, s)
                      THEN Passed(drive[s], drive[s].todo \ {b}, "recover")
                      ELSE Passed(drive[s], (drive[s].todo \ {b}) \cup {e}, "claim")
      OBVIOUS
  <2>11. drive' = [drive EXCEPT ![s] = d]
    <3>1. CASE OwnerAlive(o, s)
        BY <2>2, <2>10, <3>1, Zenon DEF Skipped, Passed
    <3>2. CASE ~OwnerAlive(o, s)
      <4>1. drive' = [drive EXCEPT ![s].at = "claim", ![s].todo = (@ \ {b}) \cup {e}]
          BY <2>2, <2>6, <2>8, <3>2, Zenon
      <4>2. d = [drive[s] EXCEPT !.at = "claim", !.todo = (drive[s].todo \ {b}) \cup {e}]
          BY <1>3, <2>10, <3>2 DEF DriveRecord, Passed
      <4>. QED BY <4>1, <4>2, Zenon
    <3>. QED BY <3>1, <3>2
  <2>12. /\ d \in DriveRecord /\ d.at \in {"recover", "claim"}
         /\ d.todo \in {drive[s].todo \ {b}, (drive[s].todo \ {b}) \cup {e}}
         /\ d.at = "claim" => e \in d.todo
         /\ d.proven = drive[s].proven /\ d.wave = drive[s].wave
         /\ d.flying = drive[s].flying
    <3>1. /\ drive[s].todo \ {b} \in SUBSET OutcomeRecord
          /\ (drive[s].todo \ {b}) \cup {e} \in SUBSET OutcomeRecord
        BY <1>3, <2>9 DEF DriveRecord
    <3>2. "recover" \in Steps /\ "claim" \in Steps
        BY StepsAre
    <3>3. CASE OwnerAlive(o, s)
      <4>1. d = Passed(drive[s], drive[s].todo \ {b}, "recover")
          BY <2>10, <3>3
      <4>2. /\ d \in DriveRecord /\ d.at = "recover" /\ d.todo = drive[s].todo \ {b}
            /\ d.proven = drive[s].proven /\ d.wave = drive[s].wave
            /\ d.flying = drive[s].flying
          BY <1>3, <3>1, <3>2, <4>1, AtTodo
      <4>. QED BY <4>2
    <3>4. CASE ~OwnerAlive(o, s)
      <4>1. d = Passed(drive[s], (drive[s].todo \ {b}) \cup {e}, "claim")
          BY <2>10, <3>4
      <4>2. /\ d \in DriveRecord /\ d.at = "claim" /\ d.todo = (drive[s].todo \ {b}) \cup {e}
            /\ d.proven = drive[s].proven /\ d.wave = drive[s].wave
            /\ d.flying = drive[s].flying
          BY <1>3, <3>1, <3>2, <4>1, AtTodo
      <4>. QED BY <4>2
    <3>. QED BY <3>3, <3>4
  <2>13. outcomes' = (outcomes \ {o}) \cup {c}
      BY <2>2, <2>6
  <2>14. Rereads(d) /\ \A h \in d.proven : h \in Named
    <3>1. ASSUME NEW q \in outcomes' \cup d.todo
          PROVE  \E p \in Filed : q.name = p.name /\ q.settled = p.settled /\ q.holds = p.holds
      <4>1. o \in Filed
          BY <2>5, KnownHas
      <4>2. q \in Filed \/ q = c \/ q = e
          BY <2>12, <2>13, <3>1, KnownHas
      <4>. QED BY <2>7, <2>9, <4>1, <4>2, Zenon
    <3>. QED BY <2>12, <3>1, KnownHas DEF Rereads
  <2>15. outcomes' \subseteq OutcomeRecord /\ \A q \in outcomes' : \E p \in outcomes : Alike(q, p)
    <3>1. outcomes \subseteq OutcomeRecord
        BY <1>3 DEF WaveTypeOK
    <3>2. Alike(c, o)
        BY <2>7 DEF Alike
    <3>3. \A q \in outcomes : Alike(q, q)
        BY DEF Alike
    <3>. QED BY <2>5, <2>7, <2>13, <3>1, <3>2, <3>3
  <2>16. /\ d.at \in Asides /\ d.at # "end" /\ d.at \notin {"boot", "round"}
         /\ d.at \in {"claim", "end"} => d.todo # {}
      BY <2>12, StepsAre
  <2>17. Aside(s, d)
      BY <1>3, <1>4, <1>5, <2>1, <2>11, <2>12, <2>14, <2>15, <2>16, Zenon DEF Aside
  <2>. QED BY <2>17, AsideKeeps
<1>. QED BY <1>6, <1>7, <1>8

LEMMA EndedByIdIs ==
    ASSUME WavesAssumption, WaveTypeOK, NEW ids, NEW h, h = EndedById(hold, ids)
    PROVE  /\ h \in [Member -> HoldRecord]
           /\ \A n \in Member : h[n] = IF hold[n].id \in ids THEN NoHold ELSE hold[n]
<1>1. hold \in [Member -> HoldRecord] /\ NoHold \in HoldRecord
    BY NoHoldIs DEF WaveTypeOK
<1>2. h = [n \in Member |-> IF hold[n].id \in ids THEN NoHold ELSE hold[n]]
    BY DEF EndedById
<1>. QED BY <1>1, <1>2

LEMMA FreesById ==
    ASSUME WavesAssumption, WaveTypeOK, NEW ids, NEW h, h = EndedById(hold, ids),
           ~overtaken => \A n \in Member : hold[n].id \in ids => ~job[n].live
    PROVE  h \in [Member -> HoldRecord] /\ Frees(h)
<1>1. /\ h \in [Member -> HoldRecord]
      /\ \A n \in Member : h[n] = IF hold[n].id \in ids THEN NoHold ELSE hold[n]
    BY EndedByIdIs
<1>. QED BY <1>1 DEF Frees

\* Nothing changes on the way out but what this session leaves.
LEMMA StaysOf ==
    ASSUME WaveInv, NEW s \in Session, UNCHANGED <<life, overtaken>>
    PROVE  LifeGoes(s) /\ overtaken' = overtaken
BY DEF LifeGoes, WaveInv, WaveTypeOK

LEMMA ClaimKeeps ==
    ASSUME WavesAssumption, WaveInv, NEW s \in Session, Claim(s)
    PROVE  WaveInv'
<1>1. PICK b : b = Next0(s)
    OBVIOUS
<1>2. /\ hold \in [Member -> HoldRecord] /\ Frees(hold) /\ WaveTypeOK
      /\ drive[s] \in DriveRecord
    BY HoldStays
<1>3. /\ drive[s].at = "claim" /\ drive[s].at \notin Launching /\ drive[s].todo # {}
      /\ life' = life /\ overtaken' = overtaken
    BY DEF Claim, In, Launching, WaveInv, TodoInv
<1>4. LifeGoes(s)
    BY <1>3, StaysOf
<1>5. b \in drive[s].todo /\ b \in OutcomeRecord /\ b \in Filed
    BY <1>1, <1>2, <1>3, Next0Is
<1>6. CASE b.settled
  <2>1. PICK ids : ids = {h.id : h \in {h \in b.holds : h.node \notin b.flying}}
      OBVIOUS
  <2>2. /\ NoFault /\ hold' = EndedById(hold, ids) /\ outcomes' = outcomes \ OnFile(b)
        /\ drive' = Skipped(s, b) /\ job' = job /\ master' = master
      BY <1>1, <1>6, <2>1 DEF Claim
  <2>3. ~overtaken => \A n \in Member : hold[n].id \notin ids
    <3>1. SUFFICES ASSUME ~overtaken, NEW n \in Member, NEW h \in b.holds, hold[n].id = h.id
                   PROVE  FALSE
        BY <2>1
    <3>2. Dead(b)
        BY <1>5, <1>6, <3>1, Zenon DEF WaveInv, OrderInv, SettledInv
    <3>. QED BY <3>1, <3>2 DEF Dead
  <2>4. hold' \in [Member -> HoldRecord] /\ Frees(hold')
      BY <1>2, <2>2, <2>3, FreesById
  <2>5. faults' \in Nat
      BY <1>2, <2>2, FaultsCount
  <2>. QED BY <1>3, <2>2, <2>4, <2>5, SkipKeeps
<1>7. CASE ~b.settled
  <2>1. NoFault /\ faults' \in Nat
      BY <1>1, <1>2, <1>7, FaultsCount DEF Claim
  <2>2. CASE Leave(s, hold)
      BY <1>2, <1>3, <1>4, <2>1, <2>2, LeaveIs
  <2>3. CASE drive' = Skipped(s, b) /\ UNCHANGED <<hold, outcomes, job, master>>
    <3>1. hold' = hold /\ outcomes' = outcomes /\ job' = job /\ master' = master
        BY <2>3
    <3>. QED BY <1>2, <1>3, <2>1, <2>3, <3>1, SkipKeeps
  <2>4. CASE /\ ~Leave(s, hold)
             /\ ~(drive' = Skipped(s, b) /\ UNCHANGED <<hold, outcomes, job, master>>)
    <3>1. PICK idle : idle = {h \in b.holds : life[h.node] = "READY"}
        OBVIOUS
    <3>2. /\ IsMaster(s) /\ hold' = hold /\ outcomes' = outcomes /\ job' = job
          /\ master' = master /\ \A h \in idle : ~job[h.node].live
          /\ drive' = [drive EXCEPT ![s].at = "end", ![s].proven = idle]
        BY <1>1, <1>7, <2>4, <3>1 DEF Claim
    <3>3. idle \subseteq Entry /\ \A h \in idle : h \in Named
        BY <1>5, <3>1, KnownHas DEF OutcomeRecord
    <3>4. PICK d : d = [drive[s] EXCEPT !.at = "end", !.proven = idle]
        OBVIOUS
    <3>5. drive' = [drive EXCEPT ![s] = d]
        BY <3>2, <3>4, Zenon
    <3>6. d \in DriveRecord
      <4>1. [drive[s] EXCEPT !.at = "end"] \in DriveRecord
          BY <1>2, StepsAre, DriveFields
      <4>2. d = [[drive[s] EXCEPT !.at = "end"] EXCEPT !.proven = idle]
          BY <3>4
      <4>. QED BY <3>3, <4>1, <4>2, DriveFields, Zenon
    <3>7. /\ d.at = "end" /\ d.proven = idle /\ d.todo = drive[s].todo
          /\ d.wave = drive[s].wave /\ d.flying = drive[s].flying
        BY <1>2, <3>4, SMTT(60) DEF DriveRecord
    <3>8. Rereads(d)
        BY <3>2, <3>7, KnownHas DEF Rereads
    <3>9. /\ outcomes' \subseteq OutcomeRecord
          /\ \A o \in outcomes' : \E p \in outcomes : Alike(o, p)
        BY <1>2, <3>2 DEF Alike, WaveTypeOK
    <3>10. Aside(s, d)
        BY <1>2, <1>3, <1>4, <2>1, <3>2, <3>3, <3>5, <3>6, <3>7, <3>8, <3>9, StepsAre, Zenon
           DEF Aside
    <3>. QED BY <3>10, AsideKeeps
  <2>. QED BY <2>2, <2>3, <2>4
<1>. QED BY <1>6, <1>7

LEMMA EndProvenKeeps ==
    ASSUME WavesAssumption, WaveInv, NEW s \in Session, EndProven(s)
    PROVE  WaveInv'
<1>1. PICK b : b = Next0(s)
    OBVIOUS
<1>2. /\ hold \in [Member -> HoldRecord] /\ Frees(hold) /\ WaveTypeOK
      /\ drive[s] \in DriveRecord
    BY HoldStays
<1>3. /\ drive[s].at = "end" /\ drive[s].at \notin Launching /\ drive[s].todo # {}
      /\ life' = life /\ overtaken' = overtaken
    BY DEF EndProven, In, Launching, WaveInv, TodoInv
<1>4. LifeGoes(s)
    BY <1>3, StaysOf
<1>5. PICK h : h = SettleProven(hold, drive[s].proven)
    OBVIOUS
<1>6. h \in [Member -> HoldRecord] /\ Frees(h)
  <2>1. PICK ids : ids = {p.id : p \in drive[s].proven}
      OBVIOUS
  <2>2. h = EndedById(hold, ids)
      BY <1>5, <2>1 DEF SettleProven
  <2>3. ~overtaken => \A n \in Member : hold[n].id \in ids => ~job[n].live
    <3>1. SUFFICES ASSUME ~overtaken, NEW n \in Member, NEW p \in drive[s].proven,
                          hold[n].id = p.id
                   PROVE  ~job[n].live
        BY <2>1
    <3>2. Idle(p) /\ n = p.node
        BY <1>3, <3>1, KnownHas, Zenon DEF WaveInv, OrderInv, ProvenInv, In, IdInv
    <3>. QED BY <3>1, <3>2 DEF Idle
  <2>. QED BY <1>2, <2>2, <2>3, FreesById
<1>7. faults' \in Nat
    BY <1>2, FaultsCount DEF EndProven
<1>8. CASE Leave(s, h)
    BY <1>2, <1>3, <1>4, <1>6, <1>7, <1>8, LeaveIs
<1>9. CASE /\ NoFault /\ hold' = h /\ outcomes' = outcomes \ OnFile(b)
           /\ drive' = [Skipped(s, b) EXCEPT ![s].proven = {}] /\ UNCHANGED <<job, master>>
  <2>1. PICK e : e = Passed(drive[s], drive[s].todo \ {b}, "recover")
      OBVIOUS
  <2>2. PICK d : d = [e EXCEPT !.proven = {}]
      OBVIOUS
  <2>3. /\ e \in DriveRecord /\ e.at = "recover" /\ e.todo = drive[s].todo \ {b}
        /\ e.wave = drive[s].wave /\ e.flying = drive[s].flying
    <3>1. drive[s].todo \ {b} \in SUBSET OutcomeRecord /\ "recover" \in Steps
        BY <1>2, StepsAre DEF DriveRecord
    <3>. QED BY <1>2, <2>1, <3>1, AtTodo
  <2>4. drive' = [drive EXCEPT ![s] = d]
    <3>1. Skipped(s, b) = [drive EXCEPT ![s] = e]
        BY <1>2, <2>1, SkippedIs, Zenon
    <3>2. drive \in [Session -> DriveRecord]
        BY <1>2 DEF WaveTypeOK
    <3>. QED BY <1>9, <2>2, <3>1, <3>2
  <2>5. d \in DriveRecord
      BY <2>2, <2>3, DriveFields, Zenon
  <2>6. /\ d.at = "recover" /\ d.todo = drive[s].todo \ {b} /\ d.proven = {}
        /\ d.wave = drive[s].wave /\ d.flying = drive[s].flying
      BY <2>2, <2>3, SMTT(60) DEF DriveRecord
  <2>7. Rereads(d)
      BY <1>9, <2>6, KnownHas DEF Rereads
  <2>8. outcomes' \subseteq OutcomeRecord /\ \A o \in outcomes' : \E p \in outcomes : Alike(o, p)
      BY <1>2, <1>9 DEF Alike, WaveTypeOK
  <2>9. /\ d.at \in Asides /\ d.at # "end" /\ d.at \notin {"boot", "round"}
        /\ d.at \notin {"claim", "end"}
      BY <2>6, StepsAre
  <2>10. hold' = h /\ job' = job /\ master' = master /\ \A p \in d.proven : p \in Named
      BY <1>9, <2>6
  <2>11. Aside(s, d)
      BY <1>3, <1>4, <1>6, <1>7, <2>4, <2>5, <2>6, <2>7, <2>8, <2>9, <2>10, Zenon DEF Aside
  <2>. QED BY <2>11, AsideKeeps
<1>. QED BY <1>1, <1>5, <1>8, <1>9, Zenon DEF EndProven

Reads(r, seen, a) == [r EXCEPT !.seen = seen, !.at = a]

LEMMA AtSeen ==
    ASSUME NEW r \in DriveRecord, NEW a \in Steps, NEW seen \in [Member -> Lives], NEW d,
           d = Reads(r, seen, a)
    PROVE  /\ d \in DriveRecord /\ d.at = a /\ d.seen = seen /\ d.todo = r.todo
           /\ d.proven = r.proven /\ d.wave = r.wave /\ d.flying = r.flying
<1>1. [r EXCEPT !.seen = seen] \in DriveRecord
    BY DriveFields, Zenon
<1>2. d = [[r EXCEPT !.seen = seen] EXCEPT !.at = a]
    BY DEF Reads
<1>3. d \in DriveRecord
    BY <1>1, <1>2, DriveFields, ZenonT(60)
<1>. QED BY <1>3, SMTT(60) DEF DriveRecord, Reads

\* A session reads the state, or writes what it has changed of it.
LEMMA SeenKeeps ==
    ASSUME WavesAssumption, WaveInv, NEW s \in Session, drive[s].at \notin Launching,
           NEW a \in {"boot", "round"}, NEW seen \in [Member -> Lives],
           drive' = [drive EXCEPT ![s] = Reads(drive[s], seen, a)],
           hold' \in [Member -> HoldRecord], Frees(hold'), LifeGoes(s),
           UNCHANGED <<outcomes, job, master, overtaken>>, faults' \in Nat,
           ~overtaken /\ IsMaster(s) => seen = life'
    PROVE  WaveInv'
<1>1. PICK d : d = Reads(drive[s], seen, a)
    OBVIOUS
<1>2. /\ WaveTypeOK /\ drive[s] \in DriveRecord /\ outcomes \subseteq OutcomeRecord
    BY HoldStays DEF WaveTypeOK
<1>3. /\ d \in DriveRecord /\ d.at = a /\ d.seen = seen /\ d.todo = drive[s].todo
      /\ d.proven = drive[s].proven /\ d.wave = drive[s].wave /\ d.flying = drive[s].flying
  <2>1. a \in Steps
      BY StepsAre
  <2>. QED BY <1>1, <1>2, <2>1, AtSeen
<1>4. outcomes' = outcomes /\ job' = job /\ master' = master /\ overtaken' = overtaken
    OBVIOUS
<1>5. Rereads(d) /\ \A h \in d.proven : h \in Named
    BY <1>3, <1>4, KnownHas DEF Rereads
<1>6. \A o \in outcomes' : \E p \in outcomes : Alike(o, p)
    BY <1>4 DEF Alike
<1>7. d.at \in Asides /\ d.at \notin {"claim", "end"} /\ d.at # "end"
    BY <1>3, StepsAre
<1>8. Aside(s, d)
    BY <1>1, <1>2, <1>3, <1>4, <1>5, <1>6, <1>7, Zenon DEF Aside
<1>. QED BY <1>8, AsideKeeps

LEMMA RecoveredKeeps ==
    ASSUME WavesAssumption, WaveInv, NEW s \in Session, Recovered(s)
    PROVE  WaveInv'
<1>1. /\ drive[s].at \notin Launching
      /\ UNCHANGED <<hold, job, life, outcomes, master, overtaken, faults>>
    BY DEF Recovered, In, Launching
<1>2. /\ hold \in [Member -> HoldRecord] /\ Frees(hold) /\ WaveTypeOK
      /\ drive[s] \in DriveRecord
    BY HoldStays
<1>3. drive' = [drive EXCEPT ![s] = Reads(drive[s], life, "boot")]
  <2>1. drive' = [drive EXCEPT ![s].at = "boot", ![s].seen = life]
      BY DEF Recovered
  <2>2. [drive[s] EXCEPT !.at = "boot", !.seen = life] = Reads(drive[s], life, "boot")
      BY <1>2 DEF Reads, DriveRecord
  <2>. QED BY <2>1, <2>2, Zenon
<1>4. /\ LifeGoes(s) /\ faults' \in Nat /\ life \in [Member -> Lives] /\ life' = life
      /\ hold' = hold
    BY <1>1, <1>2, StaysOf DEF WaveTypeOK
<1>. QED BY <1>1, <1>2, <1>3, <1>4, SeenKeeps

LEMMA BootedKeeps ==
    ASSUME WavesAssumption, WaveInv, NEW s \in Session, Booted(s)
    PROVE  WaveInv'
<1>1. /\ drive[s].at = "boot" /\ drive[s].at \notin Launching
      /\ UNCHANGED <<hold, job, life, outcomes, master, overtaken, faults>>
    BY DEF Booted, Goes, In, Launching
<1>2. /\ hold \in [Member -> HoldRecord] /\ Frees(hold) /\ WaveTypeOK
      /\ drive[s] \in DriveRecord /\ drive[s].seen \in [Member -> Lives]
    BY HoldStays DEF DriveRecord
<1>3. drive' = [drive EXCEPT ![s] = Reads(drive[s], drive[s].seen, "round")]
  <2>1. drive' = [drive EXCEPT ![s].at = "round"]
      BY DEF Booted, Goes
  <2>2. [drive[s] EXCEPT !.at = "round"] = Reads(drive[s], drive[s].seen, "round")
      BY <1>2 DEF Reads, DriveRecord
  <2>. QED BY <2>1, <2>2, Zenon
<1>4. LifeGoes(s) /\ faults' \in Nat /\ life' = life /\ hold' = hold
    BY <1>1, <1>2, StaysOf DEF WaveTypeOK
<1>5. ~overtaken /\ IsMaster(s) => drive[s].seen = life'
    BY <1>1, <1>4 DEF WaveInv, OrderInv, MasterInv, Reading
<1>. QED BY <1>1, <1>2, <1>3, <1>4, <1>5, SeenKeeps

LEMMA EndedIs ==
    ASSUME WavesAssumption, WaveTypeOK, NEW n \in Member, NEW h, h = Ended(hold, n)
    PROVE  /\ h \in [Member -> HoldRecord] /\ h[n] = NoHold
           /\ \A m \in Member \ {n} : h[m] = hold[m]
           /\ (~overtaken => ~job[n].live) => Frees(h)
<1>1. hold \in [Member -> HoldRecord] /\ NoHold \in HoldRecord /\ h = [hold EXCEPT ![n] = NoHold]
    BY NoHoldIs DEF WaveTypeOK, Ended
<1>2. /\ h \in [Member -> HoldRecord] /\ h[n] = NoHold
      /\ \A m \in Member \ {n} : h[m] = hold[m]
    BY <1>1
<1>. QED BY <1>2, Zenon DEF Frees

LEMMA SeesIs ==
    ASSUME NEW s \in Session, NEW lf
    PROVE  /\ Sees(s, lf) \in SUBSET Member
           /\ \A n \in Sees(s, lf) : drive[s].seen[n] = lf
BY DEF Sees

\* The master writes a state in which one node, whose run is idle, has changed.
LEMMA OneChanges ==
    ASSUME WaveInv, NEW s \in Session, NEW n \in Member, NEW lf \in Lives, NEW seen,
           seen = [drive[s].seen EXCEPT ![n] = lf],
           drive[s].at \in Reading, IsMaster(s), life' = seen,
           ~overtaken => ~job[n].live \/ lf = "RUNNING"
    PROVE  LifeGoes(s) /\ seen \in [Member -> Lives]
<1>1. drive[s].seen \in [Member -> Lives]
    BY HoldStays DEF DriveRecord
<1>2. seen \in [Member -> Lives]
    BY <1>1
<1>3. ASSUME ~overtaken, NEW m \in Member, job[m].live PROVE life'[m] = "RUNNING"
  <2>1. drive[s].seen = life
      BY <1>3 DEF WaveInv, OrderInv, MasterInv
  <2>2. life[m] = "RUNNING"
      BY <1>3 DEF WaveInv, LiveIsAccounted
  <2>. QED BY <1>1, <1>3, <2>1, <2>2
<1>. QED BY <1>2, <1>3 DEF LifeGoes

LEMMA BootKeeps ==
    ASSUME WavesAssumption, WaveInv, NEW s \in Session, Boot(s)
    PROVE  WaveInv'
<1>1. PICK n : n = Least(Sees(s, "RUNNING"))
    OBVIOUS
<1>2. /\ drive[s].at = "boot" /\ drive[s].at \notin Launching /\ drive[s].at \in Reading
      /\ Sees(s, "RUNNING") # {} /\ overtaken' = overtaken /\ faults' = faults
    BY DEF Boot, In, Launching, Reading
<1>3. n \in Member
    BY <1>1, <1>2, SeesIs, LeastIs
<1>4. /\ hold \in [Member -> HoldRecord] /\ Frees(hold) /\ WaveTypeOK
      /\ drive[s] \in DriveRecord /\ faults' \in Nat
    BY <1>2, HoldStays DEF WaveTypeOK
<1>5. ASSUME NEW lf \in Lives, NEW h, h \in [Member -> HoldRecord], Frees(h), ~job[n].live,
             Persists(s, [drive[s].seen EXCEPT ![n] = lf], "boot", h)
      PROVE  WaveInv'
  <2>1. PICK seen : seen = [drive[s].seen EXCEPT ![n] = lf]
      OBVIOUS
  <2>2. CASE IsMaster(s)
    <3>1. /\ life' = seen /\ hold' = h /\ UNCHANGED <<outcomes, job, master>>
          /\ drive' = [drive EXCEPT ![s].seen = seen, ![s].at = "boot"]
        BY <1>5, <2>1, <2>2 DEF Persists
    <3>2. LifeGoes(s) /\ seen \in [Member -> Lives]
        BY <1>2, <1>3, <1>5, <2>1, <2>2, <3>1, OneChanges
    <3>3. drive' = [drive EXCEPT ![s] = Reads(drive[s], seen, "boot")]
        BY <3>1, Zenon DEF Reads
    <3>. QED BY <1>2, <1>4, <1>5, <3>1, <3>2, <3>3, SeenKeeps
  <2>3. CASE ~IsMaster(s)
    <3>1. Leave(s, h) /\ life' = life
        BY <1>5, <2>3 DEF Persists
    <3>2. LifeGoes(s)
        BY <1>2, <3>1, StaysOf
    <3>. QED BY <1>2, <1>4, <1>5, <3>1, <3>2, LeaveIs
  <2>. QED BY <2>2, <2>3
<1>6. CASE Leave(s, hold) /\ UNCHANGED life
  <2>1. LifeGoes(s)
      BY <1>2, <1>6, StaysOf
  <2>. QED BY <1>2, <1>4, <1>6, <2>1, LeaveIs
<1>7. CASE ~job[n].live /\ Persists(s, [drive[s].seen EXCEPT ![n] = "READY"], "boot", hold)
    BY <1>4, <1>5, <1>7 DEF Lives
<1>8. CASE ~job[n].live /\ \E lf \in Becomes :
              Persists(s, [drive[s].seen EXCEPT ![n] = lf], "boot", Ended(hold, n))
  <2>1. PICK lf \in Becomes :
              Persists(s, [drive[s].seen EXCEPT ![n] = lf], "boot", Ended(hold, n))
      BY <1>8
  <2>2. lf \in Lives
      BY DEF Becomes, Lives
  <2>3. PICK h : h = Ended(hold, n)
      OBVIOUS
  <2>4. h \in [Member -> HoldRecord] /\ Frees(h)
      BY <1>3, <1>4, <1>8, <2>3, EndedIs
  <2>. QED BY <1>5, <1>8, <2>1, <2>2, <2>3, <2>4
<1>. QED BY <1>1, <1>6, <1>7, <1>8, Zenon DEF Boot

LEMMA DriveKeeps ==
    ASSUME WavesAssumption, WaveInv, NEW s \in Session, Drive(s)
    PROVE  WaveInv'
<1>1. PICK T : T = {Bytes(o) : o \in outcomes}
    OBVIOUS
<1>2. PICK d : d = Passed(drive[s], T, "recover")
    OBVIOUS
<1>3. /\ hold \in [Member -> HoldRecord] /\ WaveTypeOK /\ BudgetIsKept
      /\ drive[s] \in DriveRecord /\ outcomes \subseteq OutcomeRecord
    BY HoldStays DEF WaveTypeOK, WaveInv
<1>4. /\ UNCHANGED <<hold, job, life, outcomes, faults>> /\ master' = s /\ drive[s].at = "off"
      /\ overtaken' = (overtaken \/ \E t \in Session : In(t, "running"))
    BY DEF Drive, In
<1>5. ASSUME NEW b \in T
      PROVE  /\ b \in OutcomeRecord
             /\ \E p \in Filed : b.name = p.name /\ b.settled = p.settled /\ b.holds = p.holds
  <2>1. PICK o \in outcomes : b = Bytes(o)
      BY <1>1
  <2>2. o \in OutcomeRecord /\ o \in Filed /\ "any" \in Owners /\ b = [o EXCEPT !.owner = "any"]
      BY <1>3, <2>1, KnownHas DEF Owners, Bytes
  <2>. QED BY <2>2, OutcomeFields
<1>6. /\ d \in DriveRecord /\ d.at = "recover" /\ d.todo = T
      /\ d.proven = drive[s].proven /\ d.wave = drive[s].wave /\ d.flying = drive[s].flying
  <2>1. T \in SUBSET OutcomeRecord /\ "recover" \in Steps
      BY <1>5, StepsAre
  <2>. QED BY <1>2, <1>3, <2>1, AtTodo
<1>7. drive' = [drive EXCEPT ![s] = d]
  <2>1. drive' = [drive EXCEPT ![s].at = "recover", ![s].todo = T]
      BY <1>1 DEF Drive
  <2>2. d = [drive[s] EXCEPT !.at = "recover", !.todo = T]
      BY <1>2, <1>3 DEF DriveRecord, Passed
  <2>. QED BY <2>1, <2>2, Zenon
<1>8. Rereads(d) /\ \A h \in d.proven : h \in Named
  <2>1. ASSUME NEW o \in outcomes' \cup d.todo
        PROVE  \E p \in Filed : o.name = p.name /\ o.settled = p.settled /\ o.holds = p.holds
    <3>1. o \in outcomes \/ o \in T
        BY <1>4, <1>6, <2>1
    <3>. QED BY <1>5, <3>1, KnownHas, Zenon
  <2>. QED BY <1>6, <2>1, KnownHas DEF Rereads
<1>9. Kept(d, 0) /\ ReadOutcomes(d)
    BY <1>6, <1>8, RereadIs
<1>10. Typed(s, d, 0, 0)
  <2>1. /\ hold' = hold /\ job' = job /\ life' = life /\ outcomes' = outcomes /\ faults' = faults
        /\ master' \in Session \cup {"none"} /\ overtaken' \in BOOLEAN
      BY <1>4
  <2>2. \A n \in Member : hold'[n].id \in Known \cup {0}
      BY <2>1, KnownHas
  <2>. QED BY <1>3, <1>6, <1>7, <1>9, <2>1, <2>2, Zenon DEF Typed, WaveTypeOK
<1>11. BudgetIsKept'
  <2>1. job \in [Member -> JobRecord]
      BY <1>3 DEF WaveTypeOK
  <2>. QED BY <1>3, <1>4, <2>1, EndingKeepsBudget
<1>12. ASSUME ~overtaken' PROVE ~overtaken /\ Sound(s, 0, d)
  <2>1. ~overtaken /\ \A t \in Session : ~In(t, "running")
      BY <1>4, <1>12
  <2>2. IdInv /\ MineInv /\ MadeInv /\ AskedInv /\ OwnInv
      BY <2>1 DEF WaveInv, OrderInv
  <2>3. hold' = hold /\ job' = job /\ life' = life /\ outcomes' = outcomes /\ master' = s
      BY <1>4
  <2>4. \A n \in Member : HoldGoes(s, 0, n)
      BY <2>2, <2>3, Zenon DEF HoldGoes, IdInv
  <2>5. \A n \in Member : JobGoes(s, 0, n)
      BY <2>3, Zenon DEF JobGoes
  <2>6. /\ drive[s].at \notin Launching /\ drive[s].at \notin {"admit", "running"}
        /\ d.at \notin Reading /\ d.at \notin {"running", "end"} /\ ~Rests(d)
        /\ d.at \notin {"prepare", "admit", "running", "settle"}
      BY <1>4, <1>6 DEF Launching, Reading, Rests
  <2>7. \A n \in Member : hold'[n].by # s
      BY <2>2, <2>3, <2>6, Zenon DEF MineInv, Holds
  <2>8. Asks(d) /\ \A n \in d.wave : job'[n].made
    <3>1. d.flying = {} /\ \A n \in d.wave : job[n].made
        BY <1>6, <2>2, Zenon DEF AskedInv, Asks, MadeInv
    <3>. QED BY <2>3, <2>6, <3>1 DEF Asks
  <2>9. OwnOutcomes(s, d)
    <3>1. SUFFICES ASSUME NEW o \in outcomes, o.owner \in Session, ~o.settled
                   PROVE  o.owner # s /\ Alike(o, o)
        BY <2>3, Zenon DEF OwnOutcomes
    <3>. QED BY <2>2, <2>6, <3>1, Zenon DEF Alike, OwnInv, Owns
  <2>10. \/ master' \in {master, "none"}
         \/ master' = s /\ d.at = "recover" /\ \A t \in Session : ~In(t, "running")
      BY <1>6, <2>1, <2>3
  <2>11. /\ d.at # "running" /\ d.at # "end"
         /\ \A n \in Member : hold'[n].by = s => Holds(d, n, job'[n].live)
      BY <2>6, <2>7
  <2>. QED BY <1>9, <2>1, <2>3, <2>4, <2>5, <2>6, <2>8, <2>9, <2>10, <2>11, Zenon DEF Sound
<1>13. overtaken => overtaken'
    BY <1>4
<1>. QED BY <1>10, <1>11, <1>12, StepKeeps

-----------------------------------------------------------------------------
(* The ends of a round and of a wave                                       *)

LEMMA OwnNone ==
    ASSUME WaveInv, ~overtaken, NEW s \in Session, drive[s].at \notin {"admit", "running"},
           NEW d, \A o \in outcomes' : \E p \in outcomes : Alike(o, p)
    PROVE  OwnOutcomes(s, d)
<1>1. SUFFICES ASSUME NEW o \in outcomes', o.owner \in Session, ~o.settled
               PROVE  o.owner # s /\ \E p \in outcomes : Alike(o, p)
    BY Zenon DEF OwnOutcomes
<1>2. PICK p \in outcomes : Alike(o, p)
    OBVIOUS
<1>3. OwnInv
    BY DEF WaveInv, OrderInv
<1>. QED BY <1>1, <1>2, <1>3, Zenon DEF Alike, OwnInv, Owns

LEMMA MineNone ==
    ASSUME WavesAssumption, WaveInv, ~overtaken, NEW s \in Session, drive[s].at \notin Launching
    PROVE  \A n \in Member : hold[n].by # s
<1>1. MineInv
    BY DEF WaveInv, OrderInv
<1>. QED BY <1>1, Zenon DEF MineInv, Holds

\* The order as it is, for the steps of a session.
LEMMA OrderIs ==
    ASSUME WaveInv, ~overtaken
    PROVE  /\ IdInv /\ MasterInv /\ MineInv /\ MadeInv /\ AskedInv /\ QuietInv /\ OwnInv
           /\ SettledInv /\ ProvenInv
           /\ \A n \in Member : job[n].live => hold[n].amount >= job[n].ceiling
                                                /\ life[n] = "RUNNING"
BY DEF WaveInv, OrderInv, LiveIsAccounted

Starts(r, asked, k) ==
    [r EXCEPT !.at = "prepare", !.rounds = @ + 1, !.asked = asked, !.many = k > 1,
              !.wave = {}, !.back = {}, !.flying = {}]

LEMMA StartsIs ==
    ASSUME NEW r \in DriveRecord, NEW asked \in SUBSET Member, NEW k \in Nat
    PROVE  Starts(r, asked, k) \in DriveRecord
<1>. DEFINE r1 == [r EXCEPT !.at = "prepare"]
            r2 == [r1 EXCEPT !.rounds = r.rounds + 1]
            r3 == [r2 EXCEPT !.asked = asked]
            r4 == [r3 EXCEPT !.many = k > 1]
            r5 == [r4 EXCEPT !.wave = {}]
            r6 == [r5 EXCEPT !.back = {}]
            r7 == [r6 EXCEPT !.flying = {}]
<1>1. "prepare" \in Steps /\ r.rounds + 1 \in Nat /\ {} \in SUBSET Member
    BY DEF Steps, Reading, Launching, DriveRecord
<1>2. r1 \in DriveRecord
    BY <1>1, DriveFields, Zenon
<1>3. r2 \in DriveRecord
    BY <1>1, <1>2, DriveFields, Zenon
<1>4. r3 \in DriveRecord
    BY <1>3, DriveFields, Zenon
<1>5. r4 \in DriveRecord
  <2>1. (k > 1) \in BOOLEAN
      BY SMT
  <2>. QED BY <1>4, <2>1, DriveFields, Zenon
<1>6. r5 \in DriveRecord
    BY <1>1, <1>5, DriveFields, Zenon
<1>7. r6 \in DriveRecord
    BY <1>1, <1>6, DriveFields, Zenon
<1>8. r7 \in DriveRecord
    BY <1>1, <1>7, DriveFields, Zenon
<1>9. Starts(r, asked, k) = r7
    BY SMTT(60) DEF DriveRecord, Starts
<1>. QED BY <1>8, <1>9, Zenon

LEMMA RoundKeeps ==
    ASSUME WavesAssumption, WaveInv, NEW s \in Session, Round(s)
    PROVE  WaveInv'
<1>1. /\ drive[s].at = "round" /\ drive[s].at \notin Launching /\ drive[s].at \in Reading
      /\ drive[s].at \notin {"admit", "running"}
      /\ overtaken' = overtaken /\ faults' = faults /\ life' = life
    BY DEF Round, In, Launching, Reading
<1>2. /\ hold \in [Member -> HoldRecord] /\ Frees(hold) /\ WaveTypeOK
      /\ drive[s] \in DriveRecord /\ faults' \in Nat /\ LifeGoes(s)
      /\ outcomes \subseteq OutcomeRecord
    BY <1>1, HoldStays, StaysOf DEF WaveTypeOK
<1>3. CASE Leave(s, hold)
    BY <1>1, <1>2, <1>3, LeaveIs
<1>4. CASE ~Leave(s, hold)
  <2>1. PICK asked : asked = Sees(s, "READY")
      OBVIOUS
  <2>2. PICK k : k = Cardinality(asked)
      OBVIOUS
  <2>12. k \in Nat
    <3>1. IsFiniteSet(Member) /\ asked \subseteq Member
        BY <2>1, FS_Interval, SeesIs DEF Member, WavesAssumption
    <3>. QED BY <2>2, <3>1, FS_Subset, FS_CardinalityType
  <2>3. PICK d : d = Starts(drive[s], asked, k)
      OBVIOUS
  <2>4. drive' = [drive EXCEPT ![s] = d] /\ UNCHANGED <<hold, outcomes, job, master>>
    <3>1. /\ drive' = [drive EXCEPT ![s].at = "prepare", ![s].rounds = @ + 1,
                                    ![s].asked = asked, ![s].many = k > 1,
                                    ![s].wave = {}, ![s].back = {}, ![s].flying = {}]
          /\ UNCHANGED <<hold, outcomes, job, master>>
        BY <1>4, <2>1, <2>2 DEF Round
    <3>. QED BY <2>3, <3>1, Zenon DEF Starts
  <2>5. asked \in SUBSET Member /\ \A n \in asked : drive[s].seen[n] = "READY"
      BY <2>1, SeesIs
  <2>6. /\ d \in DriveRecord /\ d.at = "prepare" /\ d.asked = asked /\ d.wave = {}
        /\ d.back = {} /\ d.flying = {} /\ d.seen = drive[s].seen /\ d.todo = drive[s].todo
        /\ d.proven = drive[s].proven
    <3>1. drive[s] \in DriveRecord /\ asked \in SUBSET Member
        BY <1>2, <2>5
    <3>2. d \in DriveRecord
        BY <2>3, <2>12, <3>1, StartsIs, Zenon
    <3>. QED BY <2>3, <3>1, <3>2, SMTT(60) DEF DriveRecord, Starts
  <2>7. hold' = hold /\ outcomes' = outcomes /\ job' = job /\ master' = master
      BY <2>4
  <2>8. Rereads(d) /\ \A h \in d.proven : h \in Named
      BY <2>6, <2>7, KnownHas DEF Rereads
  <2>9. Kept(d, 0) /\ ReadOutcomes(d)
      BY <2>6, <2>8, RereadIs
  <2>10. ASSUME ~overtaken PROVE Fits(s, d)
    <3>1. \A n \in Member : hold'[n].by # s
        BY <1>1, <2>7, <2>10, MineNone
    <3>2. OwnOutcomes(s, d)
      <4>1. \A o \in outcomes' : \E p \in outcomes : Alike(o, p)
          BY <2>7 DEF Alike
      <4>. QED BY <1>1, <2>10, <4>1, OwnNone
    <3>3. Asks(d)
        BY <2>5, <2>6 DEF Asks
    <3>4. IsMaster(s) => d.seen = life'
        BY <1>1, <2>6, <2>10, OrderIs DEF MasterInv
    <3>5. d.at # "running" /\ d.at # "end" /\ \A n \in d.wave : FALSE
        BY <2>6
    <3>. QED BY <1>1, <2>9, <3>1, <3>2, <3>3, <3>4, <3>5, Zenon DEF Fits
  <2>11. Local(s, d, 0)
      BY <1>1, <1>2, <2>4, <2>6, <2>7, <2>9, <2>10, Zenon DEF Local, Frees, LifeGoes
  <2>. QED BY <2>11, LocalKeeps
<1>. QED BY <1>3, <1>4

LEMMA SettleKeeps ==
    ASSUME WavesAssumption, WaveInv, NEW s \in Session, Settle(s)
    PROVE  WaveInv'
<1>1. PICK n : n = Least(drive[s].asked)
    OBVIOUS
<1>2. /\ drive[s].at = "settle" /\ drive[s].at \notin Launching /\ drive[s].at \in Reading
      /\ drive[s].at \notin {"admit", "running"} /\ Rests(drive[s])
      /\ drive[s].asked # {} /\ overtaken' = overtaken /\ faults' = faults
    BY DEF Settle, In, Launching, Reading, Rests
<1>3. /\ hold \in [Member -> HoldRecord] /\ Frees(hold) /\ WaveTypeOK
      /\ drive[s] \in DriveRecord /\ faults' \in Nat /\ drive[s].asked \in SUBSET Member
      /\ outcomes \subseteq OutcomeRecord
    BY <1>2, HoldStays DEF WaveTypeOK, DriveRecord
<1>4. n \in Member /\ n \in drive[s].asked
    BY <1>1, <1>2, <1>3, LeastIs
<1>5. PICK lf \in IF n \in drive[s].flying THEN {"RUNNING"} ELSE Becomes :
          LET seen == [drive[s].seen EXCEPT ![n] = lf] IN
          IF IsMaster(s) THEN /\ life' = seen
                              /\ drive' = [drive EXCEPT ![s].seen = seen, ![s].asked = @ \ {n}]
                              /\ UNCHANGED <<hold, outcomes, job, master>>
          ELSE Leave(s, hold) /\ UNCHANGED life
    BY <1>1 DEF Settle
<1>6. lf \in Lives
    BY DEF Becomes, Lives
<1>7. CASE ~IsMaster(s)
  <2>1. Leave(s, hold) /\ UNCHANGED life
      BY <1>5, <1>7
  <2>2. LifeGoes(s)
      BY <1>2, <2>1, StaysOf
  <2>. QED BY <1>2, <1>3, <2>1, <2>2, LeaveIs
<1>8. CASE IsMaster(s)
  <2>1. PICK seen : seen = [drive[s].seen EXCEPT ![n] = lf]
      OBVIOUS
  <2>2. /\ life' = seen /\ UNCHANGED <<hold, outcomes, job, master>>
        /\ drive' = [drive EXCEPT ![s].seen = seen, ![s].asked = @ \ {n}]
      BY <1>5, <1>8, <2>1
  <2>3. PICK d : d = [drive[s] EXCEPT !.seen = seen, !.asked = drive[s].asked \ {n}]
      OBVIOUS
  <2>4. drive' = [drive EXCEPT ![s] = d]
      BY <2>2, <2>3, Zenon
  <2>5. LifeGoes(s) /\ seen \in [Member -> Lives]
    <3>1. ~overtaken => ~job[n].live
      <4>1. SUFFICES ASSUME ~overtaken PROVE ~job[n].live
          OBVIOUS
      <4>. QED BY <1>2, <1>4, <1>8, <4>1, OrderIs DEF QuietInv, AskedInv, Asks
    <3>. QED BY <1>2, <1>4, <1>6, <1>8, <2>1, <2>2, <3>1, OneChanges
  <2>6. d \in DriveRecord
    <3>1. [drive[s] EXCEPT !.seen = seen] \in DriveRecord
        BY <1>3, <2>5, DriveFields, Zenon
    <3>2. d = [[drive[s] EXCEPT !.seen = seen] EXCEPT !.asked = drive[s].asked \ {n}]
        BY <2>3
    <3>3. drive[s].asked \ {n} \in SUBSET Member
        BY <1>3
    <3>. QED BY <3>1, <3>2, <3>3, DriveFields, Zenon
  <2>7. /\ d.at = "settle" /\ d.seen = seen /\ d.asked = drive[s].asked \ {n}
        /\ d.todo = drive[s].todo /\ d.proven = drive[s].proven /\ d.wave = drive[s].wave
        /\ d.flying = drive[s].flying
      BY <1>2, <1>3, <2>3, SMTT(60) DEF DriveRecord
  <2>8. hold' = hold /\ outcomes' = outcomes /\ job' = job /\ master' = master
      BY <2>2
  <2>9. Rereads(d) /\ \A h \in d.proven : h \in Named
      BY <2>7, <2>8, KnownHas DEF Rereads
  <2>10. Kept(d, 0) /\ ReadOutcomes(d)
      BY <2>7, <2>9, RereadIs
  <2>11. ASSUME ~overtaken PROVE Fits(s, d)
    <3>1. \A k \in Member : hold'[k].by # s
        BY <1>2, <2>8, <2>11, MineNone
    <3>2. OwnOutcomes(s, d)
      <4>1. \A o \in outcomes' : \E p \in outcomes : Alike(o, p)
          BY <2>8 DEF Alike
      <4>. QED BY <1>2, <2>11, <4>1, OwnNone
    <3>3. Asks(d)
        BY <1>2, <2>7, <2>11, OrderIs DEF Asks, AskedInv
    <3>4. /\ \A k \in d.wave : job[k].made
          /\ IsMaster(s) => \A k \in d.wave : ~job[k].live
        BY <1>2, <2>7, <2>11, OrderIs DEF MadeInv, QuietInv
    <3>5. d.at # "running" /\ d.at # "end" /\ d.seen = life'
        BY <2>2, <2>7
    <3>6. life' = life \/ (IsMaster(s) /\ \A k \in Member : job[k].live => life'[k] = "RUNNING")
        BY <2>5, <2>11 DEF LifeGoes
    <3>. QED BY <2>10, <3>1, <3>2, <3>3, <3>4, <3>5, <3>6, Zenon DEF Fits
  <2>12. Local(s, d, 0)
      BY <1>2, <1>3, <2>4, <2>5, <2>6, <2>8, <2>10, <2>11, Zenon DEF Local, Frees, LifeGoes
  <2>. QED BY <2>12, LocalKeeps
<1>. QED BY <1>7, <1>8

LEMMA SettledKeeps ==
    ASSUME WavesAssumption, WaveInv, NEW s \in Session, Settled(s)
    PROVE  WaveInv'
<1>1. /\ drive[s].at = "settle" /\ drive[s].at \notin Launching /\ drive[s].at \in Reading
      /\ UNCHANGED <<life, overtaken, faults>>
    BY DEF Settled, In, Launching, Reading
<1>2. /\ hold \in [Member -> HoldRecord] /\ Frees(hold) /\ WaveTypeOK
      /\ drive[s] \in DriveRecord /\ drive[s].seen \in [Member -> Lives]
      /\ LifeGoes(s) /\ faults' \in Nat
    BY <1>1, HoldStays, StaysOf DEF DriveRecord, WaveTypeOK
<1>3. CASE Leave(s, hold)
    BY <1>1, <1>2, <1>3, LeaveIs
<1>4. CASE Goes(s, "round")
  <2>1. UNCHANGED <<hold, outcomes, job, master>>
      BY <1>4 DEF Goes
  <2>2. drive' = [drive EXCEPT ![s] = Reads(drive[s], drive[s].seen, "round")]
    <3>1. drive' = [drive EXCEPT ![s].at = "round"]
        BY <1>4 DEF Goes
    <3>2. [drive[s] EXCEPT !.at = "round"] = Reads(drive[s], drive[s].seen, "round")
        BY <1>2 DEF Reads, DriveRecord
    <3>. QED BY <3>1, <3>2, Zenon
  <2>3. ~overtaken /\ IsMaster(s) => drive[s].seen = life'
      BY <1>1 DEF WaveInv, OrderInv, MasterInv
  <2>. QED BY <1>1, <1>2, <2>1, <2>2, <2>3, SeenKeeps
<1>. QED BY <1>3, <1>4 DEF Settled

\* A hold somebody names is the hold of the run it is named for.
LEMMA NamedHold ==
    ASSUME WaveInv, ~overtaken, NEW o \in Filed, NEW h \in o.holds, NEW n \in Member,
           hold[n].id = h.id
    PROVE  n = h.node
<1>1. h \in Named
    BY KnownHas
<1>. QED BY <1>1, OrderIs DEF IdInv

LEMMA OutcomeSettles ==
    ASSUME NEW o \in OutcomeRecord
    PROVE  /\ \A x \in BOOLEAN : [o EXCEPT !.settled = x] \in OutcomeRecord
           /\ \A x \in SUBSET Member : [o EXCEPT !.flying = x] \in OutcomeRecord
BY SMT DEF OutcomeRecord

LEMMA RecordKeeps ==
    ASSUME WavesAssumption, WaveInv, NEW s \in Session, Record(s)
    PROVE  WaveInv'
<1>1. /\ drive[s].at = "running" /\ drive[s].at \in Reading /\ drive[s].back = drive[s].wave
      /\ UNCHANGED <<hold, job, life, master, overtaken, faults>>
    BY DEF Record, In, Launching, Reading
<1>2. /\ hold \in [Member -> HoldRecord] /\ Frees(hold) /\ WaveTypeOK
      /\ drive[s] \in DriveRecord /\ LifeGoes(s) /\ faults' \in Nat
      /\ outcomes \subseteq OutcomeRecord /\ drive[s].wave \subseteq Member
      /\ drive[s].flying \subseteq Member
    BY <1>1, HoldStays, StaysOf DEF DriveRecord, WaveTypeOK
<1>3. PICK d : d = [drive[s] EXCEPT !.at = "close"]
    OBVIOUS
<1>4. drive' = [drive EXCEPT ![s] = d]
    BY <1>3, Zenon DEF Record
<1>5. d \in DriveRecord
  <2>1. "close" \in Steps
      BY DEF Steps, Reading
  <2>. QED BY <1>2, <1>3, <2>1, DriveFields, Zenon
<1>6. /\ d.at = "close" /\ d.seen = drive[s].seen /\ d.todo = drive[s].todo
      /\ d.proven = drive[s].proven /\ d.wave = drive[s].wave /\ d.flying = drive[s].flying
    BY <1>2, <1>3, SMTT(60) DEF DriveRecord
<1>7. ASSUME NEW o \in outcomes'
      PROVE  /\ o \in OutcomeRecord
             /\ \/ o \in outcomes /\ o.owner # s
                \/ \E p \in outcomes : /\ p.owner = s /\ o.owner = s /\ o.settled
                                       /\ o.name = p.name /\ o.holds = p.holds
  <2>1. PICK p \in outcomes :
           o = IF p.owner = s THEN [p EXCEPT !.settled = TRUE, !.flying = drive[s].flying]
               ELSE p
      BY DEF Record
  <2>2. p \in OutcomeRecord
      BY <1>2
  <2>3. CASE p.owner = s
    <3>1. o = [p EXCEPT !.settled = TRUE, !.flying = drive[s].flying]
        BY <2>1, <2>3
    <3>2. o \in OutcomeRecord
      <4>1. [p EXCEPT !.settled = TRUE] \in OutcomeRecord
          BY <2>2, OutcomeSettles, Zenon
      <4>2. o = [[p EXCEPT !.settled = TRUE] EXCEPT !.flying = drive[s].flying]
          BY <3>1
      <4>. QED BY <1>2, <4>1, <4>2, OutcomeSettles, Zenon
    <3>3. o.owner = s /\ o.settled /\ o.name = p.name /\ o.holds = p.holds
        BY <2>2, <2>3, <3>1, SMT DEF OutcomeRecord
    <3>. QED BY <2>3, <3>2, <3>3
  <2>4. CASE p.owner # s
      BY <2>1, <2>2, <2>4
  <2>. QED BY <2>3, <2>4
<1>8. Kept(d, 0)
  <2>1. ASSUME NEW o \in outcomes' \cup d.todo
        PROVE  o.name \in Names /\ \A h \in o.holds : h.id \in Known
      BY <1>6, <1>7, <2>1, KnownHas
  <2>2. d.at \notin {"claim", "end"} /\ \A h \in d.proven : h.id \in Known
      BY <1>6, KnownHas
  <2>. QED BY <2>1, <2>2, Zenon DEF Kept
<1>9. ASSUME ~overtaken PROVE Fits(s, d)
  <2>1. /\ \A n \in Member : job[n].live => hold[n].amount >= job[n].ceiling
        /\ MineInv /\ MadeInv /\ AskedInv /\ QuietInv /\ OwnInv /\ SettledInv /\ MasterInv
      BY <1>9, OrderIs
  <2>2. hold' = hold /\ job' = job /\ master' = master /\ life' = life
      BY <1>1
  <2>3. \A n \in Member : hold'[n].by # s
      BY <1>1, <2>1, <2>2, Zenon DEF MineInv, Holds
  <2>4. \A n \in d.wave : job[n].made /\ ~job[n].live
      BY <1>1, <1>6, <2>1, Zenon DEF MadeInv, QuietInv, In, Out
  <2>5. Asks(d)
      BY <1>6, <2>1 DEF Asks, AskedInv
  <2>6. OwnOutcomes(s, d)
    <3>1. ASSUME NEW o \in outcomes', ~o.settled
          PROVE  o.owner # s /\ \E p \in outcomes : Alike(o, p)
        BY <1>7, <3>1 DEF Alike
    <3>. QED BY <3>1, Zenon DEF OwnOutcomes
  <2>7. ReadOutcomes(d)
    <3>1. ASSUME NEW o \in outcomes', NEW p \in outcomes, p.owner = s, o.holds = p.holds
          PROVE  Ends(o) \/ \E q \in Filed : q.settled /\ o.holds = q.holds
      <4>1. p \in Filed
          BY KnownHas
      <4>2. CASE p.settled
          BY <3>1, <4>1, <4>2
      <4>3. CASE ~p.settled
        <5>1. Owns(drive[s], p)
            BY <2>1, <3>1, <4>3 DEF OwnInv
        <5>2. ASSUME NEW h \in o.holds, NEW n \in Member, hold[n].id = h.id PROVE FALSE
          <6>1. n = h.node
              BY <1>9, <3>1, <4>1, <5>2, NamedHold
          <6>2. h.node \in drive[s].wave /\ (h.node \in drive[s].back => hold[h.node].id # h.id)
              BY <3>1, <5>1 DEF Owns
          <6>. QED BY <1>1, <5>2, <6>1, <6>2
        <5>. QED BY <2>2, <5>2 DEF Ends
      <4>. QED BY <4>2, <4>3
    <3>2. ASSUME NEW o \in outcomes' \cup d.todo
          PROVE  /\ o.settled => Ends(o) \/ \E p \in Filed : p.settled /\ o.holds = p.holds
                 /\ \A h \in o.holds : h \in Named
      <4>1. CASE o \in Filed
          BY <4>1, KnownHas
      <4>2. CASE \E p \in outcomes : p.owner = s /\ o.holds = p.holds /\ o \in outcomes'
          BY <3>1, <4>2, KnownHas
      <4>. QED BY <1>6, <1>7, <3>2, <4>1, <4>2, KnownHas
    <3>. QED BY <1>6, <3>2, KnownHas, Zenon DEF ReadOutcomes
  <2>8. IsMaster(s) => d.seen = life'
      BY <1>1, <1>6, <2>1, <2>2 DEF MasterInv
  <2>9. d.at # "running" /\ d.at # "end"
      BY <1>6
  <2>. QED BY <2>2, <2>3, <2>4, <2>5, <2>6, <2>7, <2>8, <2>9, Zenon DEF Fits
<1>10. hold' = hold /\ job' = job /\ master' = master /\ overtaken' = overtaken
    BY <1>1
<1>11. outcomes' \subseteq OutcomeRecord
    BY <1>7
<1>12. Local(s, d, 0)
    BY <1>2, <1>4, <1>5, <1>8, <1>9, <1>10, <1>11, Zenon DEF Local, Frees, LifeGoes
<1>. QED BY <1>12, LocalKeeps

LEMMA CloseKeeps ==
    ASSUME WavesAssumption, WaveInv, NEW s \in Session, Close(s)
    PROVE  WaveInv'
<1>1. /\ drive[s].at = "close" /\ drive[s].at \in Reading /\ drive[s].at \notin Launching
      /\ drive[s].at \notin {"admit", "running"} /\ Rests(drive[s])
      /\ UNCHANGED <<job, life, master, overtaken>>
    BY DEF Close, In, Launching, Reading, Rests
<1>2. /\ hold \in [Member -> HoldRecord] /\ WaveTypeOK
      /\ drive[s] \in DriveRecord /\ LifeGoes(s) /\ drive[s].wave \in SUBSET Member
      /\ outcomes \subseteq OutcomeRecord
    BY <1>1, HoldStays, StaysOf DEF DriveRecord, WaveTypeOK
<1>3. PICK d : d = [drive[s] EXCEPT !.at = "settle", !.asked = drive[s].wave]
    OBVIOUS
<1>4. drive' = [drive EXCEPT ![s] = d]
    BY <1>3, Zenon DEF Close
<1>5. d \in DriveRecord
  <2>1. "settle" \in Steps
      BY DEF Steps, Reading
  <2>2. [drive[s] EXCEPT !.at = "settle"] \in DriveRecord
      BY <1>2, <2>1, DriveFields, Zenon
  <2>3. d = [[drive[s] EXCEPT !.at = "settle"] EXCEPT !.asked = drive[s].wave]
      BY <1>3
  <2>. QED BY <1>2, <2>2, <2>3, DriveFields, Zenon
<1>6. /\ d.at = "settle" /\ d.seen = drive[s].seen /\ d.todo = drive[s].todo
      /\ d.proven = drive[s].proven /\ d.wave = drive[s].wave /\ d.flying = drive[s].flying
      /\ d.asked = drive[s].wave
    BY <1>2, <1>3, SMTT(60) DEF DriveRecord
<1>7. outcomes' \subseteq outcomes /\ (NoFault \/ Fault)
    BY DEF Close
<1>8. Rereads(d) /\ \A h \in d.proven : h \in Named
    BY <1>6, <1>7, KnownHas DEF Rereads
<1>9. Kept(d, 0) /\ ReadOutcomes(d)
    BY <1>6, <1>8, RereadIs
<1>10. hold' \in [Member -> HoldRecord] /\ Frees(hold') /\ (~overtaken => hold' = hold)
  <2>1. PICK own : own = {o \in outcomes : o.owner = s}
      OBVIOUS
  <2>2. PICK ids : ids = {h.id : h \in UNION {
                            {h \in o.holds : h.node \notin drive[s].flying} : o \in own}}
      OBVIOUS
  <2>3. hold' = EndedById(hold, ids)
      BY <2>1, <2>2 DEF Close
  <2>4. ~overtaken => \A n \in Member : hold[n].id \notin ids
    <3>1. SUFFICES ASSUME ~overtaken, NEW n \in Member, NEW o \in own, NEW h \in o.holds,
                          hold[n].id = h.id
                   PROVE  FALSE
        BY <2>2
    <3>2. o \in outcomes /\ o.owner = s /\ o \in Filed
        BY <2>1, KnownHas
    <3>3. o.settled
        BY <1>1, <3>1, <3>2, OrderIs DEF OwnInv, Owns
    <3>4. Dead(o)
        BY <3>1, <3>2, <3>3, OrderIs DEF SettledInv
    <3>. QED BY <3>1, <3>4 DEF Dead
  <2>5. hold' \in [Member -> HoldRecord] /\ Frees(hold')
      BY <1>2, <2>3, <2>4, FreesById
  <2>6. ~overtaken => hold' = hold
    <3>1. \A n \in Member : hold'[n] = IF hold[n].id \in ids THEN NoHold ELSE hold[n]
        BY <1>2, <2>3, EndedByIdIs
    <3>. QED BY <1>2, <2>4, <2>5, <3>1
  <2>. QED BY <2>5, <2>6
<1>11. ASSUME ~overtaken PROVE Fits(s, d)
  <2>1. MadeInv /\ AskedInv /\ QuietInv /\ MasterInv
      BY <1>11, OrderIs
  <2>2. \A n \in Member : hold'[n].by # s
      BY <1>1, <1>10, <1>11, MineNone
  <2>3. OwnOutcomes(s, d)
    <3>1. \A o \in outcomes' : \E p \in outcomes : Alike(o, p)
        BY <1>7 DEF Alike
    <3>. QED BY <1>1, <1>11, <3>1, OwnNone
  <2>4. Asks(d)
      BY <1>6, <2>1 DEF Asks, AskedInv
  <2>5. /\ \A n \in d.wave : job[n].made
        /\ IsMaster(s) => \A n \in d.wave : ~job[n].live
      BY <1>1, <1>6, <2>1 DEF MadeInv, QuietInv
  <2>6. /\ IsMaster(s) => d.seen = life'
        /\ life' = life /\ d.at # "running" /\ d.at # "end"
      BY <1>1, <1>6, <2>1 DEF MasterInv
  <2>. QED BY <1>9, <2>2, <2>3, <2>4, <2>5, <2>6, Zenon DEF Fits
<1>12. faults' \in Nat
    BY <1>2, <1>7, FaultsCount
<1>13. /\ job' = job /\ master' = master /\ overtaken' = overtaken
       /\ outcomes' \subseteq OutcomeRecord
    BY <1>1, <1>2, <1>7
<1>14. Local(s, d, 0)
    BY <1>2, <1>4, <1>5, <1>9, <1>10, <1>11, <1>12, <1>13, Zenon DEF Local, Frees, LifeGoes
<1>. QED BY <1>14, LocalKeeps

Came(r, n) == [r EXCEPT !.asked = @ \ {n}, !.back = @ \cup {n}, !.flying = @]

LEMMA CameIs ==
    ASSUME NEW r \in DriveRecord, NEW n \in Member, NEW d, d = Came(r, n)
    PROVE  /\ d \in DriveRecord /\ d.at = r.at /\ d.asked = r.asked \ {n}
           /\ d.back = r.back \cup {n} /\ d.flying = r.flying /\ d.wave = r.wave
           /\ d.seen = r.seen /\ d.todo = r.todo /\ d.proven = r.proven
<1>. DEFINE r1 == [r EXCEPT !.asked = r.asked \ {n}]
            r2 == [r1 EXCEPT !.back = r.back \cup {n}]
            r3 == [r2 EXCEPT !.flying = r.flying]
<1>1. /\ r.flying \in SUBSET Member /\ r.asked \ {n} \in SUBSET Member
      /\ r.back \cup {n} \in SUBSET Member
    BY DEF DriveRecord
<1>2. r1 \in DriveRecord
    BY <1>1, DriveFields, Zenon
<1>3. r2 \in DriveRecord
    BY <1>1, <1>2, DriveFields, Zenon
<1>4. r3 \in DriveRecord
    BY <1>1, <1>3, DriveFields, Zenon
<1>5. d = r3
    BY SMTT(60) DEF DriveRecord, Came
<1>6. d \in DriveRecord
    BY <1>4, <1>5, Zenon
<1>. QED BY <1>6, SMTT(60) DEF DriveRecord, Came

\* When the outcomes stay, those of s still name its wave, and no hold of what came back.
LEMMA OwnStays ==
    ASSUME WavesAssumption, WaveInv, ~overtaken, NEW s \in Session, NEW d,
           outcomes' = outcomes, d.at \in {"admit", "running"}, drive[s].wave \subseteq d.wave,
           \A n \in Member : n \in d.back =>
              (n \in drive[s].back /\ hold'[n].id \in {0, hold[n].id}) \/ hold'[n].id = 0
    PROVE  OwnOutcomes(s, d)
<1>1. SUFFICES ASSUME NEW o \in outcomes, o.owner = s, ~o.settled
               PROVE  \A h \in o.holds :
                         h.node \in d.wave /\ (h.node \in d.back => hold'[h.node].id # h.id)
  <2>1. \A o \in outcomes : Alike(o, o)
      BY DEF Alike
  <2>. QED BY <2>1, Zenon DEF OwnOutcomes
<1>2. Owns(drive[s], o)
    BY <1>1, OrderIs DEF OwnInv
<1>3. SUFFICES ASSUME NEW h \in o.holds
               PROVE  h.node \in d.wave /\ (h.node \in d.back => hold'[h.node].id # h.id)
    OBVIOUS
<1>4. h \in Named /\ WaveTypeOK
    BY <1>1, <1>3, KnownHas DEF WaveInv
<1>5. h.id # 0 /\ h.node \in Member
    BY <1>4, NamedIds
<1>6. h.node \in drive[s].wave /\ (h.node \in drive[s].back => hold[h.node].id # h.id)
    BY <1>2, <1>3 DEF Owns
<1>. QED BY <1>5, <1>6

\* A node comes back from a launch; it is idle, and its hold has ended.
LEMMA CameKeeps ==
    ASSUME WavesAssumption, WaveInv, NEW s \in Session, NEW n \in Member,
           drive[s].at = "running", hold' \in [Member -> HoldRecord], Frees(hold'),
           drive' = [drive EXCEPT ![s] = Came(drive[s], n)],
           UNCHANGED <<job, life, outcomes, master, overtaken, faults>>,
           ~overtaken => ~job[n].live /\ hold'[n] = NoHold
    PROVE  WaveInv'
<1>1. /\ drive[s].at = "running" /\ drive[s].at \in Reading
      /\ UNCHANGED <<job, life, outcomes, master, overtaken, faults>>
    BY DEF Launching, Reading
<1>2. /\ WaveTypeOK /\ drive[s] \in DriveRecord /\ LifeGoes(s) /\ faults' \in Nat
      /\ drive[s].wave \subseteq Member
      /\ outcomes \subseteq OutcomeRecord
    BY <1>1, HoldStays, StaysOf DEF DriveRecord, WaveTypeOK
<1>3. PICK d : d = Came(drive[s], n)
    OBVIOUS
<1>4. drive' = [drive EXCEPT ![s] = d]
    BY <1>3
<1>5. /\ d \in DriveRecord /\ d.at = "running" /\ d.asked = drive[s].asked \ {n}
      /\ d.back = drive[s].back \cup {n} /\ d.flying = drive[s].flying /\ d.wave = drive[s].wave
      /\ d.seen = drive[s].seen /\ d.todo = drive[s].todo /\ d.proven = drive[s].proven
    BY <1>1, <1>2, <1>3, CameIs
<1>6. job' = job /\ life' = life /\ outcomes' = outcomes /\ master' = master
      /\ overtaken' = overtaken
    BY <1>1
<1>7. Rereads(d) /\ \A h \in d.proven : h \in Named
    BY <1>5, <1>6, KnownHas DEF Rereads
<1>8. Kept(d, 0) /\ ReadOutcomes(d)
    BY <1>5, <1>7, RereadIs
<1>9. ~overtaken => ~job[n].live
    OBVIOUS
<1>10. \A m \in Member : hold'[m] = hold[m] \/ hold'[m] = NoHold
    BY DEF Frees
<1>11. ASSUME ~overtaken PROVE Fits(s, d)
  <2>1. MadeInv /\ AskedInv /\ QuietInv /\ MasterInv /\ MineInv
      BY <1>11, OrderIs
  <2>2. \A m \in Member : hold'[m].by = s => Holds(d, m, job[m].live)
    <3>1. SUFFICES ASSUME NEW m \in Member, hold'[m].by = s PROVE Holds(d, m, job[m].live)
        OBVIOUS
    <3>2. m # n
        BY <1>11, <3>1, NoHoldIs DEF WavesAssumption
    <3>3. Holds(drive[s], m, job[m].live)
      <4>1. hold[m].by = s
          BY <1>10, <3>1, NoHoldIs DEF WavesAssumption
      <4>. QED BY <2>1, <4>1 DEF MineInv
    <3>. QED BY <1>5, <3>2, <3>3 DEF Holds, Launching
  <2>3. OwnOutcomes(s, d)
    <3>1. \A m \in Member : m \in d.back =>
             (m \in drive[s].back /\ hold'[m].id \in {0, hold[m].id}) \/ hold'[m].id = 0
        BY <1>5, <1>10, <1>11, NoHoldIs
    <3>2. d.at \in {"admit", "running"} /\ drive[s].wave \subseteq d.wave
        BY <1>5
    <3>. QED BY <1>6, <1>11, <3>1, <3>2, OwnStays
  <2>4. Asks(d)
      BY <1>1, <1>5, <2>1 DEF Asks, AskedInv
  <2>5. \A m \in d.wave : job[m].made
      BY <1>5, <2>1 DEF MadeInv
  <2>6. IsMaster(s) => d.seen = life'
      BY <1>1, <1>5, <2>1 DEF MasterInv
  <2>7. ASSUME NEW m \in d.wave
        PROVE  /\ m \in d.asked \cup d.back => ~job[m].live
               /\ m \notin d.asked \cup d.back => job[m].by = s
               /\ m \in d.asked => life'[m] = "RUNNING"
    <3>1. Out(s, drive[s], m)
        BY <1>1, <1>5, <2>1, <2>7 DEF QuietInv, In
    <3>. QED BY <1>5, <1>6, <1>9, <1>11, <3>1 DEF Out
  <2>8. d.at # "end" /\ ~Rests(d) /\ Reigns(s)
      BY <1>1, <1>5 DEF Rests, Reigns, In
  <2>. QED BY <1>6, <1>8, <2>2, <2>3, <2>4, <2>5, <2>6, <2>7, <2>8, Zenon DEF Fits
<1>12. Local(s, d, 0)
    BY <1>2, <1>4, <1>5, <1>6, <1>8, <1>10, <1>11, Zenon DEF Local, Frees, LifeGoes
<1>. QED BY <1>12, LocalKeeps

LEMMA ReturnKeeps ==
    ASSUME WavesAssumption, WaveInv, NEW s \in Session, NEW n \in Member, Return(s, n)
    PROVE  WaveInv'
<1>1. /\ drive[s].at = "running" /\ n \in drive[s].wave \ (drive[s].asked \cup drive[s].back)
      /\ ~(job[n].live /\ job[n].by = s)
      /\ UNCHANGED <<job, life, outcomes, master, overtaken, faults>>
    BY DEF Return, In
<1>2. drive' = [drive EXCEPT ![s] = Came(drive[s], n)]
  <2>1. drive' = [drive EXCEPT ![s].asked = @ \ {n}, ![s].back = @ \cup {n}, ![s].flying = @]
      BY DEF Return, Comes
  <2>. QED BY <2>1, Zenon DEF Came
<1>3. ~overtaken => ~job[n].live
  <2>1. SUFFICES ASSUME ~overtaken PROVE ~job[n].live
      OBVIOUS
  <2>2. Out(s, drive[s], n)
      BY <1>1, <2>1, OrderIs DEF QuietInv, In
  <2>. QED BY <1>1, <2>2 DEF Out
<1>4. PICK h : h = Ended(hold, n)
    OBVIOUS
<1>5. h \in [Member -> HoldRecord] /\ h[n] = NoHold /\ Frees(h)
    BY <1>3, <1>4, HoldStays, EndedIs
<1>6. hold' = h
    BY <1>4 DEF Return
<1>. QED BY <1>1, <1>2, <1>3, <1>5, <1>6, CameKeeps

\* What a launcher gives back before it launches is its own, and of runs that are idle.
LEMMA ReleasedFrees ==
    ASSUME WavesAssumption, WaveInv, NEW s \in Session, drive[s].at # "running",
           NEW ns \in SUBSET Member, NEW h, h = ReleasedAll(s, ns)
    PROVE  h \in [Member -> HoldRecord] /\ Frees(h)
<1>1. PICK ids : ids = {hold[n].id : n \in {m \in ns : Mine(s, m)}}
    OBVIOUS
<1>2. h = EndedById(hold, ids) /\ WaveTypeOK
    BY <1>1 DEF ReleasedAll, WaveInv
<1>3. ~overtaken => \A n \in Member : hold[n].id \in ids => ~job[n].live
  <2>1. SUFFICES ASSUME ~overtaken, NEW n \in Member, NEW m \in ns, Mine(s, m),
                        hold[n].id = hold[m].id
                 PROVE  ~job[n].live
      BY <1>1
  <2>2. m \in Member /\ hold[m].by = s /\ s # "gone"
      BY <2>1 DEF Mine, WavesAssumption
  <2>3. IdInv /\ MineInv
      BY <2>1, OrderIs
  <2>4. hold[m].id # 0
      BY <2>2, <2>3, NoHoldIs DEF IdInv
  <2>5. n = m
      BY <2>1, <2>2, <2>3, <2>4, Zenon DEF IdInv
  <2>. QED BY <2>2, <2>3, <2>5, Zenon DEF MineInv, Holds
<1>. QED BY <1>2, <1>3, FreesById

LEMMA FileKeeps ==
    ASSUME WavesAssumption, WaveInv, NEW s \in Session, File(s)
    PROVE  WaveInv'
<1>1. /\ drive[s].at = "prepare" /\ drive[s].at \in Reading /\ drive[s].at \in Launching
      /\ drive[s].at \notin {"admit", "running"} /\ Rests(drive[s])
      /\ UNCHANGED <<life, overtaken>>
    BY DEF File, In, Launching, Reading, Rests
<1>2. /\ hold \in [Member -> HoldRecord] /\ Frees(hold) /\ WaveTypeOK
      /\ drive[s] \in DriveRecord /\ LifeGoes(s) /\ drive[s].wave \in SUBSET Member
      /\ outcomes \subseteq OutcomeRecord /\ drive[s].at # "running"
    BY <1>1, HoldStays, StaysOf DEF DriveRecord, WaveTypeOK
<1>3. faults' \in Nat
    BY <1>2, FaultsCount DEF File
<1>4. CASE Fault /\ Leave(s, ReleasedAll(s, drive[s].wave))
  <2>1. PICK h : h = ReleasedAll(s, drive[s].wave)
      OBVIOUS
  <2>2. h \in [Member -> HoldRecord] /\ Frees(h)
      BY <1>2, <2>1, ReleasedFrees
  <2>3. Leave(s, h)
      BY <1>4, <2>1
  <2>. QED BY <1>1, <1>2, <1>3, <2>2, <2>3, LeaveIs
<1>5. CASE ~(Fault /\ Leave(s, ReleasedAll(s, drive[s].wave)))
  <2>1. PICK y : y = CHOOSE i \in 0..Cardinality(Names) : i \notin Names
      OBVIOUS
  <2>2. PICK hs : hs = {[node |-> n, id |-> hold[n].id] :
                           n \in {m \in drive[s].wave : hold[m].id # 0}}
      OBVIOUS
  <2>3. PICK new : new = [name |-> y, owner |-> s, attempts |-> 0, waits |-> 0,
                          settled |-> FALSE, flying |-> {}, holds |-> hs]
      OBVIOUS
  <2>4. /\ outcomes' = outcomes \cup {new} /\ UNCHANGED <<hold, job, master>>
        /\ drive' = [drive EXCEPT ![s].at = "admit"]
      BY <1>5, <2>1, <2>2, <2>3, Zenon DEF File
  <2>5. y \in Nat
    <3>1. IsFiniteSet(Names)
        BY DEF WaveInv, KnownInv
    <3>2. y \in 0..Cardinality(Names)
        BY <2>1, <3>1, FreshExists, Zenon
    <3>3. Cardinality(Names) \in Nat
        BY <3>1, FS_CardinalityType
    <3>. QED BY <3>2, <3>3
  <2>6. ASSUME NEW h \in hs
        PROVE  /\ h \in Entry /\ h.node \in drive[s].wave /\ h.id = hold[h.node].id /\ h.id # 0
               /\ h.id \in Known
    <3>1. PICK n \in drive[s].wave : hold[n].id # 0 /\ h = [node |-> n, id |-> hold[n].id]
        BY <2>2
    <3>2. n \in Member /\ hold[n].id \in Nat /\ hold[n].id \in Known
        BY <1>2, KnownHas DEF HoldRecord
    <3>. QED BY <3>1, <3>2 DEF Entry
  <2>7. /\ new \in OutcomeRecord /\ new.name = y /\ new.owner = s /\ ~new.settled
        /\ new.holds = hs
    <3>1. hs \in SUBSET Entry /\ {} \in SUBSET Member
        BY <2>6
    <3>2. new.name = y /\ new.owner = s /\ ~new.settled /\ new.holds = hs
        BY <2>3
    <3>3. new \in OutcomeRecord
        BY <2>3, <2>5, <3>1 DEF OutcomeRecord
    <3>. QED BY <3>2, <3>3
  <2>8. PICK d : d = [drive[s] EXCEPT !.at = "admit"]
      OBVIOUS
  <2>9. drive' = [drive EXCEPT ![s] = d]
      BY <2>4, <2>8, Zenon
  <2>10. d \in DriveRecord
    <3>1. "admit" \in Steps
        BY DEF Steps, Reading, Launching
    <3>. QED BY <1>2, <2>8, <3>1, DriveFields, Zenon
  <2>11. /\ d.at = "admit" /\ d.seen = drive[s].seen /\ d.todo = drive[s].todo
         /\ d.proven = drive[s].proven /\ d.wave = drive[s].wave /\ d.flying = drive[s].flying
         /\ d.asked = drive[s].asked /\ d.back = drive[s].back
      BY <1>2, <2>8, SMTT(60) DEF DriveRecord
  <2>12. Kept(d, y)
    <3>1. ASSUME NEW o \in outcomes' \cup d.todo
          PROVE  o.name \in Names \cup {y} /\ \A h \in o.holds : h.id \in Known
      <4>1. CASE o = new
          BY <2>6, <2>7, <4>1
      <4>2. CASE o \in Filed
          BY <4>2, KnownHas
      <4>. QED BY <2>4, <2>11, <3>1, <4>1, <4>2, KnownHas
    <3>2. d.at \notin {"claim", "end"} /\ \A h \in d.proven : h.id \in Known
        BY <2>11, KnownHas
    <3>. QED BY <3>1, <3>2, Zenon DEF Kept
  <2>13. hold' = hold /\ job' = job /\ master' = master /\ life' = life /\ overtaken' = overtaken
      BY <1>1, <2>4
  <2>14. ASSUME ~overtaken PROVE Fits(s, d)
    <3>1. MadeInv /\ AskedInv /\ QuietInv /\ MasterInv /\ MineInv /\ OwnInv /\ IdInv
        BY <2>14, OrderIs
    <3>2. \A n \in Member : hold'[n].by = s => Holds(d, n, job[n].live)
      <4>1. SUFFICES ASSUME NEW n \in Member, hold[n].by = s PROVE Holds(d, n, job[n].live)
          BY <2>13
      <4>2. Holds(drive[s], n, job[n].live)
          BY <3>1, <4>1 DEF MineInv
      <4>. QED BY <1>1, <2>11, <4>2 DEF Holds, Launching
    <3>3. d.back = {} /\ d.flying = {}
        BY <1>1, <2>11, <3>1 DEF AskedInv, Asks
    <3>4. Asks(d)
        BY <2>11, <3>3 DEF Asks
    <3>5. OwnOutcomes(s, d)
      <4>1. SUFFICES ASSUME NEW o \in outcomes', o.owner \in Session, ~o.settled, o # new
                     PROVE  o.owner # s /\ \E p \in outcomes : Alike(o, p)
        <5>1. /\ new.owner = s /\ d.at \in {"admit", "running"}
              /\ \A h \in new.holds : h.node \in d.wave
              /\ \A h \in new.holds : ~(h.node \in d.back)
            BY <2>6, <2>7, <2>11, <3>3
        <5>. QED BY <5>1, Zenon DEF OwnOutcomes
      <4>2. o \in outcomes /\ Alike(o, o)
          BY <2>4, <4>1 DEF Alike
      <4>3. o.owner # s
          BY <1>1, <3>1, <4>1, <4>2 DEF OwnInv, Owns
      <4>. QED BY <4>2, <4>3
    <3>6. ReadOutcomes(d)
      <4>1. ASSUME NEW o \in outcomes' \cup d.todo
            PROVE  /\ o.settled => Ends(o) \/ \E p \in Filed : p.settled /\ o.holds = p.holds
                   /\ \A h \in o.holds : \/ h \in Named
                                         \/ \A n \in Member : hold'[n].id = h.id => n = h.node
        <5>1. CASE o = new
          <6>1. ASSUME NEW h \in hs, NEW n \in Member, hold'[n].id = h.id PROVE n = h.node
            <7>1. h.node \in Member /\ hold[n].id = hold[h.node].id /\ hold[n].id # 0
                BY <1>2, <2>6, <2>13, <6>1
            <7>. QED BY <3>1, <7>1 DEF IdInv
          <6>. QED BY <2>7, <5>1, <6>1
        <5>2. CASE o \in Filed
            BY <5>2, KnownHas
        <5>. QED BY <2>4, <2>11, <4>1, <5>1, <5>2, KnownHas
      <4>. QED BY <2>11, <4>1, KnownHas, Zenon DEF ReadOutcomes
    <3>7. /\ \A n \in d.wave : job[n].made
          /\ IsMaster(s) => \A n \in d.wave : ~job[n].live
          /\ IsMaster(s) => d.seen = life'
        BY <1>1, <2>11, <2>13, <3>1 DEF MadeInv, QuietInv, MasterInv
    <3>8. d.at # "running" /\ d.at # "end"
        BY <2>11
    <3>. QED BY <2>13, <3>2, <3>4, <3>5, <3>6, <3>7, <3>8, Zenon DEF Fits
  <2>15. outcomes' \subseteq OutcomeRecord
      BY <1>2, <2>4, <2>7
  <2>16. Local(s, d, y)
      BY <1>2, <1>3, <2>9, <2>10, <2>12, <2>13, <2>14, <2>15, Zenon DEF Local, Frees, LifeGoes
  <2>. QED BY <2>16, LocalKeeps
<1>. QED BY <1>4, <1>5

Admitted(r, seen) == [r EXCEPT !.seen = seen, !.at = "running", !.asked = r.wave]

LEMMA AdmittedIs ==
    ASSUME NEW r \in DriveRecord, NEW seen \in [Member -> Lives], NEW d, d = Admitted(r, seen)
    PROVE  /\ d \in DriveRecord /\ d.at = "running" /\ d.seen = seen /\ d.asked = r.wave
           /\ d.back = r.back /\ d.flying = r.flying /\ d.wave = r.wave
           /\ d.todo = r.todo /\ d.proven = r.proven
<1>. DEFINE r1 == [r EXCEPT !.seen = seen]
            r2 == [r1 EXCEPT !.at = "running"]
            r3 == [r2 EXCEPT !.asked = r.wave]
<1>1. "running" \in Steps /\ r.wave \in SUBSET Member
    BY DEF DriveRecord, Steps, Reading, Launching
<1>2. r1 \in DriveRecord
    BY DriveFields, Zenon
<1>3. r2 \in DriveRecord
    BY <1>1, <1>2, DriveFields, Zenon
<1>4. r3 \in DriveRecord
    BY <1>1, <1>3, DriveFields, Zenon
<1>5. d = r3
    BY SMTT(60) DEF DriveRecord, Admitted
<1>6. d \in DriveRecord
    BY <1>4, <1>5, Zenon
<1>. QED BY <1>6, SMTT(60) DEF DriveRecord, Admitted

LEMMA AdmitKeeps ==
    ASSUME WavesAssumption, WaveInv, NEW s \in Session, Admit(s)
    PROVE  WaveInv'
<1>1. /\ drive[s].at \in {"prepare", "admit"} /\ drive[s].at \in Reading
      /\ drive[s].at \in Launching /\ Rests(drive[s]) /\ drive[s].at # "running"
      /\ UNCHANGED <<overtaken, faults>>
    BY DEF Admit, Held, In, Launching, Reading, Rests
<1>2. /\ hold \in [Member -> HoldRecord] /\ Frees(hold) /\ WaveTypeOK
      /\ drive[s] \in DriveRecord /\ drive[s].wave \in SUBSET Member
      /\ drive[s].seen \in [Member -> Lives]
      /\ outcomes \subseteq OutcomeRecord /\ faults' \in Nat
    BY <1>1, HoldStays DEF DriveRecord, WaveTypeOK
<1>3. CASE ~IsMaster(s)
  <2>1. PICK h : h = IF drive[s].many THEN ReleasedAll(s, drive[s].wave) ELSE hold
      OBVIOUS
  <2>2. Leave(s, h) /\ UNCHANGED life
      BY <1>3, <2>1 DEF Admit
  <2>3. h \in [Member -> HoldRecord] /\ Frees(h)
      BY <1>1, <1>2, <2>1, ReleasedFrees
  <2>4. LifeGoes(s)
      BY <1>1, <2>2, StaysOf
  <2>. QED BY <1>1, <1>2, <2>2, <2>3, <2>4, LeaveIs
<1>4. CASE IsMaster(s)
  <2>1. PICK seen : seen = [n \in Member |-> IF n \in drive[s].wave THEN "RUNNING"
                                             ELSE drive[s].seen[n]]
      OBVIOUS
  <2>2. PICK d : d = Admitted(drive[s], seen)
      OBVIOUS
  <2>3. seen \in [Member -> Lives]
      BY <1>2, <2>1 DEF Lives
  <2>4. /\ d \in DriveRecord /\ d.at = "running" /\ d.seen = seen /\ d.asked = drive[s].wave
        /\ d.back = drive[s].back /\ d.flying = drive[s].flying /\ d.wave = drive[s].wave
        /\ d.todo = drive[s].todo /\ d.proven = drive[s].proven
      BY <1>2, <2>2, <2>3, AdmittedIs
  <2>5. /\ life' = seen /\ UNCHANGED <<hold, outcomes, job, master>>
        /\ drive' = [drive EXCEPT ![s] = d]
    <3>1. /\ life' = seen /\ UNCHANGED <<hold, outcomes, job, master>>
          /\ drive' = [drive EXCEPT ![s].seen = seen, ![s].at = "running",
                                    ![s].asked = drive[s].wave]
        BY <1>4, <2>1 DEF Admit
    <3>2. drive' = [drive EXCEPT ![s] = d]
        BY <2>2, <3>1, Zenon DEF Admitted
    <3>. QED BY <3>1, <3>2
  <2>6. hold' = hold /\ outcomes' = outcomes /\ job' = job /\ master' = master
        /\ overtaken' = overtaken
      BY <1>1, <2>5
  <2>7. Rereads(d) /\ \A h \in d.proven : h \in Named
      BY <2>4, <2>6, KnownHas DEF Rereads
  <2>8. Kept(d, 0) /\ ReadOutcomes(d)
      BY <2>4, <2>7, RereadIs
  <2>9. ASSUME ~overtaken PROVE Fits(s, d)
    <3>1. /\ MadeInv /\ AskedInv /\ QuietInv /\ MasterInv /\ MineInv /\ OwnInv
          /\ \A n \in Member : job[n].live => life[n] = "RUNNING"
        BY <2>9, OrderIs
    <3>2. drive[s].seen = life /\ \A n \in drive[s].wave : job[n].made /\ ~job[n].live
        BY <1>1, <1>4, <3>1 DEF MasterInv, QuietInv, MadeInv
    <3>3. drive[s].back = {} /\ drive[s].flying = {}
        BY <1>1, <3>1 DEF AskedInv, Asks
    <3>4. \A n \in Member : job[n].live => life'[n] = "RUNNING"
        BY <2>1, <2>5, <3>1, <3>2
    <3>5. \A n \in Member : hold'[n].by = s => Holds(d, n, job[n].live)
      <4>1. SUFFICES ASSUME NEW n \in Member, hold[n].by = s PROVE Holds(d, n, job[n].live)
          BY <2>6
      <4>2. Holds(drive[s], n, job[n].live)
          BY <3>1, <4>1 DEF MineInv
      <4>. QED BY <2>4, <4>2 DEF Holds, Launching
    <3>6. Asks(d)
        BY <2>4, <3>3 DEF Asks
    <3>7. OwnOutcomes(s, d)
      <4>1. d.at \in {"admit", "running"} /\ drive[s].wave \subseteq d.wave
            /\ \A n \in Member : n \notin d.back
          BY <2>4, <3>3
      <4>. QED BY <2>6, <2>9, <4>1, OwnStays
    <3>8. ASSUME NEW n \in d.wave
          PROVE  job[n].made /\ ~job[n].live /\ n \in d.asked /\ life'[n] = "RUNNING"
        BY <1>2, <2>1, <2>4, <2>5, <3>2, <3>8
    <3>9. d.at # "end" /\ ~Rests(d) /\ Reigns(s)
        BY <1>4, <2>4 DEF Rests, Reigns
    <3>. QED BY <1>4, <2>4, <2>5, <2>8, <3>4, <3>5, <3>6, <3>7, <3>8, <3>9, Zenon DEF Fits
  <2>10. life' \in [Member -> Lives]
      BY <2>3, <2>5
  <2>11. Local(s, d, 0)
      BY <1>2, <2>4, <2>5, <2>6, <2>8, <2>9, <2>10, Zenon DEF Local, Frees
  <2>. QED BY <2>11, LocalKeeps
<1>. QED BY <1>3, <1>4

-----------------------------------------------------------------------------
(* A round is prepared                                                     *)

\* What a session that prepares does not touch.
Prepares(r, d) ==
    /\ d \in DriveRecord /\ d.at = r.at /\ d.back = r.back /\ d.flying = r.flying
    /\ d.todo = r.todo /\ d.proven = r.proven

Joined(r, n) == [r EXCEPT !.wave = @ \cup {n}, !.asked = @ \ {n}]

LEMMA JoinedIs ==
    ASSUME NEW r \in DriveRecord, NEW n \in Member, NEW d, d = Joined(r, n)
    PROVE  /\ Prepares(r, d) /\ d.seen = r.seen /\ d.asked = r.asked \ {n}
           /\ d.wave = r.wave \cup {n}
<1>. DEFINE r1 == [r EXCEPT !.wave = r.wave \cup {n}]
            r2 == [r1 EXCEPT !.asked = r.asked \ {n}]
<1>1. r.wave \cup {n} \in SUBSET Member /\ r.asked \ {n} \in SUBSET Member
    BY DEF DriveRecord
<1>2. r1 \in DriveRecord
    BY <1>1, DriveFields, Zenon
<1>3. r2 \in DriveRecord
    BY <1>1, <1>2, DriveFields, Zenon
<1>4. d = r2
    BY SMTT(60) DEF DriveRecord, Joined
<1>5. d \in DriveRecord
    BY <1>3, <1>4, Zenon
<1>. QED BY <1>5, SMTT(60) DEF DriveRecord, Joined, Prepares

Asked(r, asked) == [r EXCEPT !.asked = asked]

LEMMA LessAsked ==
    ASSUME NEW r \in DriveRecord, NEW asked \in SUBSET Member, NEW d, d = Asked(r, asked)
    PROVE  /\ Prepares(r, d) /\ d.seen = r.seen /\ d.asked = asked /\ d.wave = r.wave
<1>1. d \in DriveRecord
    BY DriveFields, Zenon DEF Asked
<1>. QED BY <1>1, SMTT(60) DEF DriveRecord, Prepares, Asked

Marked(r, seen, asked) == [r EXCEPT !.seen = seen, !.asked = asked]

LEMMA MarkedIs ==
    ASSUME NEW r \in DriveRecord, NEW seen \in [Member -> Lives], NEW asked \in SUBSET Member,
           NEW d, d = Marked(r, seen, asked)
    PROVE  /\ Prepares(r, d) /\ d.seen = seen /\ d.asked = asked /\ d.wave = r.wave
<1>1. [r EXCEPT !.seen = seen] \in DriveRecord
    BY DriveFields, Zenon
<1>2. d = [[r EXCEPT !.seen = seen] EXCEPT !.asked = asked]
    BY DEF Marked
<1>3. d \in DriveRecord
    BY <1>1, <1>2, DriveFields, ZenonT(60)
<1>. QED BY <1>3, SMTT(60) DEF DriveRecord, Prepares, Marked

\* A session goes on preparing: of what it asked for, less is left, and nodes that are idle
\* come into its wave.
LEMMA PreparedIs ==
    ASSUME WavesAssumption, WaveInv, ~overtaken, NEW s \in Session, drive[s].at = "prepare",
           NEW d, d.at = "prepare", d.back = drive[s].back, d.flying = drive[s].flying,
           d.asked \subseteq drive[s].asked, drive[s].wave \subseteq d.wave,
           \A n \in d.asked : d.seen[n] = "READY", outcomes' = outcomes
    PROVE  /\ Asks(d) /\ OwnOutcomes(s, d)
           /\ \A n \in Member : hold[n].by = s => Holds(d, n, job[n].live)
           /\ \A n \in drive[s].wave : job[n].made
           /\ IsMaster(s) => \A n \in drive[s].wave : ~job[n].live
<1>1. MadeInv /\ AskedInv /\ QuietInv /\ MineInv
    BY OrderIs
<1>2. d.back = {} /\ d.flying = {}
    BY <1>1 DEF AskedInv, Asks
<1>3. Asks(d)
    BY <1>2 DEF Asks
<1>4. OwnOutcomes(s, d)
  <2>1. \A o \in outcomes' : \E p \in outcomes : Alike(o, p)
      BY DEF Alike
  <2>. QED BY <2>1, OwnNone
<1>5. ASSUME NEW n \in Member, hold[n].by = s PROVE Holds(d, n, job[n].live)
  <2>1. Holds(drive[s], n, job[n].live)
      BY <1>1, <1>5 DEF MineInv
  <2>. QED BY <1>2, <2>1 DEF Holds, Launching
<1>6. /\ \A n \in drive[s].wave : job[n].made
      /\ IsMaster(s) => \A n \in drive[s].wave : ~job[n].live
    BY <1>1 DEF MadeInv, QuietInv, Rests
<1>. QED BY <1>3, <1>4, <1>5, <1>6

LEMMA MovesOn ==
    ASSUME WavesAssumption, WaveInv, NEW s \in Session, drive[s].at = "prepare", NEW d,
           Prepares(drive[s], d), d.asked \subseteq drive[s].asked,
           drive[s].wave \subseteq d.wave, drive' = [drive EXCEPT ![s] = d],
           LifeGoes(s), UNCHANGED <<hold, outcomes, job, master, overtaken>>, faults' \in Nat,
           ~overtaken => /\ \A n \in d.wave \ drive[s].wave : job[n].made /\ ~job[n].live
                         /\ \A n \in d.asked : d.seen[n] = "READY"
                         /\ IsMaster(s) => d.seen = life'
    PROVE  WaveInv'
<1>2. /\ hold \in [Member -> HoldRecord] /\ Frees(hold) /\ WaveTypeOK
      /\ drive[s] \in DriveRecord /\ outcomes \subseteq OutcomeRecord
    BY HoldStays DEF WaveTypeOK
<1>3. /\ d \in DriveRecord /\ d.at = "prepare"
      /\ d.back = drive[s].back /\ d.flying = drive[s].flying
      /\ d.todo = drive[s].todo /\ d.proven = drive[s].proven
    BY DEF Prepares
<1>4. hold' = hold /\ outcomes' = outcomes /\ job' = job /\ master' = master
      /\ overtaken' = overtaken
    OBVIOUS
<1>6. Rereads(d) /\ \A h \in d.proven : h \in Named
    BY <1>3, <1>4, KnownHas DEF Rereads
<1>7. Kept(d, 0) /\ ReadOutcomes(d)
    BY <1>3, <1>6, RereadIs
<1>8. ASSUME ~overtaken PROVE Fits(s, d)
  <2>1. /\ Asks(d) /\ OwnOutcomes(s, d)
        /\ \A n \in Member : hold[n].by = s => Holds(d, n, job[n].live)
        /\ \A n \in drive[s].wave : job[n].made
        /\ IsMaster(s) => \A n \in drive[s].wave : ~job[n].live
      BY <1>3, <1>4, <1>8, PreparedIs
  <2>2. /\ \A n \in d.wave : job[n].made
        /\ IsMaster(s) => \A n \in d.wave : ~job[n].live
      BY <1>3, <1>8, <2>1
  <2>3. d.at # "running" /\ d.at # "end" /\ (IsMaster(s) => d.seen = life')
      BY <1>3, <1>8
  <2>4. life' = life \/ (IsMaster(s) /\ \A k \in Member : job[k].live => life'[k] = "RUNNING")
      BY <1>8 DEF LifeGoes
  <2>. QED BY <1>4, <1>7, <2>1, <2>2, <2>3, <2>4, Zenon DEF Fits
<1>9. Local(s, d, 0)
    BY <1>2, <1>3, <1>4, <1>7, <1>8, Zenon DEF Local, Frees, LifeGoes
<1>. QED BY <1>9, LocalKeeps

\* What is granted is a new hold, of more than the run has spent.
LEMMA GrantedIs ==
    ASSUME WavesAssumption, WaveInv, NEW n \in Member, NEW s \in Session, Grants(n),
           NEW h, h = Granted(n, s)
    PROVE  /\ h \in HoldRecord /\ h.by = s /\ h.id \notin Known /\ h.id # 0 /\ h.id = FreshId
           /\ h.amount \in 0..Want /\ h.amount > job[n].spent
<1>1. WaveTypeOK /\ IsFiniteSet(Known)
    BY DEF WaveInv, KnownInv
<1>2. FreshId \in Nat \ {0} /\ FreshId \notin Known
    BY <1>1, FreshIs
<1>3. Left(n) \in Nat
  <2>1. Committed(Member \ {n}) \in Nat /\ Budget \in Nat
    <3>1. Uses \in Amounts
        BY <1>1, UsesAre
    <3>. QED BY <3>1, UnitsFinite DEF Committed, WavesAssumption
  <2>. QED BY <2>1 DEF Left
<1>4. h.id = FreshId /\ h.by = s
      /\ h.amount = IF Want < Left(n) - Keep[n] THEN Want ELSE Left(n) - Keep[n]
    BY DEF Granted
<1>5. Left(n) > Keep[n] /\ h.amount > job[n].spent
    BY <1>4 DEF Grants, Granted
<1>6. h.amount \in 0..Want
  <2>1. Keep[n] \in Nat /\ Want \in Nat
      BY DEF WavesAssumption
  <2>. QED BY <1>3, <1>4, <1>5, <2>1
<1>7. h \in HoldRecord
  <2>1. h = [id |-> h.id, by |-> h.by, amount |-> h.amount]
      BY DEF Granted
  <2>. QED BY <1>2, <1>4, <1>6, <2>1 DEF HoldRecord
<1>. QED BY <1>2, <1>4, <1>5, <1>6, <1>7

\* A hold is taken, and the budget is kept.
LEMMA GrantKeepsBudget ==
    ASSUME WavesAssumption, WaveInv, NEW n \in Member, NEW s \in Session, Grants(n),
           NEW h, h = Granted(n, s), hold' = [hold EXCEPT ![n] = h],
           job' \in [Member -> JobRecord], \A m \in Member : job'[m].spent = job[m].spent,
           overtaken' = overtaken
    PROVE  BudgetIsKept' /\ hold' \in [Member -> HoldRecord]
<1>1. WaveTypeOK /\ BudgetIsKept /\ hold \in [Member -> HoldRecord]
      /\ job \in [Member -> JobRecord]
    BY DEF WaveInv, WaveTypeOK
<1>2. h \in HoldRecord /\ h.amount \in 0..Want /\ h.amount > job[n].spent
    BY GrantedIs
<1>3. /\ hold' \in [Member -> HoldRecord] /\ hold'[n] = h
      /\ \A m \in Member \ {n} : hold'[m] = hold[m]
    BY <1>1, <1>2
<1>4. Uses' = [m \in Member |-> Larger(job'[m].spent, hold'[m].amount)]
    BY Zenon DEF Uses
<1>5. Uses \in Amounts /\ Uses' \in Amounts
    BY <1>1, <1>3, <1>4, AmountsOf DEF Uses
<1>6. Uses'[n] = h.amount
  <2>1. Uses'[n] = Larger(job[n].spent, h.amount)
      BY <1>3, <1>4
  <2>2. job[n].spent \in 0..Want /\ Want \in Nat
    <3>1. job[n] \in JobRecord
        BY <1>1
    <3>. QED BY <3>1 DEF JobRecord, WavesAssumption
  <2>. QED BY <1>2, <2>1, <2>2 DEF Larger
<1>7. \A m \in Member \ {n} : Uses'[m] = Uses[m] /\ (hold'[m].id # 0 => hold[m].id # 0)
    BY <1>3, <1>4 DEF Uses
<1>8. BudgetIsKept'
    BY <1>1, <1>5, <1>6, <1>7, BudgetGranted
<1>. QED BY <1>3, <1>8

\* A hold is taken for a node that is idle, or for a run that is made now.
LEMMA TakeKeeps ==
    ASSUME WavesAssumption, WaveInv, NEW s \in Session, drive[s].at = "prepare",
           NEW n \in Member, Grants(n), NEW makes \in BOOLEAN,
           Taken(s, n, Granted(n, s), makes), UNCHANGED <<life, overtaken>>, faults' \in Nat,
           ~overtaken => ~job[n].live, makes \/ job[n].made
    PROVE  WaveInv'
<1>1. PICK h : h = Granted(n, s)
    OBVIOUS
<1>2. /\ hold' = [hold EXCEPT ![n] = h]
      /\ drive' = [drive EXCEPT ![s].wave = @ \cup {n}, ![s].asked = @ \ {n}]
      /\ job' = [job EXCEPT ![n].made = @ \/ makes]
      /\ outcomes' = outcomes /\ master' = master /\ life' = life /\ overtaken' = overtaken
    BY <1>1 DEF Taken
<1>3. /\ WaveTypeOK /\ drive[s] \in DriveRecord /\ outcomes \subseteq OutcomeRecord
      /\ hold \in [Member -> HoldRecord] /\ job \in [Member -> JobRecord]
      /\ life \in [Member -> Lives] /\ master \in Session \cup {"none"} /\ overtaken \in BOOLEAN
    BY HoldStays DEF WaveTypeOK
<1>4. /\ h \in HoldRecord /\ h.by = s /\ h.id \notin Known /\ h.id # 0 /\ h.id = FreshId
    BY <1>1, GrantedIs
<1>5. PICK d : d = Joined(drive[s], n)
    OBVIOUS
<1>6. drive' = [drive EXCEPT ![s] = d]
    BY <1>2, <1>5, Zenon DEF Joined
<1>7. /\ d \in DriveRecord /\ d.at = "prepare" /\ d.seen = drive[s].seen
      /\ d.asked = drive[s].asked \ {n} /\ d.wave = drive[s].wave \cup {n}
      /\ d.back = drive[s].back /\ d.flying = drive[s].flying
      /\ d.todo = drive[s].todo /\ d.proven = drive[s].proven
      /\ d.wave \in SUBSET Member
    BY <1>3, <1>5, JoinedIs DEF Prepares, DriveRecord
<1>8. PICK j : j = [job[n] EXCEPT !.made = job[n].made \/ makes]
    OBVIOUS
<1>9. /\ j \in JobRecord /\ j.made /\ j.live = job[n].live /\ j.by = job[n].by
      /\ j.ceiling = job[n].ceiling /\ j.spent = job[n].spent
  <2>1. job[n] \in JobRecord
      BY <1>3
  <2>2. j = [job[n] EXCEPT !.made = TRUE]
      BY <1>8
  <2>3. j.made = TRUE /\ j.live = job[n].live /\ j.by = job[n].by
        /\ j.ceiling = job[n].ceiling /\ j.spent = job[n].spent
      BY <2>1, <2>2 DEF JobRecord
  <2>4. [job[n] EXCEPT !.made = TRUE] \in JobRecord
      BY <2>1 DEF JobRecord
  <2>. QED BY <2>2, <2>3, <2>4, Zenon
<1>10. /\ job' \in [Member -> JobRecord] /\ job'[n] = j
       /\ \A m \in Member \ {n} : job'[m] = job[m]
  <2>1. job' = [job EXCEPT ![n] = j]
      BY <1>2, <1>8, Zenon
  <2>. QED BY <1>3, <1>9, <2>1
<1>11. \A m \in Member : /\ job'[m].live = job[m].live /\ job'[m].by = job[m].by
                         /\ job'[m].ceiling = job[m].ceiling /\ job'[m].spent = job[m].spent
                         /\ job[m].made => job'[m].made
    BY <1>9, <1>10, Zenon
<1>12. BudgetIsKept' /\ hold' \in [Member -> HoldRecord]
    BY <1>1, <1>2, <1>10, <1>11, GrantKeepsBudget
<1>13. hold'[n] = h /\ \A m \in Member \ {n} : hold'[m] = hold[m]
    BY <1>2, <1>3
<1>14. Rereads(d) /\ \A k \in d.proven : k \in Named
    BY <1>2, <1>7, KnownHas DEF Rereads
<1>15. Kept(d, 0) /\ ReadOutcomes(d)
    BY <1>7, <1>14, RereadIs
<1>16. Typed(s, d, FreshId, 0)
  <2>1. \A m \in Member : hold'[m].id \in Known \cup {FreshId}
      BY <1>4, <1>13, KnownHas, Zenon
  <2>. QED BY <1>2, <1>3, <1>6, <1>7, <1>10, <1>12, <1>15, <2>1, Zenon DEF Typed
<1>17. ASSUME ~overtaken PROVE Sound(s, n, d)
  <2>1. /\ Asks(d) /\ OwnOutcomes(s, d)
        /\ \A m \in Member : hold[m].by = s => Holds(d, m, job[m].live)
        /\ \A m \in drive[s].wave : job[m].made
        /\ IsMaster(s) => \A m \in drive[s].wave : ~job[m].live
    <3>1. AskedInv /\ drive[s].wave \subseteq d.wave
        BY <1>7, <1>17, OrderIs
    <3>2. \A m \in d.asked : d.seen[m] = "READY"
        BY <1>7, <3>1 DEF AskedInv, Asks
    <3>3. d.asked \subseteq drive[s].asked
        BY <1>7
    <3>. QED BY <1>2, <1>7, <1>17, <3>1, <3>2, <3>3, PreparedIs
  <2>2. IdInv /\ MasterInv /\ ~job[n].live
      BY <1>17, OrderIs
  <2>3. ASSUME NEW m \in Member PROVE HoldGoes(s, n, m)
    <3>1. CASE m = n
        BY <1>4, <1>13, <2>2, <3>1, Zenon DEF HoldGoes
    <3>2. CASE m # n
        BY <1>13, <2>2, <3>2, Zenon DEF HoldGoes, IdInv
    <3>. QED BY <3>1, <3>2
  <2>4. \A m \in Member : JobGoes(s, n, m)
      BY <1>11, Zenon DEF JobGoes
  <2>5. ASSUME NEW m \in Member, hold'[m].by = s PROVE Holds(d, m, job'[m].live)
    <3>1. CASE m = n
      <4>1. d.back = {} /\ n \in d.wave /\ d.at \in Launching
          BY <1>7, <2>1 DEF Asks, Launching
      <4>. QED BY <1>11, <2>2, <3>1, <4>1 DEF Holds
    <3>2. CASE m # n
        BY <1>11, <1>13, <2>1, <2>5, <3>2
    <3>. QED BY <3>1, <3>2
  <2>6. \A m \in d.wave : job'[m].made
      BY <1>7, <1>9, <1>10, <1>11, <2>1
  <2>7. IsMaster(s) => \A m \in d.wave : ~job'[m].live
      BY <1>7, <1>11, <2>1, <2>2
  <2>8. d.at # "running" /\ d.at # "end" /\ (master' = s => IsMaster(s) /\ d.seen = life')
    <3>1. IsMaster(s) => drive[s].seen = life
        BY <2>2 DEF MasterInv, Reading, Launching
    <3>. QED BY <1>2, <1>7, <3>1 DEF IsMaster
  <2>. QED BY <1>2, <1>15, <2>1, <2>3, <2>4, <2>5, <2>6, <2>7, <2>8, Zenon DEF Sound
<1>. QED BY <1>2, <1>12, <1>16, <1>17, StepKeeps

\* A node is blocked: it is READY on file, and no run of it is alive.
LEMMA BlocksKeep ==
    ASSUME WavesAssumption, WaveInv, NEW s \in Session, drive[s].at = "prepare",
           NEW n \in drive[s].asked, Blocks(s, n), overtaken' = overtaken, faults' \in Nat
    PROVE  WaveInv'
<1>1. /\ hold \in [Member -> HoldRecord] /\ Frees(hold) /\ WaveTypeOK
      /\ drive[s] \in DriveRecord /\ drive[s].seen \in [Member -> Lives]
      /\ drive[s].asked \in SUBSET Member /\ drive[s].wave \in SUBSET Member /\ n \in Member
      /\ drive[s].at \in Reading /\ drive[s].at # "running"
    BY HoldStays DEF DriveRecord, Reading, Launching
<1>2. CASE ~IsMaster(s)
  <2>1. PICK h : h = ReleasedAll(s, drive[s].wave)
      OBVIOUS
  <2>2. Leave(s, h) /\ UNCHANGED <<life, overtaken>>
      BY <1>2, <2>1 DEF Blocks
  <2>3. h \in [Member -> HoldRecord] /\ Frees(h)
      BY <1>1, <2>1, ReleasedFrees
  <2>4. LifeGoes(s)
      BY <2>2, StaysOf
  <2>. QED BY <2>2, <2>3, <2>4, LeaveIs
<1>3. CASE IsMaster(s)
  <2>1. PICK seen : seen = [drive[s].seen EXCEPT ![n] = "DONE"]
      OBVIOUS
  <2>2. /\ life' = seen
        /\ IF drive[s].wave = {} THEN Leave(s, hold)
           ELSE /\ drive' = [drive EXCEPT ![s].seen = seen, ![s].asked = @ \ {n}]
                /\ UNCHANGED <<hold, outcomes, job, master>>
      BY <1>3, <2>1 DEF Blocks
  <2>3. ASSUME ~overtaken
        PROVE  /\ ~job[n].live /\ drive[s].seen = life
               /\ \A m \in drive[s].asked : drive[s].seen[m] = "READY"
    <3>1. drive[s].seen = life
        BY <1>1, <1>3, <2>3, OrderIs DEF MasterInv
    <3>2. \A m \in drive[s].asked : drive[s].seen[m] = "READY"
        BY <2>3, OrderIs DEF AskedInv, Asks
    <3>3. job[n].live => life[n] = "RUNNING"
        BY <1>1, <2>3, OrderIs
    <3>. QED BY <3>1, <3>2, <3>3
  <2>4. LifeGoes(s) /\ seen \in [Member -> Lives]
    <3>1. "DONE" \in Lives
        BY DEF Lives
    <3>. QED BY <1>1, <1>3, <2>1, <2>2, <2>3, <3>1, OneChanges
  <2>5. CASE drive[s].wave = {}
    <3>1. Leave(s, hold)
        BY <2>2, <2>5
    <3>. QED BY <1>1, <2>4, <3>1, LeaveIs
  <2>6. CASE drive[s].wave # {}
    <3>1. PICK asked : asked = drive[s].asked \ {n}
        OBVIOUS
    <3>2. PICK d : d = Marked(drive[s], seen, asked)
        OBVIOUS
    <3>3. /\ drive' = [drive EXCEPT ![s] = d] /\ UNCHANGED <<hold, outcomes, job, master>>
      <4>1. /\ drive' = [drive EXCEPT ![s].seen = seen, ![s].asked = @ \ {n}]
            /\ UNCHANGED <<hold, outcomes, job, master>>
          BY <2>2, <2>6
      <4>2. drive' = [drive EXCEPT ![s] = d]
          BY <3>1, <3>2, <4>1, Zenon DEF Marked
      <4>. QED BY <4>1, <4>2
    <3>4. asked \in SUBSET Member /\ asked \subseteq drive[s].asked
        BY <1>1, <3>1
    <3>5. Prepares(drive[s], d) /\ d.seen = seen /\ d.asked = asked /\ d.wave = drive[s].wave
      <4>1. drive[s] \in DriveRecord /\ seen \in [Member -> Lives] /\ asked \in SUBSET Member
          BY <1>1, <2>4, <3>4
      <4>. QED BY <3>2, <4>1, MarkedIs
    <3>6. ~overtaken => /\ \A m \in d.wave \ drive[s].wave : job[m].made /\ ~job[m].live
                        /\ \A m \in d.asked : d.seen[m] = "READY"
                        /\ IsMaster(s) => d.seen = life'
      <4>1. ASSUME ~overtaken, NEW m \in asked PROVE seen[m] = "READY"
          BY <1>1, <2>1, <2>3, <3>1, <4>1
      <4>. QED BY <2>2, <3>5, <4>1
    <3>. QED BY <2>4, <3>3, <3>4, <3>5, <3>6, MovesOn
  <2>. QED BY <2>5, <2>6
<1>. QED BY <1>2, <1>3

LEMMA LeftOutKeeps ==
    ASSUME WavesAssumption, WaveInv, NEW s \in Session, drive[s].at = "prepare",
           NEW n \in drive[s].asked, LeftOut(s, n), UNCHANGED <<life, overtaken>>,
           faults' \in Nat
    PROVE  WaveInv'
<1>1. /\ hold \in [Member -> HoldRecord] /\ Frees(hold) /\ WaveTypeOK
      /\ drive[s] \in DriveRecord /\ drive[s].seen \in [Member -> Lives]
      /\ drive[s].asked \in SUBSET Member /\ LifeGoes(s) /\ drive[s].at \in Reading
    BY HoldStays, StaysOf DEF DriveRecord, Reading, Launching
<1>2. CASE drive[s].wave = {}
  <2>1. Leave(s, hold)
      BY <1>2 DEF LeftOut
  <2>. QED BY <1>1, <2>1, LeaveIs
<1>3. CASE drive[s].wave # {}
  <2>1. PICK asked : asked = IF drive[s].many THEN drive[s].asked \ {n} ELSE {}
      OBVIOUS
  <2>2. PICK d : d = Asked(drive[s], asked)
      OBVIOUS
  <2>3. drive' = [drive EXCEPT ![s] = d] /\ UNCHANGED <<hold, outcomes, job, master>>
    <3>1. /\ drive' = [drive EXCEPT ![s].asked = IF drive[s].many THEN @ \ {n} ELSE {}]
          /\ UNCHANGED <<hold, outcomes, job, master>>
        BY <1>3 DEF LeftOut
    <3>2. drive' = [drive EXCEPT ![s] = d]
        BY <2>1, <2>2, <3>1, Zenon DEF Asked
    <3>. QED BY <3>1, <3>2
  <2>4. asked \in SUBSET Member /\ asked \subseteq drive[s].asked
      BY <1>1, <2>1
  <2>5. /\ Prepares(drive[s], d) /\ d.seen = drive[s].seen /\ d.asked = asked
        /\ d.wave = drive[s].wave
      BY <1>1, <2>2, <2>4, LessAsked
  <2>6. ASSUME ~overtaken
        PROVE  /\ \A m \in d.wave \ drive[s].wave : job[m].made /\ ~job[m].live
               /\ \A m \in d.asked : d.seen[m] = "READY"
               /\ IsMaster(s) => d.seen = life'
    <3>1. IsMaster(s) => drive[s].seen = life
        BY <1>1, <2>6, OrderIs DEF MasterInv
    <3>2. \A m \in drive[s].asked : drive[s].seen[m] = "READY"
        BY <2>6, OrderIs DEF AskedInv, Asks
    <3>. QED BY <2>4, <2>5, <3>1, <3>2
  <2>. QED BY <1>1, <2>3, <2>4, <2>5, <2>6, MovesOn
<1>. QED BY <1>2, <1>3

LEMMA JoinsKeeps ==
    ASSUME WavesAssumption, WaveInv, NEW s \in Session, drive[s].at = "prepare",
           NEW n \in Member, Joins(s, n), UNCHANGED <<life, overtaken>>,
           faults' \in Nat, job[n].made, ~job[n].live
    PROVE  WaveInv'
<1>1. /\ WaveTypeOK /\ drive[s] \in DriveRecord /\ LifeGoes(s) /\ drive[s].at \in Reading
    BY HoldStays, StaysOf DEF Reading, Launching
<1>2. PICK d : d = Joined(drive[s], n)
    OBVIOUS
<1>3. drive' = [drive EXCEPT ![s] = d] /\ UNCHANGED <<hold, outcomes, job, master>>
  <2>1. /\ drive' = [drive EXCEPT ![s].wave = @ \cup {n}, ![s].asked = @ \ {n}]
        /\ UNCHANGED <<hold, outcomes, job, master>>
      BY DEF Joins
  <2>2. drive' = [drive EXCEPT ![s] = d]
      BY <1>2, <2>1, Zenon DEF Joined
  <2>. QED BY <2>1, <2>2
<1>4. /\ Prepares(drive[s], d) /\ d.seen = drive[s].seen /\ d.asked = drive[s].asked \ {n}
      /\ d.wave = drive[s].wave \cup {n}
    BY <1>1, <1>2, JoinedIs
<1>5. ASSUME ~overtaken
      PROVE  /\ \A m \in d.wave \ drive[s].wave : job[m].made /\ ~job[m].live
             /\ \A m \in d.asked : d.seen[m] = "READY"
             /\ IsMaster(s) => d.seen = life'
  <2>1. IsMaster(s) => drive[s].seen = life
      BY <1>1, <1>5, OrderIs DEF MasterInv
  <2>2. \A m \in drive[s].asked : drive[s].seen[m] = "READY"
      BY <1>5, OrderIs DEF AskedInv, Asks
  <2>. QED BY <1>4, <2>1, <2>2
<1>6. d.asked \subseteq drive[s].asked /\ drive[s].wave \subseteq d.wave
    BY <1>4
<1>. QED BY <1>1, <1>3, <1>4, <1>5, <1>6, MovesOn

LEMMA PrepareKeeps ==
    ASSUME WavesAssumption, WaveInv, NEW s \in Session, Prepare(s)
    PROVE  WaveInv'
<1>1. PICK n : n = Least(drive[s].asked)
    OBVIOUS
<1>2. /\ drive[s].at = "prepare" /\ drive[s].asked # {} /\ overtaken' = overtaken
    BY DEF Prepare, In
<1>3. /\ WaveTypeOK /\ drive[s].asked \in SUBSET Member
    BY HoldStays DEF DriveRecord
<1>4. n \in drive[s].asked /\ n \in Member
    BY <1>1, <1>2, <1>3, LeastIs
<1>5. \/ NoFault /\ Blocks(s, n)
      \/ ~job[n].made /\ Grants(n) /\ NoFault /\ Taken(s, n, Granted(n, s), TRUE)
         /\ UNCHANGED life
      \/ /\ job[n].made /\ NoFault /\ UNCHANGED life
         /\ \/ LeftOut(s, n)
            \/ ~job[n].live /\ Joins(s, n)
            \/ ~job[n].live /\ Grants(n) /\ Taken(s, n, Granted(n, s), FALSE)
      \/ Fault /\ Blocks(s, n)
    BY <1>1, Zenon DEF Prepare
<1>6. faults' \in Nat
    BY <1>3, <1>5, FaultsCount
<1>7. CASE Blocks(s, n)
    BY <1>2, <1>4, <1>6, <1>7, BlocksKeep
<1>8. CASE /\ ~job[n].made /\ Grants(n) /\ NoFault /\ Taken(s, n, Granted(n, s), TRUE)
           /\ UNCHANGED life
  <2>1. ~overtaken => ~job[n].live
      BY <1>4, <1>8, OrderIs DEF MadeInv
  <2>2. UNCHANGED <<life, overtaken>> /\ TRUE \in BOOLEAN
      BY <1>2, <1>8
  <2>. QED BY <1>2, <1>4, <1>6, <1>8, <2>1, <2>2, TakeKeeps
<1>9. CASE job[n].made /\ UNCHANGED life /\ LeftOut(s, n)
    BY <1>2, <1>4, <1>6, <1>9, LeftOutKeeps
<1>10. CASE job[n].made /\ UNCHANGED life /\ ~job[n].live /\ Joins(s, n)
    BY <1>2, <1>4, <1>6, <1>10, JoinsKeeps
<1>11. CASE /\ job[n].made /\ UNCHANGED life /\ ~job[n].live /\ Grants(n)
            /\ Taken(s, n, Granted(n, s), FALSE)
  <2>1. UNCHANGED <<life, overtaken>> /\ FALSE \in BOOLEAN
      BY <1>2, <1>11
  <2>. QED BY <1>2, <1>4, <1>6, <1>11, <2>1, TakeKeeps
<1>. QED BY <1>5, <1>7, <1>8, <1>9, <1>10, <1>11, Zenon

-----------------------------------------------------------------------------
(* A node is launched                                                      *)

\* The hold of a launch: the launcher's own, or one that is granted now.
Obtained(s, n, h) ==
    /\ h = IF Mine(s, n) THEN hold[n] ELSE Granted(n, s)
    /\ hold' = [hold EXCEPT ![n] = h]

LEMMA LaunchHolds ==
    ASSUME WavesAssumption, WaveInv, NEW s \in Session, NEW n \in Member,
           Mine(s, n) \/ Grants(n),
           NEW h, Obtained(s, n, h),
           job' \in [Member -> JobRecord], \A m \in Member : job'[m].spent = job[m].spent,
           overtaken' = overtaken
    PROVE  /\ hold' \in [Member -> HoldRecord] /\ BudgetIsKept'
           /\ hold'[n] = h /\ h \in HoldRecord /\ h.by = s
           /\ \A m \in Member \ {n} : hold'[m] = hold[m]
           /\ \A m \in Member : hold'[m].id \in Known \cup {FreshId}
           /\ h = hold[n] \/ h.id \notin Known
<1>1. /\ WaveTypeOK /\ hold \in [Member -> HoldRecord] /\ BudgetIsKept
      /\ \A m \in Member : hold[m].id \in Known
    BY KnownHas DEF WaveInv, WaveTypeOK
<1>2. CASE Mine(s, n)
  <2>1. h = hold[n] /\ h \in HoldRecord /\ h.by = s /\ hold' = hold
      BY <1>1, <1>2 DEF Mine, Obtained
  <2>2. BudgetIsKept'
      BY <1>1, <2>1, EndingKeepsBudget
  <2>. QED BY <1>1, <2>1, <2>2
<1>3. CASE ~Mine(s, n)
  <2>1. h = Granted(n, s) /\ Grants(n)
      BY <1>3 DEF Obtained
  <2>2. h \in HoldRecord /\ h.by = s /\ h.id \notin Known /\ h.id = FreshId
      BY <2>1, GrantedIs
  <2>3. BudgetIsKept' /\ hold' \in [Member -> HoldRecord]
    <3>1. hold' = [hold EXCEPT ![n] = h]
        BY DEF Obtained
    <3>. QED BY <2>1, <3>1, GrantKeepsBudget
  <2>4. hold'[n] = h /\ \A m \in Member \ {n} : hold'[m] = hold[m]
      BY <1>1, <2>2 DEF Obtained
  <2>5. \A m \in Member : hold'[m].id \in Known \cup {FreshId}
      BY <1>1, <2>2, <2>4, Zenon
  <2>. QED BY <2>2, <2>3, <2>4, <2>5
<1>. QED BY <1>2, <1>3

\* The run starts: it may spend what its launcher holds for it.
Begins(s, n, h) ==
    /\ hold' = [hold EXCEPT ![n] = h]
    /\ drive' = [drive EXCEPT ![s].asked = @ \ {n}]
    /\ job' = [job EXCEPT ![n].live = TRUE, ![n].began = TRUE, ![n].by = s,
                          ![n].ceiling = h.amount]
    /\ UNCHANGED <<life, outcomes, master, overtaken, faults>>

LEMMA RunStarts ==
    ASSUME WavesAssumption, WaveInv, NEW s \in Session, drive[s].at = "running",
           NEW n \in drive[s].asked, ~job[n].live, Mine(s, n) \/ Grants(n),
           NEW h, Obtained(s, n, h), Begins(s, n, h)
    PROVE  WaveInv'
<1>1. /\ WaveTypeOK /\ drive[s] \in DriveRecord /\ outcomes \subseteq OutcomeRecord
      /\ hold \in [Member -> HoldRecord] /\ job \in [Member -> JobRecord]
      /\ life \in [Member -> Lives] /\ master \in Session \cup {"none"} /\ overtaken \in BOOLEAN
      /\ drive[s].asked \in SUBSET Member /\ n \in Member /\ faults \in Nat
      /\ drive[s].wave \in SUBSET Member
    BY HoldStays DEF WaveTypeOK, DriveRecord
<1>2. /\ life' = life /\ outcomes' = outcomes /\ master' = master /\ overtaken' = overtaken
      /\ faults' = faults /\ hold' = [hold EXCEPT ![n] = h]
      /\ h = IF Mine(s, n) THEN hold[n] ELSE Granted(n, s)
    BY DEF Begins, Obtained
<1>3. h \in HoldRecord /\ h.amount \in 0..Want
  <2>1. h \in HoldRecord
      BY <1>1, <1>2, GrantedIs
  <2>. QED BY <2>1 DEF HoldRecord
<1>4. PICK j : j = [job[n] EXCEPT !.live = TRUE, !.began = TRUE, !.by = s,
                                  !.ceiling = h.amount]
    OBVIOUS
<1>5. /\ j \in JobRecord /\ j.made = job[n].made /\ j.live = TRUE /\ j.by = s
      /\ j.ceiling = h.amount /\ j.spent = job[n].spent
  <2>1. job[n] \in JobRecord
      BY <1>1
  <2>2. [job[n] EXCEPT !.live = TRUE, !.began = TRUE, !.by = s, !.ceiling = h.amount]
        \in JobRecord
      BY <1>3, <2>1 DEF JobRecord
  <2>3. j.made = job[n].made /\ j.spent = job[n].spent
      BY <1>4, <2>1 DEF JobRecord
  <2>4. j.live = TRUE /\ j.by = s /\ j.ceiling = h.amount
      BY <1>4, <2>1 DEF JobRecord
  <2>. QED BY <1>4, <2>2, <2>3, <2>4, Zenon
<1>6. /\ job' \in [Member -> JobRecord] /\ job'[n] = j
      /\ \A m \in Member \ {n} : job'[m] = job[m]
  <2>1. job' = [job EXCEPT ![n] = j]
      BY <1>4, Zenon DEF Begins
  <2>. QED BY <1>1, <1>5, <2>1
<1>7. \A m \in Member : job'[m].spent = job[m].spent
    BY <1>5, <1>6, Zenon
<1>8. /\ hold' \in [Member -> HoldRecord] /\ BudgetIsKept'
      /\ hold'[n] = h /\ h.by = s
      /\ \A m \in Member \ {n} : hold'[m] = hold[m]
      /\ \A m \in Member : hold'[m].id \in Known \cup {FreshId}
      /\ h = hold[n] \/ h.id \notin Known
  <2>1. n \in Member /\ job' \in [Member -> JobRecord] /\ overtaken' = overtaken
      BY <1>1, <1>2, <1>6, Zenon
  <2>. QED BY <1>7, <2>1, LaunchHolds
<1>9. PICK asked : asked = drive[s].asked \ {n}
    OBVIOUS
<1>10. PICK d : d = Asked(drive[s], asked)
    OBVIOUS
<1>11. drive' = [drive EXCEPT ![s] = d] /\ asked \in SUBSET Member
  <2>1. drive' = [drive EXCEPT ![s].asked = @ \ {n}]
      BY DEF Begins
  <2>2. drive' = [drive EXCEPT ![s] = d]
      BY <1>9, <1>10, <2>1, Zenon DEF Asked
  <2>. QED BY <1>1, <1>9, <2>2
<1>12. Prepares(drive[s], d) /\ d.seen = drive[s].seen /\ d.asked = asked
       /\ d.wave = drive[s].wave
  <2>1. drive[s] \in DriveRecord /\ asked \in SUBSET Member
      BY <1>1, <1>11
  <2>. QED BY <1>10, <2>1, LessAsked
<1>13. /\ d \in DriveRecord /\ d.at = "running" /\ d.back = drive[s].back
       /\ d.flying = drive[s].flying /\ d.todo = drive[s].todo /\ d.proven = drive[s].proven
    BY <1>12 DEF Prepares
<1>14. Rereads(d) /\ \A k \in d.proven : k \in Named
    BY <1>2, <1>13, KnownHas DEF Rereads
<1>15. Kept(d, 0) /\ ReadOutcomes(d)
    BY <1>13, <1>14, RereadIs
<1>16. Typed(s, d, FreshId, 0)
    BY <1>1, <1>2, <1>6, <1>8, <1>11, <1>13, <1>15, Zenon DEF Typed
<1>17. ASSUME ~overtaken PROVE Sound(s, n, d)
  <2>1. IdInv /\ MasterInv /\ MineInv /\ MadeInv /\ AskedInv /\ QuietInv
      BY <1>17, OrderIs
  <2>2. /\ n \in d.wave /\ n \notin d.back /\ n \notin d.asked /\ d.flying = {}
        /\ d.asked \subseteq d.wave /\ d.asked \cap d.back = {}
        /\ d.asked \subseteq drive[s].asked
    <3>1. Asks(drive[s])
        BY <2>1 DEF AskedInv
    <3>. QED BY <1>9, <1>12, <1>13, <3>1 DEF Asks
  <2>3. \A m \in d.wave : Out(s, drive[s], m)
      BY <1>12, <2>1 DEF QuietInv, In
  <2>4. life[n] = "RUNNING" /\ job[n].made /\ Reigns(s)
      BY <1>12, <2>1, <2>2, <2>3 DEF Out, MadeInv, Reigns, In
  <2>5. ASSUME NEW m \in Member PROVE HoldGoes(s, n, m)
    <3>1. CASE hold'[m] = hold[m]
        BY <2>1, <3>1, Zenon DEF HoldGoes, IdInv
    <3>2. CASE m = n /\ h.id \notin Known
        BY <1>8, <3>2, Zenon DEF HoldGoes
    <3>. QED BY <1>8, <3>1, <3>2
  <2>6. ASSUME NEW m \in Member PROVE JobGoes(s, n, m)
    <3>1. CASE m = n
      <4>1. hold'[n].amount >= job'[n].ceiling
          BY <1>3, <1>5, <1>6, <1>8
      <4>. QED BY <1>2, <1>5, <1>6, <1>8, <2>4, <3>1, <4>1, Zenon DEF JobGoes
    <3>2. CASE m # n
        BY <1>6, <3>2, Zenon DEF JobGoes
    <3>. QED BY <3>1, <3>2
  <2>7. ASSUME NEW m \in Member, hold'[m].by = s PROVE Holds(d, m, job'[m].live)
    <3>1. CASE m = n
        BY <1>13, <2>2, <3>1 DEF Holds, Launching
    <3>2. CASE m # n
      <4>1. Holds(drive[s], m, job[m].live)
          BY <1>8, <2>1, <2>7, <3>2 DEF MineInv
      <4>. QED BY <1>6, <1>12, <1>13, <3>2, <4>1 DEF Holds
    <3>. QED BY <3>1, <3>2
  <2>8. \A m \in d.wave : job'[m].made
    <3>1. \A m \in d.wave : m \in Member /\ job[m].made
        BY <1>1, <1>12, <2>1 DEF MadeInv
    <3>. QED BY <1>5, <1>6, <3>1, Zenon
  <2>9. Asks(d)
      BY <1>13, <2>2 DEF Asks
  <2>10. ASSUME NEW m \in d.wave
         PROVE  /\ m \in d.asked \cup d.back => ~job'[m].live
                /\ m \notin d.asked \cup d.back => job'[m].by = s
                /\ m \in d.asked => life'[m] = "RUNNING"
    <3>1. CASE m = n
        BY <1>5, <1>6, <2>2, <3>1
    <3>2. CASE m # n
      <4>1. m \in drive[s].asked \cup drive[s].back <=> m \in d.asked \cup d.back
          BY <1>9, <1>12, <1>13, <3>2
      <4>2. Out(s, drive[s], m) /\ job'[m] = job[m]
          BY <1>1, <1>6, <1>12, <2>3, <2>10, <3>2
      <4>. QED BY <1>2, <2>2, <4>1, <4>2 DEF Out
    <3>. QED BY <3>1, <3>2
  <2>11. OwnOutcomes(s, d)
    <3>1. \A m \in Member : m \in d.back => m \in drive[s].back /\ hold'[m].id = hold[m].id
        BY <1>8, <1>13, <2>2
    <3>2. d.at \in {"admit", "running"} /\ drive[s].wave \subseteq d.wave
        BY <1>12, <1>13
    <3>. QED BY <1>2, <1>17, <3>1, <3>2, OwnStays
  <2>12. d.at # "end" /\ ~Rests(d) /\ (master' = s => d.seen = life')
    <3>1. IsMaster(s) => drive[s].seen = life
        BY <2>1 DEF MasterInv, Reading, Launching
    <3>. QED BY <1>2, <1>12, <1>13, <3>1 DEF Rests, IsMaster
  <2>. QED BY <1>2, <1>15, <2>4, <2>5, <2>6, <2>7, <2>8, <2>9, <2>10, <2>11, <2>12, Zenon
           DEF Sound
<1>. QED BY <1>2, <1>8, <1>16, <1>17, StepKeeps

Flies(r, n) == [r EXCEPT !.asked = @ \ {n}, !.back = @ \cup {n}, !.flying = @ \cup {n}]

LEMMA FliesIs ==
    ASSUME NEW r \in DriveRecord, NEW n \in Member, NEW d, d = Flies(r, n)
    PROVE  d \in DriveRecord /\ d.at = r.at /\ d.todo = r.todo /\ d.proven = r.proven
<1>. DEFINE r1 == [r EXCEPT !.asked = r.asked \ {n}]
            r2 == [r1 EXCEPT !.back = r.back \cup {n}]
            r3 == [r2 EXCEPT !.flying = r.flying \cup {n}]
<1>1. /\ r.flying \cup {n} \in SUBSET Member /\ r.asked \ {n} \in SUBSET Member
      /\ r.back \cup {n} \in SUBSET Member
    BY DEF DriveRecord
<1>2. r1 \in DriveRecord
    BY <1>1, DriveFields, Zenon
<1>3. r2 \in DriveRecord
    BY <1>1, <1>2, DriveFields, Zenon
<1>4. r3 \in DriveRecord
    BY <1>1, <1>3, DriveFields, Zenon
<1>5. d = r3
    BY SMTT(60) DEF DriveRecord, Flies
<1>6. d \in DriveRecord
    BY <1>4, <1>5, Zenon
<1>. QED BY <1>6, SMTT(60) DEF DriveRecord, Flies

\* Nothing that is launched is alive, unless the session was overtaken.
LEMMA AskedIsIdle ==
    ASSUME WaveInv, ~overtaken, NEW s \in Session, drive[s].at = "running",
           NEW n \in drive[s].asked
    PROVE  ~job[n].live
<1>1. n \in drive[s].wave
    BY OrderIs DEF AskedInv, Asks
<1>. QED BY <1>1, OrderIs DEF QuietInv, Out, In

\* The run is alive already: the session was overtaken.
LEMMA FlightKeeps ==
    ASSUME WavesAssumption, WaveInv, NEW s \in Session, drive[s].at = "running",
           NEW n \in drive[s].asked, job[n].live, Mine(s, n) \/ Grants(n),
           NEW h, Obtained(s, n, h), Comes(s, n, TRUE),
           UNCHANGED <<job, life, outcomes, master, overtaken, faults>>
    PROVE  WaveInv'
<1>1. /\ WaveTypeOK /\ drive[s] \in DriveRecord /\ outcomes \subseteq OutcomeRecord
      /\ job \in [Member -> JobRecord]
      /\ life \in [Member -> Lives] /\ master \in Session \cup {"none"} /\ overtaken \in BOOLEAN
      /\ drive[s].asked \in SUBSET Member /\ n \in Member /\ faults \in Nat
    BY HoldStays DEF WaveTypeOK, DriveRecord
<1>2. /\ job' = job /\ life' = life /\ outcomes' = outcomes /\ master' = master
      /\ overtaken' = overtaken /\ faults' = faults
    OBVIOUS
<1>3. /\ hold' \in [Member -> HoldRecord] /\ BudgetIsKept'
      /\ \A m \in Member : hold'[m].id \in Known \cup {FreshId}
  <2>1. /\ n \in Member /\ job' \in [Member -> JobRecord] /\ overtaken' = overtaken
        /\ \A m \in Member : job'[m].spent = job[m].spent
      BY <1>1, <1>2
  <2>. QED BY <2>1, LaunchHolds
<1>4. PICK d : d = Flies(drive[s], n)
    OBVIOUS
<1>5. drive' = [drive EXCEPT ![s] = d]
  <2>1. drive' = [drive EXCEPT ![s].asked = @ \ {n}, ![s].back = @ \cup {n},
                               ![s].flying = @ \cup {n}]
      BY DEF Comes
  <2>. QED BY <1>4, <2>1, Zenon DEF Flies
<1>6. /\ d \in DriveRecord /\ d.at = "running" /\ d.todo = drive[s].todo
      /\ d.proven = drive[s].proven
    BY <1>1, <1>4, FliesIs
<1>7. Rereads(d) /\ \A k \in d.proven : k \in Named
    BY <1>2, <1>6, KnownHas DEF Rereads
<1>8. Kept(d, 0)
    BY <1>6, <1>7, RereadIs
<1>9. Typed(s, d, FreshId, 0)
    BY <1>1, <1>2, <1>3, <1>5, <1>6, <1>8, Zenon DEF Typed
<1>10. overtaken'
    BY <1>1, <1>2, AskedIsIdle
<1>. QED BY <1>3, <1>9, <1>10, StepKeeps

LEMMA LaunchKeeps ==
    ASSUME WavesAssumption, WaveInv, NEW s \in Session, NEW n \in Member, Launch(s, n)
    PROVE  WaveInv'
<1>1. /\ drive[s].at = "running" /\ n \in drive[s].asked
      /\ UNCHANGED <<life, outcomes, master, overtaken, faults>>
    BY DEF Launch, In
<1>2. PICK h : h = IF Mine(s, n) THEN hold[n] ELSE Granted(n, s)
    OBVIOUS
<1>3. \/ /\ Mine(s, n) \/ Grants(n)
         /\ hold' = [hold EXCEPT ![n] = h]
         /\ \/ job[n].live /\ Comes(s, n, TRUE) /\ UNCHANGED job
            \/ /\ ~job[n].live /\ drive' = [drive EXCEPT ![s].asked = @ \ {n}]
               /\ job' = [job EXCEPT ![n].live = TRUE, ![n].began = TRUE, ![n].by = s,
                                     ![n].ceiling = h.amount]
      \/ /\ hold' = Ended(hold, n) /\ (hold[n].id = 0 \/ ~job[n].live)
         /\ Comes(s, n, FALSE) /\ UNCHANGED job
      \/ /\ hold' = hold /\ hold[n].id # 0 /\ job[n].live /\ Comes(s, n, FALSE) /\ UNCHANGED job
    BY <1>2 DEF Launch
<1>4. CASE /\ Mine(s, n) \/ Grants(n)
           /\ hold' = [hold EXCEPT ![n] = h]
           /\ job[n].live /\ Comes(s, n, TRUE) /\ UNCHANGED job
  <2>1. Obtained(s, n, h)
      BY <1>2, <1>4 DEF Obtained
  <2>. QED BY <1>1, <1>4, <2>1, FlightKeeps
<1>5. CASE /\ Mine(s, n) \/ Grants(n)
           /\ hold' = [hold EXCEPT ![n] = h]
           /\ ~job[n].live /\ drive' = [drive EXCEPT ![s].asked = @ \ {n}]
           /\ job' = [job EXCEPT ![n].live = TRUE, ![n].began = TRUE, ![n].by = s,
                                 ![n].ceiling = h.amount]
  <2>1. Obtained(s, n, h) /\ Begins(s, n, h)
      BY <1>1, <1>2, <1>5 DEF Obtained, Begins
  <2>. QED BY <1>1, <1>5, <2>1, RunStarts
<1>6. CASE Comes(s, n, FALSE) /\ UNCHANGED job /\ \/ hold' = Ended(hold, n)
                                                  \/ hold' = hold /\ job[n].live
  <2>1. drive' = [drive EXCEPT ![s] = Came(drive[s], n)]
    <3>1. drive' = [drive EXCEPT ![s].asked = @ \ {n}, ![s].back = @ \cup {n}, ![s].flying = @]
        BY <1>6 DEF Comes
    <3>. QED BY <3>1, Zenon DEF Came
  <2>2. ~overtaken => ~job[n].live
      BY <1>1, AskedIsIdle
  <2>3. PICK k : k = hold'
      OBVIOUS
  <2>4. /\ k \in [Member -> HoldRecord] /\ Frees(k)
        /\ ~overtaken => k[n] = NoHold
    <3>1. CASE k = Ended(hold, n)
        BY <2>2, <3>1, HoldStays, EndedIs
    <3>2. CASE k = hold /\ job[n].live
        BY <2>2, <3>2, HoldStays
    <3>. QED BY <1>6, <2>3, <3>1, <3>2
  <2>5. UNCHANGED <<job, life, outcomes, master, overtaken, faults>>
      BY <1>1, <1>6
  <2>6. hold' \in [Member -> HoldRecord] /\ Frees(hold') /\ (~overtaken => hold'[n] = NoHold)
      BY <2>3, <2>4
  <2>. QED BY <1>1, <2>1, <2>2, <2>5, <2>6, CameKeeps
<1>. QED BY <1>3, <1>4, <1>5, <1>6

-----------------------------------------------------------------------------
(* Every step, and the theorems                                            *)

LEMMA DiesKeeps ==
    ASSUME WavesAssumption, WaveInv, NEW s \in Session, SessionDies(s)
    PROVE  WaveInv'
<1>1. /\ Fault /\ UNCHANGED <<life, master, overtaken>>
      /\ drive' = [drive EXCEPT ![s] = Asleep] /\ outcomes' = Disowned(outcomes, s)
      /\ job' = Orphaned(job, s) /\ hold' = Forgotten(hold, s)
    BY DEF SessionDies
<1>2. WaveTypeOK /\ Frees(hold) /\ hold \in [Member -> HoldRecord] /\ LifeGoes(s)
      /\ overtaken' = overtaken
    BY <1>1, HoldStays, StaysOf
<1>3. faults' \in Nat
    BY <1>1, <1>2, FaultsCount
<1>4. Departs(s, hold)
    BY <1>1, <1>2, <1>3, Zenon DEF Departs
<1>. QED BY <1>2, <1>4, LeaveKeeps

LEMMA SessionSteps ==
    ASSUME WavesAssumption, WaveInv, NEW s \in Session, Step(s)
    PROVE  WaveInv'
<1>1. CASE Consider(s) \/ Claim(s) \/ EndProven(s) \/ Recovered(s)
    BY <1>1, ConsiderKeeps, ClaimKeeps, EndProvenKeeps, RecoveredKeeps
<1>2. CASE Boot(s) \/ Booted(s) \/ Round(s) \/ Prepare(s)
    BY <1>2, BootKeeps, BootedKeeps, RoundKeeps, PrepareKeeps
<1>3. CASE File(s) \/ Admit(s) \/ Record(s) \/ Close(s)
    BY <1>3, FileKeeps, AdmitKeeps, RecordKeeps, CloseKeeps
<1>4. CASE Settle(s) \/ Settled(s)
    BY <1>4, SettleKeeps, SettledKeeps
<1>5. CASE \E n \in Member : Launch(s, n) \/ Return(s, n)
    BY <1>5, LaunchKeeps, ReturnKeeps
<1>. QED BY <1>1, <1>2, <1>3, <1>4, <1>5 DEF Step

LEMMA NextKeeps ==
    ASSUME WavesAssumption, WaveInv, WaveNext
    PROVE  WaveInv'
<1>1. CASE \E s \in Session : Drive(s) \/ Step(s) \/ SessionDies(s)
    BY <1>1, DriveKeeps, SessionSteps, DiesKeeps
<1>2. CASE \E n \in Member : Spend(n) \/ Stop(n)
    BY <1>2, SpendKeeps, StopKeeps
<1>3. CASE MasterLapses
    BY <1>3, LapseKeeps
<1>. QED BY <1>1, <1>2, <1>3 DEF WaveNext

LEMMA StutterKeeps ==
    ASSUME WavesAssumption, WaveInv, UNCHANGED waveVars
    PROVE  WaveInv'
<1>1. /\ UNCHANGED <<hold, life, outcomes, drive, overtaken, job, master, faults>>
      /\ WaveTypeOK /\ BudgetIsKept
    BY DEF waveVars, WaveInv
<1>2. faults' \in Nat /\ job' \in [Member -> JobRecord] /\ hold' \in [Member -> HoldRecord]
    BY <1>1 DEF WaveTypeOK
<1>3. BudgetIsKept'
    BY <1>1, <1>2, EndingKeepsBudget
<1>. QED BY <1>1, <1>2, <1>3, OthersKeep

LEMMA InitTypes ==
    ASSUME WavesAssumption, WaveInit
    PROVE  WaveTypeOK
<1>1. NoHold \in HoldRecord /\ Asleep \in DriveRecord
    BY NoHoldIs, AsleepIs
<1>2. NewJob \in JobRecord
    BY SMT DEF NewJob, JobRecord, WavesAssumption
<1>3. "READY" \in Lives
    BY DEF Lives
<1>4. /\ hold = [n \in Member |-> NoHold] /\ job = [n \in Member |-> NewJob]
      /\ life = [n \in Member |-> "READY"] /\ outcomes = {} /\ master = "none"
      /\ drive = [s \in Session |-> Asleep] /\ overtaken = FALSE /\ faults = 0
    BY DEF WaveInit
<1>5. /\ hold \in [Member -> HoldRecord] /\ job \in [Member -> JobRecord]
      /\ life \in [Member -> Lives] /\ drive \in [Session -> DriveRecord]
    BY <1>1, <1>2, <1>3, <1>4
<1>6. /\ outcomes \subseteq OutcomeRecord /\ master \in Session \cup {"none"}
      /\ overtaken \in BOOLEAN /\ faults \in Nat
    BY <1>4
<1>. QED BY <1>5, <1>6 DEF WaveTypeOK

LEMMA InitKeeps ==
    ASSUME WavesAssumption, WaveInit
    PROVE  WaveInv
<1>1. WaveTypeOK
    BY InitTypes
<1>2. /\ \A n \in Member : hold[n] = NoHold /\ job[n] = NewJob
      /\ \A s \in Session : drive[s] = Asleep
      /\ outcomes = {} /\ master = "none" /\ overtaken = FALSE
    BY DEF WaveInit
<1>3. /\ NoHold.id = 0 /\ NoHold.amount = 0 /\ NoHold.by = "gone"
      /\ Asleep.at = "off" /\ Asleep.todo = {} /\ Asleep.proven = {} /\ Asleep.wave = {}
      /\ Asleep.flying = {} /\ "gone" \notin Session /\ "none" \notin Session
    BY NoHoldIs, AsleepIs DEF WavesAssumption
<1>4. NewJob.live = FALSE /\ NewJob.spent = 0
    BY SMT DEF NewJob
<1>5. Filed = {} /\ Named = {} /\ Names = {}
  <2>1. Filed = {}
      BY <1>2, <1>3 DEF Filed
  <2>2. Named = {}
      BY <1>2, <1>3, <2>1 DEF Named
  <2>. QED BY <2>1, <2>2 DEF Names
<1>6. KnownInv
  <2>1. Known \subseteq {0}
      BY <1>2, <1>3, <1>5 DEF Known
  <2>2. IsFiniteSet(Known)
      BY <2>1, FS_Singleton, FS_Subset
  <2>. QED BY <1>5, <2>2, FS_EmptySet DEF KnownInv
<1>7. TodoInv
    BY <1>2, <1>3 DEF TodoInv
<1>8. IdInv
    BY <1>2, <1>3, <1>5 DEF IdInv
<1>9. MasterInv /\ MineInv
    BY <1>2, <1>3 DEF MasterInv, MineInv, In, IsMaster, Reading, Launching
<1>10. MadeInv /\ AskedInv
    BY <1>2, <1>3, <1>4 DEF MadeInv, AskedInv, Asks
<1>11. QuietInv
    BY <1>2, <1>3 DEF QuietInv, In, IsMaster
<1>12. OwnInv /\ SettledInv /\ ProvenInv
    BY <1>2, <1>3, <1>5 DEF OwnInv, SettledInv, ProvenInv, In
<1>13. LiveIsAccounted
    BY <1>2, <1>4 DEF LiveIsAccounted
<1>14. BudgetIsKept
  <2>1. \A n \in Member : Uses[n] = 0
      BY <1>2, <1>3, <1>4 DEF Uses, Larger
  <2>2. Units(Uses, Member) = {}
    <3>1. \A n \in Member : 1..Uses[n] = {}
        BY <2>1
    <3>. QED BY <3>1 DEF Units
  <2>3. Committed(Member) = 0 /\ Budget \in Nat
      BY <2>2, FS_EmptySet DEF Committed, Total, WavesAssumption
  <2>. QED BY <1>2, <1>3, <2>3 DEF BudgetIsKept
<1>. QED BY <1>1, <1>6, <1>7, <1>8, <1>9, <1>10, <1>11, <1>12, <1>13, <1>14
         DEF WaveInv, OrderInv

\* What the steps of the sessions and the runs keep, whoever is overtaken or dies.
THEOREM WavesKeepOrder == WaveSpec => []WaveInv
<1>1. WavesAssumption
    BY WavesAssumption
<1>2. WaveInit => WaveInv
    BY <1>1, InitKeeps
<1>3. WaveInv /\ [WaveNext]_waveVars => WaveInv'
    BY <1>1, NextKeeps, StutterKeeps
<1>. QED BY <1>2, <1>3, PTL DEF WaveSpec

\* "Together they could spend twice the ceiling" (reservation.py): for any sessions, nodes,
\* budget and reserves, what the runs spent and hold stays within the budget, and a live run
\* holds all that it may spend, unless a session was overtaken while its launches were out.
THEOREM BudgetIsCovered == WaveSpec => []BudgetCoversLive
<1>1. WaveInv => BudgetCoversLive
    BY DEF WaveInv, BudgetCoversLive
<1>. QED BY <1>1, WavesKeepOrder, PTL
===============================================================================
