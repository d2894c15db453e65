------------------------- MODULE DoubleDown_proofs -------------------------
(***************************************************************************)
(* Proofs about DoubleDown, for any set of halts, any number of processes  *)
(* and any bounds.  DdInv (DoubleDown.tla) is what every step keeps:       *)
(*                                                                         *)
(*   DdTypeOK    every variable is of its type;                            *)
(*   LockInv     one process works on a dossier, one amends;               *)
(*   VerdictInv  each dossier is fair, the dossier a process is in a round *)
(*               with is still the one it began the round with, and the    *)
(*               rounds of all dossiers, with the processes that ask for   *)
(*               one more, are at most the allowance and the processes     *)
(*               that had read it before it ran out;                       *)
(*   FixInv      what has been done of an amendment, at each place of the  *)
(*               process that amends, what is recorded of each fix, and    *)
(*               how far the text, the chain and the state have come,      *)
(*               wherever an amendment was cut off.                        *)
(*                                                                         *)
(* A step moves one process, writes at most one dossier (OnlyOf) beside    *)
(* the note that a listing was touched (Same, AllSame), and one repair at  *)
(* most (RepairActs) or the specification and its chain (AmendActs).       *)
(* PassKeeps and OthersKeep reduce each part to the process and the        *)
(* dossier of the step; the sums of rounds and grants move with one        *)
(* summand (BoundKeeps, from Sums_proofs).  A lemma for each action        *)
(* follows, and DdStepKeeps collects them.                                 *)
(***************************************************************************)
EXTENDS DoubleDown, Sums_proofs, FiniteSetTheorems, SequenceTheorems, TLAPS

-----------------------------------------------------------------------------
(* Records                                                                 *)

LEMMA DossierFields ==
    ASSUME NEW d \in DossierRecord
    PROVE  /\ \A v \in BOOLEAN : [d EXCEPT !.open = v] \in DossierRecord
           /\ \A v \in {"none", "WAIT", "TRIVIAL", "HARD", "RND", "HUMAN"} :
                 [d EXCEPT !.tier = v] \in DossierRecord
           /\ \A v \in {"none", "same", "moved"} : [d EXCEPT !.guard = v] \in DossierRecord
           /\ \A v \in [Perspective -> {"none"} \cup Answer] :
                 [d EXCEPT !.reports = v] \in DossierRecord
           /\ \A v \in [Perspective -> Nat] : [d EXCEPT !.failures = v] \in DossierRecord
           /\ \A v \in Nat : /\ [d EXCEPT !.rounds = v] \in DossierRecord
                             /\ [d EXCEPT !.parks = v] \in DossierRecord
                             /\ [d EXCEPT !.renewals = v] \in DossierRecord
           /\ \A v \in {"none", "DISCARDED", "FRUITFUL", "UNSOLVABLE", "CONTINUE"} :
                 [d EXCEPT !.last = v] \in DossierRecord
           /\ \A v \in {"none", "bound", "provider"} : [d EXCEPT !.park = v] \in DossierRecord
           /\ \A v \in {"none", "ESCALATED", "HUMAN_ONLY", "PROPOSAL", "OBSOLETE"} :
                 [d EXCEPT !.outcome = v] \in DossierRecord
           /\ \A v \in BOOLEAN : /\ [d EXCEPT !.touched = v] \in DossierRecord
                                 /\ [d EXCEPT !.sound = v] \in DossierRecord
<1>1. \A v \in BOOLEAN : [d EXCEPT !.open = v] \in DossierRecord
    BY DEF DossierRecord
<1>2. \A v \in {"none", "WAIT", "TRIVIAL", "HARD", "RND", "HUMAN"} :
         [d EXCEPT !.tier = v] \in DossierRecord
    BY DEF DossierRecord
<1>3. \A v \in {"none", "same", "moved"} : [d EXCEPT !.guard = v] \in DossierRecord
    BY DEF DossierRecord
<1>4. \A v \in [Perspective -> {"none"} \cup Answer] :
         [d EXCEPT !.reports = v] \in DossierRecord
    BY DEF DossierRecord
<1>5. \A v \in [Perspective -> Nat] : [d EXCEPT !.failures = v] \in DossierRecord
    BY DEF DossierRecord
<1>6. \A v \in Nat : [d EXCEPT !.rounds = v] \in DossierRecord
    BY DEF DossierRecord
<1>7. \A v \in Nat : [d EXCEPT !.parks = v] \in DossierRecord
    BY DEF DossierRecord
<1>8. \A v \in Nat : [d EXCEPT !.renewals = v] \in DossierRecord
    BY DEF DossierRecord
<1>9. \A v \in {"none", "DISCARDED", "FRUITFUL", "UNSOLVABLE", "CONTINUE"} :
         [d EXCEPT !.last = v] \in DossierRecord
    BY DEF DossierRecord
<1>10. \A v \in {"none", "bound", "provider"} : [d EXCEPT !.park = v] \in DossierRecord
    BY DEF DossierRecord
<1>11. \A v \in {"none", "ESCALATED", "HUMAN_ONLY", "PROPOSAL", "OBSOLETE"} :
          [d EXCEPT !.outcome = v] \in DossierRecord
    BY DEF DossierRecord
<1>12. \A v \in BOOLEAN : [d EXCEPT !.touched = v] \in DossierRecord
    BY DEF DossierRecord
<1>13. \A v \in BOOLEAN : [d EXCEPT !.sound = v] \in DossierRecord
    BY DEF DossierRecord
<1>. QED BY <1>1, <1>2, <1>3, <1>4, <1>5, <1>6, <1>7, <1>8, <1>9, <1>10, <1>11, <1>12, <1>13,
            Zenon

LEMMA WorkerFields ==
    ASSUME NEW w \in WorkerRecord
    PROVE  /\ \A v \in {"idle", "pass", "proposed", "verified"} \cup Holding :
                 [w EXCEPT !.at = v] \in WorkerRecord
           /\ \A v \in {"none", "pass", "person"} : [w EXCEPT !.by = v] \in WorkerRecord
           /\ \A v \in SUBSET Halt : /\ [w EXCEPT !.todo = v] \in WorkerRecord
                                     /\ [w EXCEPT !.seen = v] \in WorkerRecord
           /\ \A v \in Halt \cup {"none"} : [w EXCEPT !.block = v] \in WorkerRecord
           /\ \A v \in Nat : [w EXCEPT !.budget = v] \in WorkerRecord
BY DEF WorkerRecord

LEMMA RepairFields ==
    ASSUME NEW r \in RepairRecord
    PROVE  /\ \A v \in {"none", "note", "spec", "fix"} : [r EXCEPT !.carries = v] \in RepairRecord
           /\ \A v \in Nat : /\ [r EXCEPT !.attempts = v] \in RepairRecord
                             /\ [r EXCEPT !.proofs = v] \in RepairRecord
           /\ \A v \in {"none", "RED", "REFUTED", "INCONCLUSIVE"} :
                 [r EXCEPT !.verified = v] \in RepairRecord
           /\ \A v \in BOOLEAN : /\ [r EXCEPT !.withheld = v] \in RepairRecord
                                 /\ [r EXCEPT !.reversed = v] \in RepairRecord
           /\ \A v \in {"none", "NOT_APPLIED", "APPLIED"} :
                 [r EXCEPT !.applied = v] \in RepairRecord
BY DEF RepairRecord

-----------------------------------------------------------------------------
(* What a step does to the dossiers                                        *)

Same(d, e) ==
    /\ e.open = d.open /\ e.tier = d.tier /\ e.rounds = d.rounds /\ e.last = d.last
    /\ e.outcome = d.outcome /\ e.renewals = d.renewals /\ e.sound = d.sound
    /\ (d.touched => d.guard = "moved") => (e.touched => e.guard = "moved")
AllSame ==
    dossier' \in [Halt -> DossierRecord] /\ \A b \in Halt : Same(dossier[b], dossier'[b])
OnlyOf(b, e) ==
    /\ dossier' \in [Halt -> DossierRecord] /\ dossier'[b] = e
    /\ \A c \in Halt \ {b} : Same(dossier[c], dossier'[c])

LEMMA SameHolds ==
    ASSUME NEW d
    PROVE  Same(d, d)
BY DEF Same

LEMMA MovedIs ==
    ASSUME NEW d \in DossierRecord
    PROVE  /\ Moved(d) \in DossierRecord /\ Same(d, Moved(d))
           /\ d.guard # "none" => Moved(d).guard = "moved"
<1>1. CASE d.guard = "same"
  <2>1. Moved(d) = [d EXCEPT !.guard = "moved"]
      BY <1>1 DEF Moved
  <2>2. Moved(d) \in DossierRecord
      BY <2>1, DossierFields
  <2>3. Moved(d).guard = "moved" /\ Same(d, Moved(d))
      BY <2>1 DEF DossierRecord, Same
  <2>. QED BY <2>2, <2>3
<1>2. CASE d.guard # "same"
  <2>1. Moved(d) = d
      BY <1>2 DEF Moved
  <2>2. d.guard \in {"none", "same", "moved"}
      BY DEF DossierRecord
  <2>. QED BY <1>2, <2>1, <2>2, SameHolds
<1>. QED BY <1>1, <1>2

LEMMA FilesAre ==
    ASSUME dossier \in [Halt -> DossierRecord], NEW b \in Halt, NEW e \in DossierRecord,
           Files(b, e)
    PROVE  OnlyOf(b, e)
<1>1. dossier' = [c \in Halt |-> IF c = b THEN e ELSE Moved(dossier[c])]
    BY DEF Files
<1>2. ASSUME NEW c \in Halt PROVE Moved(dossier[c]) \in DossierRecord
    BY MovedIs
<1>3. dossier' \in [Halt -> DossierRecord]
    BY <1>1, <1>2
<1>4. ASSUME NEW c \in Halt \ {b} PROVE Same(dossier[c], dossier'[c])
  <2>1. dossier'[c] = Moved(dossier[c]) /\ dossier[c] \in DossierRecord
      BY <1>1
  <2>. QED BY <2>1, MovedIs
<1>. QED BY <1>1, <1>3, <1>4 DEF OnlyOf

LEMMA SameIsOnly ==
    ASSUME dossier \in [Halt -> DossierRecord], dossier' = dossier, NEW b \in Halt
    PROVE  AllSame /\ OnlyOf(b, dossier[b])
BY SameHolds DEF AllSame, OnlyOf

LEMMA BesideAre ==
    ASSUME dossier \in [Halt -> DossierRecord], NEW b \in Halt, FilesBeside(b)
    PROVE  AllSame /\ OnlyOf(b, dossier[b])
<1>1. OnlyOf(b, dossier[b])
    BY FilesAre DEF FilesBeside
<1>. QED BY <1>1, SameHolds DEF OnlyOf, AllSame

LEMMA TouchedAre ==
    ASSUME dossier \in [Halt -> DossierRecord], RunTouched
    PROVE  AllSame
<1>. SUFFICES ASSUME NEW c \in Halt
              PROVE  dossier'[c] \in DossierRecord /\ Same(dossier[c], dossier'[c])
    BY DEF AllSame, RunTouched
<1>. DEFINE d == dossier[c]
<1>1. d \in DossierRecord /\ Moved(d) \in DossierRecord /\ Same(d, Moved(d))
      /\ (d.guard # "none" => Moved(d).guard = "moved")
    BY MovedIs
<1>2. dossier'[c] = IF d.guard = "none" THEN d ELSE [Moved(d) EXCEPT !.touched = TRUE]
    BY DEF RunTouched
<1>3. CASE d.guard = "none"
    BY <1>1, <1>2, <1>3, SameHolds
<1>4. CASE d.guard # "none"
  <2>. DEFINE e == [Moved(d) EXCEPT !.touched = TRUE]
  <2>1. e \in DossierRecord
      BY <1>1, DossierFields
  <2>2. Same(Moved(d), e)
      BY <1>1, <1>4 DEF DossierRecord, Same
  <2>3. Same(d, e)
      BY <1>1, <2>2 DEF Same
  <2>. QED BY <1>2, <1>4, <2>1, <2>3
<1>. QED BY <1>3, <1>4

\* What is fair stays so when nothing of it changes.
LEMMA FairStays ==
    ASSUME NEW d, NEW e, DossierIsFair(d), Same(d, e)
    PROVE  DossierIsFair(e)
BY DEF DossierIsFair, Same

LEMMA AnalysesStays ==
    ASSUME NEW d, NEW e, NEW at, Analyses(at, d), Same(d, e)
    PROVE  Analyses(at, e)
BY DEF Analyses, Same

-----------------------------------------------------------------------------
(* The allowance                                                           *)

LEMMA SumsAre ==
    ASSUME DoubleDownAssumption, NEW dos \in [Halt -> DossierRecord],
           NEW f, f = [b \in Halt |-> dos[b].rounds],
           NEW g, g = [b \in Halt |-> RenewRounds * dos[b].renewals]
    PROVE  /\ \A b \in Halt : f[b] = dos[b].rounds /\ f[b] \in Nat
           /\ \A b \in Halt : g[b] = RenewRounds * dos[b].renewals /\ g[b] \in Nat
           /\ Total(f, Halt) \in Nat /\ Total(g, Halt) \in Nat /\ IsFiniteSet(Halt)
           /\ OwnerRounds + Total(g, Halt) \in Nat
<1>1. \A b \in Halt : dos[b].rounds \in Nat /\ dos[b].renewals \in Nat
    BY DEF DossierRecord
<1>2. RenewRounds \in Nat /\ OwnerRounds \in Nat /\ IsFiniteSet(Halt)
    BY DEF DoubleDownAssumption
<1>3. \A b \in Halt : f[b] = dos[b].rounds /\ f[b] \in Nat
    BY <1>1
<1>4. \A b \in Halt : g[b] = RenewRounds * dos[b].renewals
    OBVIOUS
<1>5. \A m, n \in Nat : m * n \in Nat
    BY SMT
<1>6. \A b \in Halt : g[b] \in Nat
    BY <1>1, <1>2, <1>4, <1>5
<1>7. Total(f, Halt) \in Nat /\ Total(g, Halt) \in Nat
    BY <1>2, <1>3, <1>6, SumFinite
<1>. QED BY <1>2, <1>3, <1>4, <1>6, <1>7

LEMMA AskersAre ==
    ASSUME DoubleDownAssumption, NEW A \in SUBSET Passer
    PROVE  /\ IsFiniteSet(A) /\ Cardinality(A) \in Nat /\ Cardinality(Passer) \in Nat
           /\ Cardinality(A) <= Cardinality(Passer)
BY FS_Subset, FS_CardinalityType DEF DoubleDownAssumption

WithinBound ==
    Total(Rounds, Halt) + Cardinality(Asking) <= Allowance + Cardinality(Passer) - 1

\* Who asks has a round to come; whoever begins to ask found the allowance not spent.
LEMMA BoundKeeps ==
    ASSUME DoubleDownAssumption, DdTypeOK, DdTypeOK', WithinBound, NEW b \in Halt,
           NEW p \in Passer,
           \A c \in Halt \ {b} : /\ dossier'[c].rounds = dossier[c].rounds
                                 /\ dossier'[c].renewals = dossier[c].renewals,
           dossier'[b].renewals >= dossier[b].renewals,
           \/ dossier'[b].rounds = dossier[b].rounds /\ Asking' \subseteq Asking
           \/ /\ dossier'[b].rounds = dossier[b].rounds + 1 /\ p \in Asking
              /\ Asking' \subseteq Asking \ {p}
           \/ dossier'[b].rounds = dossier[b].rounds /\ ~Spent
    PROVE  WithinBound'
<1>1. /\ Total(Rounds, Halt) \in Nat /\ Total(Grants, Halt) \in Nat /\ IsFiniteSet(Halt)
      /\ Allowance \in Nat /\ IsFiniteSet(Asking) /\ Cardinality(Asking) \in Nat
      /\ Cardinality(Asking) <= Cardinality(Passer) /\ Cardinality(Passer) \in Nat
      /\ \A c \in Halt : Rounds[c] = dossier[c].rounds /\ Rounds[c] \in Nat
      /\ \A c \in Halt : Grants[c] = RenewRounds * dossier[c].renewals /\ Grants[c] \in Nat
    BY SumsAre, AskersAre DEF Rounds, Grants, Allowance, Asking, DdTypeOK
<1>2. /\ Total(Rounds', Halt) \in Nat /\ Total(Grants', Halt) \in Nat
      /\ Allowance' \in Nat /\ IsFiniteSet(Asking') /\ Cardinality(Asking') \in Nat
      /\ Cardinality(Asking') <= Cardinality(Passer)
      /\ \A c \in Halt : Rounds'[c] = dossier'[c].rounds /\ Rounds'[c] \in Nat
      /\ \A c \in Halt : Grants'[c] = RenewRounds * dossier'[c].renewals /\ Grants'[c] \in Nat
    BY SumsAre, AskersAre DEF Rounds, Grants, Allowance, Asking, DdTypeOK
<1>3. Total(Grants, Halt) <= Total(Grants', Halt)
  <2>1. \A c \in Halt : /\ dossier[c].renewals \in Nat /\ dossier'[c].renewals \in Nat
                        /\ dossier[c].renewals <= dossier'[c].renewals
    <3>1. \A c \in Halt : dossier[c].renewals \in Nat /\ dossier'[c].renewals \in Nat
        BY DEF DdTypeOK, DossierRecord
    <3>2. \A c \in Halt : \/ c \in Halt \ {b}
                          \/ c = b
        OBVIOUS
    <3>3. \A c \in Halt \ {b} : dossier[c].renewals <= dossier'[c].renewals
        BY <3>1
    <3>4. dossier[b].renewals <= dossier'[b].renewals
        BY <3>1
    <3>. QED BY <3>1, <3>2, <3>3, <3>4
  <2>2. \A m, n, k \in Nat : m <= n => k * m <= k * n
      BY SMT
  <2>3. RenewRounds \in Nat
      BY DEF DoubleDownAssumption
  <2>4. \A c \in Halt : Grants[c] <= Grants'[c]
      BY <1>1, <1>2, <2>1, <2>2, <2>3
  <2>. QED BY <1>1, <1>2, <2>4, SumMonotone
<1>4. Allowance <= Allowance'
  <2>1. OwnerRounds \in Nat
      BY DEF DoubleDownAssumption
  <2>. QED BY <1>1, <1>2, <1>3, <2>1 DEF Allowance
<1>5. Total(Rounds', Halt) = Total(Rounds, Halt) + dossier'[b].rounds - dossier[b].rounds
  <2>6. IsFiniteSet(Halt) /\ (\A c \in Halt : Rounds[c] \in Nat)
        /\ (\A c \in Halt : Rounds'[c] \in Nat)
      BY <1>1, <1>2
  <2>1. Total(Rounds, Halt) = Total(Rounds, Halt \ {b}) + Rounds[b]
      BY ONLY <2>6, b \in Halt, SumSplits, Zenon
  <2>2. Total(Rounds', Halt) = Total(Rounds', Halt \ {b}) + Rounds'[b]
      BY ONLY <2>6, b \in Halt, SumSplits, Zenon
  <2>3. Total(Rounds', Halt \ {b}) = Total(Rounds, Halt \ {b})
    <3>1. \A c \in Halt \ {b} : Rounds'[c] = Rounds[c]
        BY <1>1, <1>2
    <3>. QED BY <3>1, SumSame
  <2>4. Total(Rounds, Halt \ {b}) \in Nat
    <3>1. IsFiniteSet(Halt \ {b})
        BY <1>1, FS_RemoveElement
    <3>. QED BY <1>1, <3>1, SumFinite
  <2>5. Rounds[b] = dossier[b].rounds /\ Rounds'[b] = dossier'[b].rounds
        /\ Rounds[b] \in Nat /\ Rounds'[b] \in Nat
      BY <1>1, <1>2
  <2>. QED BY <2>1, <2>2, <2>3, <2>4, <2>5
<1>6. dossier[b].rounds \in Nat
    BY <1>1
<1>7. WithinBound' <=> Total(Rounds', Halt) + Cardinality(Asking')
                          <= Allowance' + Cardinality(Passer) - 1
    BY DEF WithinBound
<1>8. CASE dossier'[b].rounds = dossier[b].rounds /\ Asking' \subseteq Asking
  <2>1. Cardinality(Asking') <= Cardinality(Asking)
      BY <1>1, <1>8, FS_Subset
  <2>. QED BY <1>1, <1>2, <1>4, <1>5, <1>6, <1>7, <1>8, <2>1 DEF WithinBound
<1>9. CASE /\ dossier'[b].rounds = dossier[b].rounds + 1 /\ p \in Asking
           /\ Asking' \subseteq Asking \ {p}
  <2>1. IsFiniteSet(Asking \ {p}) /\ Cardinality(Asking \ {p}) = Cardinality(Asking) - 1
      BY <1>1, <1>9, FS_RemoveElement
  <2>2. Cardinality(Asking') <= Cardinality(Asking) - 1
      BY <1>9, <2>1, FS_Subset
  <2>. QED BY <1>1, <1>2, <1>4, <1>5, <1>6, <1>7, <1>9, <2>2 DEF WithinBound
<1>10. CASE dossier'[b].rounds = dossier[b].rounds /\ ~Spent
  <2>1. Total(Rounds, Halt) < Allowance
      BY <1>1, <1>10 DEF Spent
  <2>. QED BY <1>1, <1>2, <1>4, <1>5, <1>6, <1>7, <1>10, <2>1
<1>. QED BY <1>8, <1>9, <1>10

-----------------------------------------------------------------------------
(* What a step must see to                                                 *)

\* Nobody else works on b, or nobody else has it in his rounds.
Free(p, b) == \A q \in Passer \ {p} : ~(Works(worker[q]) /\ worker[q].block = b)
Quiet(p, b) == \A q \in Passer \ {p} : ~(worker[q].at \in InRounds /\ worker[q].block = b)

LEMMA PlacesDiffer ==
    /\ InRounds \subseteq Holding /\ InRounds \cap Amending = {} /\ Amending \subseteq Holding
    /\ Proving \cup Recording \subseteq Holding /\ Recording \subseteq Amending
    /\ InRounds \cap (Proving \cup Recording \cup {"measuring"}) = {}
    /\ Holding \cap {"idle", "pass", "proposed", "verified"} = {}
BY DEF InRounds, Holding, Amending, Proving, Recording

LEMMA LockKeeps ==
    ASSUME LockInv, worker \in [Passer -> WorkerRecord], NEW p \in Passer, NEW w,
           worker' = [worker EXCEPT ![p] = w],
           w.at \notin {"idle", "pass"} => w.block \in Halt,
           Works(w) => Free(p, w.block),
           w.at \in Amending => worker[p].at \in Amending \/ ~Driven
    PROVE  LockInv'
<1>1. /\ worker'[p] = w
      /\ \A q \in Passer \ {p} : worker'[q] = worker[q]
    OBVIOUS
<1>2. \A q \in Passer : q = p \/ q \in Passer \ {p}
    OBVIOUS
<1>3. \A q \in Passer : worker'[q].at \notin {"idle", "pass"} => worker'[q].block \in Halt
    BY <1>1, <1>2 DEF LockInv
<1>4. ASSUME NEW q \in Passer, NEW r \in Passer, Works(worker'[q]), Works(worker'[r]),
             worker'[q].block = worker'[r].block
      PROVE  q = r
    BY <1>1, <1>2, <1>4 DEF LockInv, Free
<1>5. ASSUME NEW q \in Passer, NEW r \in Passer, worker'[q].at \in Amending,
             worker'[r].at \in Amending
      PROVE  q = r
    BY <1>1, <1>2, <1>5 DEF LockInv, Driven
<1>. QED BY <1>3, <1>4, <1>5 DEF LockInv

LEMMA VerdictKeeps ==
    ASSUME DoubleDownAssumption, DdTypeOK, DdTypeOK', LockInv, VerdictInv, NEW p \in Passer,
           NEW w, worker' = [worker EXCEPT ![p] = w], NEW b \in Halt, NEW e, OnlyOf(b, e),
           DossierIsFair(e), Analyses(w.at, e), w.at \in InRounds => w.block = b,
           Same(dossier[b], e) \/ Quiet(p, b), e.renewals = dossier[b].renewals,
           \/ /\ e.rounds = dossier[b].rounds
              /\ w.at = "asking" => worker[p].at = "asking" \/ ~Spent
           \/ e.rounds = dossier[b].rounds + 1 /\ worker[p].at = "asking" /\ w.at # "asking"
    PROVE  VerdictInv'
<1>1. /\ worker'[p] = w
      /\ \A q \in Passer \ {p} : worker'[q] = worker[q]
    BY DEF DdTypeOK
<1>2. /\ dossier'[b] = e
      /\ \A c \in Halt \ {b} : Same(dossier[c], dossier'[c])
    BY DEF OnlyOf
<1>3. ASSUME NEW c \in Halt PROVE DossierIsFair(dossier'[c])
  <2>1. CASE c = b
      BY <1>2, <2>1
  <2>2. CASE c # b
      BY <1>2, <2>2, FairStays DEF VerdictInv
  <2>. QED BY <2>1, <2>2
<1>4. ASSUME NEW q \in Passer, worker'[q].at \in InRounds
      PROVE  Analyses(worker'[q].at, dossier'[worker'[q].block])
  <2>1. CASE q = p
      BY <1>1, <1>2, <1>4, <2>1
  <2>2. CASE q # p
    <3>1. worker'[q] = worker[q] /\ Works(worker[q])
        BY <1>1, <1>4, <2>2, PlacesDiffer DEF Works
    <3>. DEFINE c == worker[q].block
                at == worker[q].at
    <3>2. at \in InRounds /\ c \in Halt /\ Analyses(at, dossier[c])
        BY <1>4, <3>1, PlacesDiffer DEF LockInv, VerdictInv
    <3>3. Same(dossier[c], dossier'[c])
      <4>1. CASE c = b
          BY <1>2, <2>2, <3>1, <3>2, <4>1 DEF Quiet
      <4>2. CASE c # b
          BY <1>2, <3>2, <4>2
      <4>. QED BY <4>1, <4>2
    <3>. HIDE DEF c, at
    <3>4. Analyses(at, dossier'[c])
        BY <3>2, <3>3, AnalysesStays
    <3>. QED BY <3>1, <3>4 DEF c, at
  <2>. QED BY <2>1, <2>2
<1>5. WithinBound'
  <2>1. WithinBound
      BY DEF WithinBound, VerdictInv
  <2>2. \A c \in Halt \ {b} : /\ dossier'[c].rounds = dossier[c].rounds
                              /\ dossier'[c].renewals = dossier[c].renewals
      BY <1>2 DEF Same
  <2>3. dossier'[b].renewals >= dossier[b].renewals
    <3>1. dossier[b].renewals \in Nat
        BY DEF DdTypeOK, DossierRecord
    <3>. QED BY <1>2, <3>1
  <2>4. \A q \in Passer : q \in Asking <=> worker[q].at = "asking"
      BY DEF Asking, WorkerAt
  <2>5. \A q \in Asking' : q \in Passer /\ worker'[q].at = "asking"
      BY DEF Asking, WorkerAt
  <2>6. CASE w.at # "asking"
    <3>1. Asking' \subseteq Asking \ {p}
        BY <1>1, <2>4, <2>5, <2>6
    <3>. QED BY <1>2, <2>1, <2>2, <2>3, <2>4, <2>6, <3>1, BoundKeeps
  <2>7. CASE w.at = "asking" /\ worker[p].at = "asking"
    <3>1. Asking' \subseteq Asking
        BY <1>1, <2>4, <2>5, <2>7
    <3>. QED BY <1>2, <2>1, <2>2, <2>3, <2>7, <3>1, BoundKeeps
  <2>8. CASE ~Spent /\ e.rounds = dossier[b].rounds
      BY <1>2, <2>1, <2>2, <2>3, <2>8, BoundKeeps
  <2>. QED BY <2>6, <2>7, <2>8
<1>. QED BY <1>3, <1>4, <1>5 DEF VerdictInv, WithinBound

LEMMA BoundRests ==
    ASSUME DoubleDownAssumption, DdTypeOK, DdTypeOK', WithinBound, Asking' \subseteq Asking,
           \A c \in Halt : /\ dossier'[c].rounds = dossier[c].rounds
                          /\ dossier'[c].renewals = dossier[c].renewals
    PROVE  WithinBound'
<1>1. CASE Halt = {}
  <2>1. Total(Rounds, Halt) = 0 /\ Total(Grants, Halt) = 0 /\ Total(Rounds', Halt) = 0
        /\ Total(Grants', Halt) = 0
      BY <1>1, SumOfNone
  <2>2. /\ Cardinality(Asking) \in Nat /\ Cardinality(Asking') \in Nat
        /\ Cardinality(Asking') <= Cardinality(Asking) /\ Cardinality(Passer) \in Nat
    <3>1. Asking \in SUBSET Passer /\ Asking' \in SUBSET Passer /\ Asking' \in SUBSET Asking
        BY DEF Asking
    <3>. QED BY <3>1, AskersAre, FS_Subset
  <2>3. OwnerRounds \in Nat
      BY DEF DoubleDownAssumption
  <2>. QED BY <2>1, <2>2, <2>3 DEF WithinBound, Allowance
<1>2. CASE Halt # {}
  <2>1. PICK b \in Halt : TRUE
      BY <1>2
  <2>2. PICK p \in Passer : TRUE
      BY DEF DoubleDownAssumption
  <2>3. dossier'[b].renewals >= dossier[b].renewals
    <3>1. dossier[b].renewals \in Nat
        BY DEF DdTypeOK, DossierRecord
    <3>. QED BY <3>1
  <2>. QED BY <2>1, <2>2, <2>3, BoundKeeps
<1>. QED BY <1>1, <1>2

\* Nothing is said about the rounds.
LEMMA VerdictRests ==
    ASSUME DoubleDownAssumption, DdTypeOK, DdTypeOK', LockInv, VerdictInv, AllSame,
           \A q \in Passer : worker'[q] = worker[q] \/ worker'[q].at \notin InRounds
    PROVE  VerdictInv'
<1>1. \A c \in Halt : Same(dossier[c], dossier'[c])
    BY DEF AllSame
<1>2. \A c \in Halt : DossierIsFair(dossier'[c])
    BY <1>1, FairStays DEF VerdictInv
<1>3. ASSUME NEW q \in Passer, worker'[q].at \in InRounds
      PROVE  Analyses(worker'[q].at, dossier'[worker'[q].block])
  <2>. DEFINE c == worker[q].block
              at == worker[q].at
  <2>1. worker'[q] = worker[q] /\ at \in InRounds
      BY <1>3
  <2>2. c \in Halt /\ Analyses(at, dossier[c])
      BY <2>1, PlacesDiffer DEF LockInv, VerdictInv
  <2>. HIDE DEF c, at
  <2>3. Analyses(at, dossier'[c])
      BY <1>1, <2>2, AnalysesStays
  <2>. QED BY <2>1, <2>3 DEF c, at
<1>4. WithinBound'
  <2>1. WithinBound
      BY DEF WithinBound, VerdictInv
  <2>2. Asking' \subseteq Asking
      BY DEF Asking, WorkerAt, InRounds
  <2>3. \A c \in Halt : /\ dossier'[c].rounds = dossier[c].rounds
                        /\ dossier'[c].renewals = dossier[c].renewals
      BY <1>1 DEF Same
  <2>. QED BY <2>1, <2>2, <2>3, BoundRests
<1>. QED BY <1>2, <1>3, <1>4 DEF VerdictInv, WithinBound

Fixing == Amending \cup {"proving", "approved", "measuring"}
Alike(r, t) ==
    /\ t.applied = r.applied /\ t.verified = r.verified /\ t.proofs = r.proofs
    /\ t.attempts = r.attempts /\ t.reversed = r.reversed

\* Nothing is said about amendments, and p is at none.
LEMMA FixRests ==
    ASSUME worker \in [Passer -> WorkerRecord], FixInv, NEW p \in Passer, NEW w,
           worker' = [worker EXCEPT ![p] = w], spec' = spec, standing' = standing,
           cut' = cut, worker[p].at \notin Amending, w.at \notin Fixing,
           \A b \in Halt : Alike(repair[b], repair'[b]), LockInv
    PROVE  FixInv'
<1>9. LiftsWhatStands'
    BY DEF FixInv, LiftsWhatStands, Fixing, Amending
<1>1. /\ worker'[p] = w
      /\ \A q \in Passer \ {p} : worker'[q] = worker[q]
    OBVIOUS
<1>2. /\ \A q \in Passer : Amends(worker[q].at, worker[q].block)
      /\ \A b \in Halt : RepairIsTrue(b)
    BY DEF FixInv
<1>3. Driven <=> Driven'
    BY <1>1 DEF Driven, Fixing
<1>8. SpecIsAccounted'
    BY <1>3 DEF FixInv, SpecIsAccounted, SpecInOrder, Current, CutAt
<1>4. Consistent' <=> Consistent
    BY DEF Consistent, Current
<1>5. \A b, k : InChain(b, k)' <=> InChain(b, k)
    BY DEF InChain
<1>6. ASSUME NEW q \in Passer PROVE Amends(worker[q].at, worker[q].block)'
  <2>1. CASE q = p
      BY <1>1, <2>1 DEF Amends, Fixing, Proving, Recording, Amending
  <2>2. CASE q # p
    <3>1. PICK at : at = worker[q].at
        OBVIOUS
    <3>2. PICK b : b = worker[q].block
        OBVIOUS
    <3>3. worker'[q].at = at /\ worker'[q].block = b /\ Amends(at, b)
        BY <1>1, <1>2, <2>2, <3>1, <3>2
    <3>4. b \in Halt \/ at \in {"idle", "pass"}
        BY <3>1, <3>2 DEF LockInv
    <3>5. b \in Halt => Alike(repair[b], repair'[b])
        OBVIOUS
    <3>6. Current' = Current
        BY DEF Current
    <3>7. /\ at \in {"texted", "untexted"} => Current' = spec'.state
          /\ at \in {"chained", "unchained"} => Current' = spec'.text
        BY ONLY <3>3, <3>6, spec' = spec, standing' = standing, Zenon DEF Amends
    <3>8. /\ at \in {"amended", "reverted"} => Consistent'
          /\ at \in {"unchained", "reverted"} => InChain(b, "revert")'
          /\ at \in Recording => InChain(b, "apply")'
        BY ONLY <3>3, <1>4, <1>5, Zenon DEF Amends
    <3>9. /\ at \in Proving \cup Recording =>
                /\ repair'[b].applied = "none" /\ repair'[b].verified = "RED"
                /\ repair'[b].proofs > 0
          /\ at = "measuring" => repair'[b].verified = "none"
      <4>1. /\ at \in Proving \cup Recording =>
                  repair[b].applied = "none" /\ repair[b].verified = "RED" /\ repair[b].proofs > 0
            /\ at = "measuring" => repair[b].verified = "none"
          BY <3>3 DEF Amends
      <4>2. at \in Proving \cup Recording \cup {"measuring"} => at \notin {"idle", "pass"}
          BY DEF Proving, Recording
      <4>. QED BY <3>4, <3>5, <4>1, <4>2 DEF Alike
    <3>10. Amends(at, b)'
        BY ONLY <3>7, <3>8, <3>9, Zenon DEF Amends
    <3>. QED BY <3>3, <3>10
  <2>. QED BY <2>1, <2>2
<1>7. ASSUME NEW b \in Halt PROVE RepairIsTrue(b)'
  <2>1. RepairIsTrue(b) /\ Alike(repair[b], repair'[b])
      BY <1>2
  <2>2. ASSUME NEW q \in Passer, worker[q].at \in Recording
        PROVE  worker'[q] = worker[q]
      BY <1>1, <2>2 DEF Recording, Amending
  <2>3. (\E q \in Passer : worker[q].at \in Recording /\ worker[q].block = b)
        => \E q \in Passer : worker'[q].at \in Recording /\ worker'[q].block = b
      BY <2>2
  <2>. QED BY <1>5, <2>1, <2>3 DEF RepairIsTrue, Alike, CutAt
<1>. QED BY <1>6, <1>7, <1>8, <1>9 DEF FixInv

\* p works on b: what it says of b, and of the specification if it amends it.
LEMMA FixKeeps ==
    ASSUME worker \in [Passer -> WorkerRecord], LockInv, FixInv, NEW p \in Passer, NEW w,
           NEW b \in Halt, worker' = [worker EXCEPT ![p] = w], cut \subseteq cut',
           \/ /\ spec' = spec /\ standing' = standing
              /\ worker[p].at \notin Amending /\ w.at \notin Amending
           \/ (\A q \in Passer \ {p} : worker[q].at \notin Amending) /\ SpecIsAccounted',
           \A c \in Halt \ {b} : /\ repair'[c] = repair[c]
                                 /\ \A k : InChain(c, k)' <=> InChain(c, k),
           Free(p, b), worker[p].at \in Amending => worker[p].block = b,
           w.at \in Fixing => w.block = b /\ Amends(w.at, b)',
           w.at \in {"texted", "chained"} => b \in standing',
           RepairIsTrue(b)'
    PROVE  FixInv'
<1>9. LiftsWhatStands'
  <2>1. ASSUME NEW q \in Passer, worker'[q].at \in {"texted", "chained"}
        PROVE  worker'[q].block \in standing'
    <3>1. CASE q = p
        BY <2>1, <3>1 DEF Fixing, Amending
    <3>2. CASE q # p
        BY <2>1, <3>2 DEF FixInv, LiftsWhatStands, Amending
    <3>. QED BY <3>1, <3>2
  <2>. QED BY <2>1 DEF LiftsWhatStands
<1>1. /\ worker'[p] = w
      /\ \A q \in Passer \ {p} : worker'[q] = worker[q]
    OBVIOUS
<1>2. /\ \A q \in Passer : Amends(worker[q].at, worker[q].block)
      /\ \A c \in Halt : RepairIsTrue(c)
    BY DEF FixInv
<1>3. SpecIsAccounted'
  <2>1. CASE /\ spec' = spec /\ worker[p].at \notin Amending /\ w.at \notin Amending
    <3>1. Driven' <=> Driven
        BY <1>1, <2>1 DEF Driven
    <3>2. \A c, places : CutAt(c, places) => CutAt(c, places)'
        BY DEF CutAt
    <3>. QED BY <2>1, <3>1, <3>2 DEF FixInv, SpecIsAccounted, SpecInOrder, Current
  <2>. QED BY <2>1
<1>4. ASSUME NEW q \in Passer PROVE Amends(worker[q].at, worker[q].block)'
  <2>1. CASE q = p
    <3>1. CASE w.at \in Fixing
      <4>1. w.block = b /\ Amends(w.at, b)'
          BY <3>1
      <4>. QED BY <1>1, <2>1, <4>1 DEF Amends
    <3>2. CASE w.at \notin Fixing
        BY <1>1, <2>1, <3>2 DEF Amends, Fixing, Proving, Recording, Amending
    <3>. QED BY <3>1, <3>2
  <2>2. CASE q # p
    <3>1. PICK at : at = worker[q].at
        OBVIOUS
    <3>2. PICK c : c = worker[q].block
        OBVIOUS
    <3>3. worker'[q].at = at /\ worker'[q].block = c /\ Amends(at, c)
        BY <1>1, <1>2, <2>2, <3>1, <3>2
    <3>4. at \in Holding => c \in Halt \ {b}
        BY <2>2, <3>1, <3>2 DEF Free, Works, LockInv, Holding, Amending
    <3>5. c \in Halt \ {b} => repair'[c] = repair[c]
        OBVIOUS
    <3>6. c \in Halt \ {b} => \A k : InChain(c, k)' <=> InChain(c, k)
        OBVIOUS
    <3>7. at \notin Amending \/ (spec' = spec /\ standing' = standing)
        BY <2>2, <3>1
    <3>8. /\ at \in {"texted", "untexted"} => Current' = spec'.state
          /\ at \in {"chained", "unchained"} => Current' = spec'.text
          /\ at \in {"amended", "reverted"} => Consistent'
      <4>1. CASE at \notin Amending
          BY <4>1 DEF Amending
      <4>2. CASE spec' = spec /\ standing' = standing
        <5>1. Current' = Current /\ (Consistent' <=> Consistent)
            BY <4>2 DEF Current, Consistent
        <5>. QED BY ONLY <3>3, <4>2, <5>1, Zenon DEF Amends
      <4>. QED BY <3>7, <4>1, <4>2
    <3>9. /\ at \in {"unchained", "reverted"} => InChain(c, "revert")'
          /\ at \in Recording => InChain(c, "apply")'
          /\ at \in Proving \cup Recording =>
                /\ repair'[c].applied = "none" /\ repair'[c].verified = "RED"
                /\ repair'[c].proofs > 0
          /\ at = "measuring" => repair'[c].verified = "none"
      <4>1. at \in {"unchained", "reverted", "measuring"} \cup Proving \cup Recording =>
              at \in Holding
          BY DEF Holding, Amending, Proving, Recording
      <4>2. CASE at \in Holding
        <5>1. repair'[c] = repair[c] /\ \A k : InChain(c, k)' <=> InChain(c, k)
            BY <3>4, <3>5, <3>6, <4>2
        <5>. QED BY ONLY <3>3, <5>1, Zenon DEF Amends
      <4>3. CASE at \notin Holding
          BY <4>1, <4>3
      <4>. QED BY <4>2, <4>3
    <3>10. Amends(at, c)'
        BY ONLY <3>8, <3>9, Zenon DEF Amends
    <3>. QED BY <3>3, <3>10
  <2>. QED BY <2>1, <2>2
<1>5. ASSUME NEW c \in Halt PROVE RepairIsTrue(c)'
  <2>1. CASE c = b
      BY <2>1
  <2>2. CASE c # b
    <3>1. RepairIsTrue(c) /\ repair'[c] = repair[c] /\ \A k : InChain(c, k)' <=> InChain(c, k)
        BY <1>2, <2>2
    <3>2. ASSUME NEW q \in Passer, worker[q].at \in Recording, worker[q].block = c
          PROVE  worker'[q] = worker[q]
        BY <1>1, <2>2, <3>2 DEF Recording, Amending
    <3>3. (\E q \in Passer : worker[q].at \in Recording /\ worker[q].block = c)
          => \E q \in Passer : worker'[q].at \in Recording /\ worker'[q].block = c
        BY <3>2
    <3>4. CutAt(c, Recording) => CutAt(c, Recording)'
        BY DEF CutAt, Recording
    <3>. QED BY <3>1, <3>3, <3>4 DEF RepairIsTrue
  <2>. QED BY <2>1, <2>2
<1>. QED BY <1>3, <1>4, <1>5, <1>9 DEF FixInv

-----------------------------------------------------------------------------
(* What a step does to the worker                                          *)

LEMMA GoIs ==
    ASSUME worker \in [Passer -> WorkerRecord], NEW p \in Passer,
           NEW where \in {"idle", "pass", "proposed", "verified"} \cup Holding, Go(p, where)
    PROVE  \E w \in WorkerRecord :
              /\ worker' = [worker EXCEPT ![p] = w]
              /\ w.at = where /\ w.block = worker[p].block
<1>. DEFINE w == [worker[p] EXCEPT !.at = where]
<1>1. w \in WorkerRecord
    BY WorkerFields
<1>2. worker' = [worker EXCEPT ![p] = w]
    BY DEF Go
<1>3. w.at = where /\ w.block = worker[p].block
    BY DEF WorkerRecord
<1>. QED BY <1>1, <1>2, <1>3

LEMMA RowDoneIs ==
    ASSUME worker \in [Passer -> WorkerRecord], NEW p \in Passer, NEW b, RowDone(p, b)
    PROVE  \E w \in WorkerRecord : worker' = [worker EXCEPT ![p] = w] /\ w.at = "pass"
<1>. DEFINE w1 == [worker[p] EXCEPT !.at = "pass"]
            w2 == [w1 EXCEPT !.todo = worker[p].todo \ {b}]
            w == [w2 EXCEPT !.block = "none"]
<1>1. w1 \in WorkerRecord
    BY WorkerFields
<1>2. worker[p].todo \ {b} \in SUBSET Halt
    BY DEF WorkerRecord
<1>3. w2 \in WorkerRecord
    BY <1>1, <1>2, WorkerFields
<1>4. w \in WorkerRecord
    BY <1>3, WorkerFields
<1>5. worker' = [worker EXCEPT ![p] = w]
    BY DEF RowDone
<1>6. w.at = "pass"
    BY DEF WorkerRecord
<1>. QED BY <1>4, <1>5, <1>6

LEMMA ProposedIs ==
    ASSUME worker \in [Passer -> WorkerRecord], NEW p \in Passer, NEW b \in Halt,
           Proposed(p, b)
    PROVE  \E w \in WorkerRecord :
              worker' = [worker EXCEPT ![p] = w] /\ w.at = "proposed" /\ w.block = b
<1>. DEFINE w1 == [worker[p] EXCEPT !.at = "proposed"]
            w == [w1 EXCEPT !.block = b]
<1>1. "proposed" \in {"idle", "pass", "proposed", "verified"} \cup Holding
    BY DEF Holding
<1>2. w \in WorkerRecord
    BY <1>1, WorkerFields
<1>3. worker' = [worker EXCEPT ![p] = w]
    BY DEF Proposed
<1>4. w.at = "proposed" /\ w.block = b
    BY DEF WorkerRecord
<1>. QED BY <1>2, <1>3, <1>4

Takes(p, b) == worker' = [worker EXCEPT ![p].at = "holding", ![p].block = b]
LEMMA HoldingIs ==
    ASSUME worker \in [Passer -> WorkerRecord], NEW p \in Passer, NEW b \in Halt,
           Takes(p, b)
    PROVE  \E w \in WorkerRecord :
              worker' = [worker EXCEPT ![p] = w] /\ w.at = "holding" /\ w.block = b
<1>. DEFINE w1 == [worker[p] EXCEPT !.at = "holding"]
            w == [w1 EXCEPT !.block = b]
<1>1. "holding" \in {"idle", "pass", "proposed", "verified"} \cup Holding
    BY DEF Holding
<1>2. w \in WorkerRecord
    BY <1>1, WorkerFields
<1>3. worker' = [worker EXCEPT ![p] = w]
    BY DEF Takes
<1>4. w.at = "holding" /\ w.block = b
    BY DEF WorkerRecord
<1>. QED BY <1>2, <1>3, <1>4

LEMMA IdleIs ==
    /\ Idle \in WorkerRecord /\ Idle.at = "idle"
    /\ \A b \in Halt, where \in {"idle", "pass", "proposed", "verified"} \cup Holding :
          \E w \in WorkerRecord :
             /\ w = [Idle EXCEPT !.at = where, !.by = "person", !.block = b]
             /\ w.at = where /\ w.block = b
<1>1. Idle \in WorkerRecord /\ Idle.at = "idle"
    BY DEF Idle, WorkerRecord
<1>2. ASSUME NEW b \in Halt,
             NEW where \in {"idle", "pass", "proposed", "verified"} \cup Holding
      PROVE  \E w \in WorkerRecord :
                /\ w = [Idle EXCEPT !.at = where, !.by = "person", !.block = b]
                /\ w.at = where /\ w.block = b
  <2>. DEFINE w1 == [Idle EXCEPT !.at = where]
              w2 == [w1 EXCEPT !.by = "person"]
              w == [w2 EXCEPT !.block = b]
  <2>1. w1 \in WorkerRecord
      BY <1>1, WorkerFields
  <2>2. w2 \in WorkerRecord
      BY <2>1, WorkerFields
  <2>3. w \in WorkerRecord
      BY <2>2, WorkerFields
  <2>4. w = [Idle EXCEPT !.at = where, !.by = "person", !.block = b]
      BY DEF Idle
  <2>5. w.at = where /\ w.block = b
      BY DEF Idle
  <2>. QED BY <2>3, <2>4, <2>5
<1>. QED BY <1>1, <1>2

LEMMA ReturnsIs ==
    ASSUME worker \in [Passer -> WorkerRecord], NEW p \in Passer, Returns(p)
    PROVE  \E w \in WorkerRecord :
              worker' = [worker EXCEPT ![p] = w] /\ w.at \in {"idle", "pass"}
<1>1. CASE worker[p].by = "pass"
    BY <1>1, RowDoneIs DEF Returns
<1>2. CASE worker[p].by # "pass"
    BY <1>2, IdleIs DEF Returns
<1>. QED BY <1>1, <1>2

\* A dossier nobody works on, and the one in hand.
LEMMA FreeOf ==
    ASSUME LockInv, NEW p \in Passer, NEW b,
           ~Locked(b) \/ (worker[p].at \in Holding /\ worker[p].block = b)
    PROVE  Free(p, b)
BY DEF LockInv, Locked, Free, Works

LEMMA FreeIsQuiet ==
    ASSUME NEW p, NEW b, Free(p, b)
    PROVE  Quiet(p, b)
BY DEF Free, Quiet, Works, InRounds, Holding

LEMMA UnopenedIsQuiet ==
    ASSUME VerdictInv, NEW p, NEW b \in Halt, ~dossier[b].open
    PROVE  Quiet(p, b)
BY DEF VerdictInv, Quiet, Analyses

-----------------------------------------------------------------------------
(* Steps of a pass, and the others                                         *)

\* p works on the rounds of b.
LEMMA PassKeeps ==
    ASSUME DoubleDownAssumption, DdInv, NEW p \in Passer, NEW b \in Halt,
           NEW w \in WorkerRecord, NEW e \in DossierRecord,
           worker' = [worker EXCEPT ![p] = w], OnlyOf(b, e),
           UNCHANGED <<owner, standing, raises, spec, cut>>,
           repair' \in [Halt -> RepairRecord], \A c \in Halt : Alike(repair[c], repair'[c]),
           upsets' \in Nat, capped' \in BOOLEAN,
           worker[p].at \in {"pass"} \cup InRounds,
           w.at \in {"pass", "proposed"} \cup InRounds, w.at # "pass" => w.block = b,
           DossierIsFair(e), Analyses(w.at, e), Quiet(p, b), w.at \in InRounds => Free(p, b),
           e.renewals = dossier[b].renewals,
           \/ /\ e.rounds = dossier[b].rounds
              /\ w.at = "asking" => worker[p].at = "asking" \/ ~Spent
           \/ e.rounds = dossier[b].rounds + 1 /\ worker[p].at = "asking" /\ w.at # "asking"
    PROVE  DdInv'
<1>1. worker \in [Passer -> WorkerRecord] /\ LockInv /\ FixInv /\ VerdictInv
    BY DEF DdInv, DdTypeOK
<1>2. DdTypeOK'
    BY DEF DdInv, DdTypeOK, OnlyOf
<1>3. /\ w.at \notin Amending /\ worker[p].at \notin Amending /\ w.at \notin Fixing
      /\ w.at \notin {"idle", "pass"} => w.block \in Halt
      /\ Works(w) => Free(p, w.block)
      /\ w.at \in InRounds => w.block = b
    BY DEF InRounds, Amending, Fixing, Works, Holding
<1>4. LockInv'
    BY <1>1, <1>3, LockKeeps
<1>5. FixInv'
    BY <1>1, <1>3, FixRests
<1>6. VerdictInv'
    BY <1>1, <1>2, <1>3, VerdictKeeps DEF DdInv
<1>. QED BY <1>2, <1>4, <1>5, <1>6 DEF DdInv

\* p does not.
LEMMA OthersKeep ==
    ASSUME DoubleDownAssumption, DdInv, DdTypeOK', AllSame, NEW p \in Passer,
           NEW w \in WorkerRecord, worker' = [worker EXCEPT ![p] = w],
           w.at \notin InRounds, w.at \notin {"idle", "pass"} => w.block \in Halt,
           Works(w) => Free(p, w.block),
           w.at \in Amending => worker[p].at \in Amending \/ ~Driven, FixInv'
    PROVE  DdInv'
<1>1. worker \in [Passer -> WorkerRecord] /\ LockInv /\ VerdictInv /\ DdTypeOK
    BY DEF DdInv, DdTypeOK
<1>2. LockInv'
    BY <1>1, LockKeeps
<1>3. \A q \in Passer : worker'[q] = worker[q] \/ worker'[q].at \notin InRounds
    BY <1>1
<1>4. VerdictInv'
    BY <1>1, <1>3, VerdictRests
<1>. QED BY <1>2, <1>4 DEF DdInv

LEMMA Holds ==
    ASSUME DdInv
    PROVE  /\ dossier \in [Halt -> DossierRecord] /\ repair \in [Halt -> RepairRecord]
           /\ worker \in [Passer -> WorkerRecord] /\ standing \subseteq Halt
           /\ upsets \in Nat /\ raises \in Nat /\ capped \in BOOLEAN /\ DdTypeOK
           /\ LockInv /\ VerdictInv /\ FixInv
           /\ \A b \in Halt : dossier[b] \in DossierRecord /\ DossierIsFair(dossier[b])
BY DEF DdInv, DdTypeOK, VerdictInv

LEMMA AlikeHolds ==
    ASSUME NEW r
    PROVE  Alike(r, r)
BY DEF Alike

LEMMA PassActs ==
    ASSUME DoubleDownAssumption, DdInv, NEW p \in Passer, NEW b \in Halt,
           NEW w \in WorkerRecord, NEW e \in DossierRecord,
           worker' = [worker EXCEPT ![p] = w], OnlyOf(b, e), UNCHANGED <<World, RepairVars>>,
           upsets' \in Nat, capped' \in BOOLEAN,
           worker[p].at \in {"pass"} \cup InRounds,
           w.at \in {"pass", "proposed"} \cup InRounds, w.at # "pass" => w.block = b,
           DossierIsFair(e), Analyses(w.at, e), Quiet(p, b), w.at \in InRounds => Free(p, b),
           e.renewals = dossier[b].renewals,
           \/ /\ e.rounds = dossier[b].rounds
              /\ w.at = "asking" => worker[p].at = "asking" \/ ~Spent
           \/ e.rounds = dossier[b].rounds + 1 /\ worker[p].at = "asking" /\ w.at # "asking"
    PROVE  DdInv'
<1>1. UNCHANGED <<owner, standing, raises, spec, cut>> /\ repair' = repair
    BY DEF World, RepairVars
<1>2. repair' \in [Halt -> RepairRecord] /\ \A c \in Halt : Alike(repair[c], repair'[c])
    BY <1>1, Holds, AlikeHolds
<1>. QED BY <1>1, <1>2, PassKeeps

\* The row of b is done.
LEMMA RowEnds ==
    ASSUME DoubleDownAssumption, DdInv, NEW p \in Passer, NEW b \in Halt,
           NEW e \in DossierRecord, RowDone(p, b), OnlyOf(b, e), UNCHANGED <<World, RepairVars>>,
           upsets' \in Nat, capped' \in BOOLEAN, worker[p].at \in {"pass"} \cup InRounds,
           DossierIsFair(e), Quiet(p, b),
           e.renewals = dossier[b].renewals, e.rounds = dossier[b].rounds
    PROVE  DdInv'
<1>1. PICK w \in WorkerRecord : worker' = [worker EXCEPT ![p] = w] /\ w.at = "pass"
    BY Holds, RowDoneIs
<1>2. Analyses(w.at, e)
    BY <1>1 DEF Analyses, InRounds
<1>3. w.at \notin InRounds
    BY <1>1 DEF InRounds
<1>. QED BY <1>1, <1>2, <1>3, PassActs

LEMMA RowRests ==
    ASSUME DoubleDownAssumption, DdInv, NEW p \in Passer, NEW b \in Halt, RowDone(p, b),
           dossier' = dossier \/ FilesBeside(b), UNCHANGED <<World, RepairVars>>,
           upsets' \in Nat, capped' \in BOOLEAN, worker[p].at \in {"pass"} \cup InRounds,
           Quiet(p, b)
    PROVE  DdInv'
<1>1. OnlyOf(b, dossier[b]) /\ dossier[b] \in DossierRecord /\ DossierIsFair(dossier[b])
    BY Holds, SameIsOnly, BesideAre
<1>. QED BY <1>1, RowEnds

\* What b proposes is measured next.
LEMMA RowProposes ==
    ASSUME DoubleDownAssumption, DdInv, NEW p \in Passer, NEW b \in Halt,
           NEW e \in DossierRecord, Proposed(p, b), OnlyOf(b, e),
           UNCHANGED <<World, spec, cut>>,
           repair' \in [Halt -> RepairRecord], \A c \in Halt : Alike(repair[c], repair'[c]),
           upsets' \in Nat, capped' \in BOOLEAN, worker[p].at \in {"pass"} \cup InRounds,
           DossierIsFair(e), Quiet(p, b),
           e.renewals = dossier[b].renewals, e.rounds = dossier[b].rounds
    PROVE  DdInv'
<1>1. PICK w \in WorkerRecord : /\ worker' = [worker EXCEPT ![p] = w]
                                /\ w.at = "proposed" /\ w.block = b
  <2>1. worker \in [Passer -> WorkerRecord]
      BY Holds
  <2>. QED BY <2>1, ProposedIs
<1>2. Analyses(w.at, e)
    BY <1>1 DEF Analyses, InRounds
<1>3. UNCHANGED <<owner, standing, raises, spec, cut>>
    BY DEF World
<1>5. w.at \notin InRounds
    BY <1>1 DEF InRounds
<1>. QED BY <1>1, <1>2, <1>3, <1>5, PassKeeps

\* p goes on with something else, or ends.
LEMMA Rests ==
    ASSUME DoubleDownAssumption, DdInv, NEW p \in Passer, NEW w \in WorkerRecord,
           worker' = [worker EXCEPT ![p] = w], AllSame,
           UNCHANGED <<World, spec, cut>>,
           repair' \in [Halt -> RepairRecord], \A c \in Halt : Alike(repair[c], repair'[c]),
           upsets' \in Nat, capped' \in BOOLEAN, worker[p].at \notin Amending,
           w.at \in {"idle", "pass", "proposed", "verified"},
           w.at \notin {"idle", "pass"} => w.block \in Halt
    PROVE  DdInv'
<1>1. DdTypeOK'
    BY DEF DdInv, DdTypeOK, AllSame, World
<1>2. w.at \notin InRounds /\ w.at \notin Fixing /\ w.at \notin Amending /\ ~Works(w)
    BY DEF InRounds, Amending, Fixing, Works, Holding
<1>3. worker \in [Passer -> WorkerRecord] /\ LockInv /\ FixInv
    BY Holds
<1>4. UNCHANGED <<standing, spec, cut>>
    BY DEF World
<1>5. FixInv'
    BY <1>2, <1>3, <1>4, FixRests
<1>. QED BY <1>1, <1>2, <1>5, OthersKeep

LEMMA Waits ==
    ASSUME DoubleDownAssumption, DdInv, NEW p \in Passer, NEW w \in WorkerRecord,
           worker' = [worker EXCEPT ![p] = w],
           UNCHANGED <<World, dossier, RepairVars, capped, bounds>>,
           worker[p].at \notin Amending, w.at \in {"idle", "pass", "proposed", "verified"},
           w.at \notin {"idle", "pass"} => w.block \in Halt
    PROVE  DdInv'
<1>1. AllSame
    BY Holds, SameHolds DEF AllSame
<1>2. UNCHANGED <<World, spec, cut>> /\ repair' = repair
    BY DEF RepairVars
<1>3. repair' \in [Halt -> RepairRecord] /\ \A c \in Halt : Alike(repair[c], repair'[c])
    BY <1>2, Holds, AlikeHolds
<1>4. upsets' \in Nat /\ capped' \in BOOLEAN
    BY Holds DEF bounds
<1>. QED BY <1>1, <1>2, <1>3, <1>4, Rests

-----------------------------------------------------------------------------
(* What ends a dossier                                                     *)

LEMMA ClosedIs ==
    ASSUME NEW d \in DossierRecord,
           NEW o \in {"ESCALATED", "HUMAN_ONLY", "PROPOSAL", "OBSOLETE"}
    PROVE  /\ Closed(d, o) \in DossierRecord
           /\ Closed(d, o).renewals = d.renewals /\ Closed(d, o).rounds = d.rounds
           /\ DossierIsFair(d) /\ d.open
              /\ (o = "ESCALATED" /\ d.tier = "RND" =>
                     d.last = "DISCARDED" \/ d.rounds >= UnsolvableFrom["RND"])
              => DossierIsFair(Closed(d, o))
<1>. DEFINE e == Closed(d, o)
<1>1. e \in DossierRecord
    BY DossierFields DEF Closed
<1>2. /\ e.renewals = d.renewals /\ e.rounds = d.rounds /\ e.open = d.open /\ e.tier = d.tier
      /\ e.last = d.last /\ e.touched = d.touched /\ e.guard = d.guard /\ e.sound = d.sound
      /\ e.outcome = o
    BY DEF Closed, DossierRecord
<1>. HIDE DEF e
<1>3. DossierIsFair(d) /\ d.open
      /\ (o = "ESCALATED" /\ d.tier = "RND" =>
            d.last = "DISCARDED" \/ d.rounds >= UnsolvableFrom["RND"])
      => DossierIsFair(e)
    BY <1>2 DEF DossierIsFair
<1>. QED BY <1>1, <1>2, <1>3 DEF e

LEMMA BoundedIs ==
    ASSUME DoubleDownAssumption, NEW d \in DossierRecord
    PROVE  /\ Bounded(d) \in DossierRecord
           /\ Bounded(d).renewals = d.renewals /\ Bounded(d).rounds = d.rounds
           /\ DossierIsFair(d) /\ d.open => DossierIsFair(Bounded(d))
<1>1. CASE d.tier = "RND" /\ d.rounds < UnsolvableFrom["RND"]
  <2>. DEFINE e == [d EXCEPT !.park = "bound"]
  <2>1. Bounded(d) = e
      BY <1>1 DEF Bounded
  <2>2. e \in DossierRecord
      BY DossierFields
  <2>3. Same(d, e) /\ e.touched = d.touched /\ e.guard = d.guard
      BY DEF Same, DossierRecord
  <2>. HIDE DEF e
  <2>4. DossierIsFair(d) => DossierIsFair(e)
      BY <2>3, FairStays
  <2>. QED BY <2>1, <2>2, <2>3, <2>4 DEF Same
<1>2. CASE ~(d.tier = "RND" /\ d.rounds < UnsolvableFrom["RND"])
  <2>1. Bounded(d) = Closed(d, "ESCALATED")
      BY <1>2 DEF Bounded
  <2>2. d.rounds \in Nat /\ UnsolvableFrom["RND"] \in Nat
      BY DEF DossierRecord, DoubleDownAssumption, HasRounds
  <2>3. d.tier = "RND" => d.rounds >= UnsolvableFrom["RND"]
      BY <1>2, <2>2
  <2>. QED BY <2>1, <2>3, ClosedIs
<1>. QED BY <1>1, <1>2

\* Whoever has a dossier has it alone.
LEMMA HasIs ==
    ASSUME DdInv, NEW p \in Passer, NEW b \in Halt, Has(p, b)
    PROVE  /\ worker[p].at \in {"pass", "holding"} /\ worker[p].at \in {"pass"} \cup InRounds
           /\ dossier[b].open /\ Free(p, b) /\ Quiet(p, b)
<1>1. worker[p].at \in {"pass", "holding"} /\ dossier[b].open
    BY DEF Has, WorkerAt
<1>2. ~Locked(b) \/ (worker[p].at \in Holding /\ worker[p].block = b)
    BY DEF Has, WorkerAt, Holding
<1>3. Free(p, b)
    BY <1>2, Holds, FreeOf
<1>. QED BY <1>1, <1>3, FreeIsQuiet DEF InRounds

LEMMA RoundsIs ==
    ASSUME DdInv, NEW p \in Passer, worker[p].at \in {"asking", "judged"}
    PROVE  /\ worker[p].at \in {"pass"} \cup InRounds /\ worker[p].block \in Halt
           /\ Analyses(worker[p].at, dossier[worker[p].block])
           /\ dossier[worker[p].block].open /\ dossier[worker[p].block].outcome = "none"
           /\ dossier[worker[p].block].tier \in HasRounds
           /\ Free(p, worker[p].block) /\ Quiet(p, worker[p].block)
<1>1. worker[p].at \in InRounds /\ worker[p].at \in Holding
    BY DEF InRounds, Holding
<1>2. Analyses(worker[p].at, dossier[worker[p].block])
    BY <1>1, Holds DEF VerdictInv
<1>3. worker[p].block \in Halt
    BY Holds DEF LockInv
<1>4. Free(p, worker[p].block) /\ Quiet(p, worker[p].block)
    BY <1>1, Holds, FreeOf, FreeIsQuiet
<1>. QED BY <1>1, <1>2, <1>3, <1>4 DEF Analyses

-----------------------------------------------------------------------------
(* The rows of a pass                                                      *)

LEMMA StartsPass ==
    ASSUME DoubleDownAssumption, DdInv, NEW p \in Passer, StartPass(p)
    PROVE  DdInv'
<1>1. PICK waiting \in SUBSET {b \in standing : "WAIT" \in Tiers[b]} :
         worker' = [worker EXCEPT ![p] = [at |-> "pass", by |-> "pass", seen |-> standing,
                        todo |-> standing \ waiting, block |-> "none", budget |-> PassRounds]]
    BY DEF StartPass
<1>. DEFINE w == [at |-> "pass", by |-> "pass", seen |-> standing,
                  todo |-> standing \ waiting, block |-> "none", budget |-> PassRounds]
<1>2. w \in WorkerRecord
  <2>1. standing \subseteq Halt /\ PassRounds \in Nat
      BY Holds DEF DoubleDownAssumption
  <2>. QED BY <2>1 DEF WorkerRecord
<1>3. worker' = [worker EXCEPT ![p] = w] /\ w.at = "pass"
    BY <1>1
<1>4. UNCHANGED <<World, dossier, RepairVars, capped, bounds>> /\ worker[p].at \notin Amending
    BY DEF StartPass, WorkerAt, Amending
<1>. HIDE DEF w
<1>. QED BY <1>2, <1>3, <1>4, Waits

LEMMA OpensDossier ==
    ASSUME DoubleDownAssumption, DdInv, NEW p \in Passer, NEW b \in Halt, Open(p, b)
    PROVE  DdInv'
<1>. DEFINE d == dossier[b]
<1>1. /\ worker[p].at = "pass" /\ ~d.open /\ UNCHANGED <<World, RepairVars, bounds>>
      /\ UNCHANGED <<World, RepairVars>> /\ upsets' = upsets
    BY DEF Open, WorkerAt, bounds
<1>2. /\ worker[p].at \in {"pass"} \cup InRounds /\ Quiet(p, b) /\ upsets' \in Nat
      /\ d \in DossierRecord /\ DossierIsFair(d)
    BY <1>1, Holds, UnopenedIsQuiet
<1>3. CASE Cardinality(Opened) >= OwnerDossiers
  <2>1. RowDone(p, b) /\ capped' = TRUE /\ (dossier' = dossier \/ FilesBeside(b))
      BY <1>3 DEF Open
  <2>2. capped' \in BOOLEAN
      BY <2>1
  <2>. QED BY <1>1, <1>2, <2>1, <2>2, RowRests
<1>4. CASE ~(Cardinality(Opened) >= OwnerDossiers)
  <2>1. PICK t \in Tiers[b] : Files(b, [d EXCEPT !.open = TRUE, !.tier = t])
      BY <1>4 DEF Open
  <2>. DEFINE e1 == [d EXCEPT !.open = TRUE]
              e == [e1 EXCEPT !.tier = t]
  <2>2. t \in {"none", "WAIT", "TRIVIAL", "HARD", "RND", "HUMAN"}
      BY DEF DoubleDownAssumption
  <2>3. e1 \in DossierRecord
      BY <1>2, DossierFields
  <2>4. e \in DossierRecord
      BY <2>2, <2>3, DossierFields
  <2>5. Files(b, e)
      BY <2>1
  <2>6. /\ e.renewals = d.renewals /\ e.rounds = d.rounds /\ e.last = d.last
        /\ e.outcome = d.outcome /\ e.sound = d.sound /\ e.touched = d.touched
        /\ e.guard = d.guard /\ e.open
      BY <1>2 DEF DossierRecord
  <2>7. worker' = worker /\ capped' = capped
      BY <1>4 DEF Open
  <2>. HIDE DEF e
  <2>8. DossierIsFair(e)
      BY <1>1, <1>2, <2>6 DEF DossierIsFair
  <2>9. OnlyOf(b, e)
      BY <2>4, <2>5, Holds, FilesAre
  <2>10. PICK w : w = worker[p]
      OBVIOUS
  <2>11. w \in WorkerRecord /\ worker' = [worker EXCEPT ![p] = w] /\ w.at = "pass"
      BY <1>1, <2>7, <2>10, Holds
  <2>12. Analyses(w.at, e) /\ w.at \notin InRounds
      BY <2>11 DEF Analyses, InRounds
  <2>13. capped' \in BOOLEAN
      BY <2>7, Holds
  <2>. QED BY <1>1, <1>2, <2>4, <2>6, <2>8, <2>9, <2>11, <2>12, <2>13, PassActs
<1>. QED BY <1>3, <1>4

LEMMA RefusesRow ==
    ASSUME DoubleDownAssumption, DdInv, NEW p \in Passer, NEW b \in Halt, RowRefused(p, b)
    PROVE  DdInv'
<1>1. /\ worker[p].at = "pass" /\ RowDone(p, b)
      /\ UNCHANGED <<World, dossier, RepairVars, capped, bounds>>
    BY DEF RowRefused, WorkerAt
<1>2. PICK w \in WorkerRecord : worker' = [worker EXCEPT ![p] = w] /\ w.at = "pass"
    BY <1>1, Holds, RowDoneIs
<1>3. worker[p].at \notin Amending
    BY <1>1 DEF Amending
<1>. QED BY <1>1, <1>2, <1>3, Waits

\* The row of a dossier that is left as it is.
LEMMA RowLeft ==
    ASSUME DoubleDownAssumption, DdInv, NEW p \in Passer, NEW b \in Halt, Has(p, b),
           RowDone(p, b), UNCHANGED <<World, dossier, RepairVars, capped, bounds>>
    PROVE  DdInv'
<1>1. /\ UNCHANGED <<World, RepairVars>> /\ dossier' = dossier
      /\ upsets' \in Nat /\ capped' \in BOOLEAN
    BY Holds DEF bounds
<1>. QED BY <1>1, HasIs, RowRests

\* The row of a dossier that is closed or held up.
LEMMA RowWritten ==
    ASSUME DoubleDownAssumption, DdInv, NEW p \in Passer, NEW b \in Halt, Has(p, b),
           NEW e \in DossierRecord, Files(b, e), RowDone(p, b), DossierIsFair(e),
           e.renewals = dossier[b].renewals, e.rounds = dossier[b].rounds,
           UNCHANGED <<World, RepairVars, capped, bounds>>
    PROVE  DdInv'
<1>1. UNCHANGED <<World, RepairVars>> /\ upsets' \in Nat /\ capped' \in BOOLEAN
    BY Holds DEF bounds
<1>2. OnlyOf(b, e)
    BY Holds, FilesAre
<1>. QED BY <1>1, <1>2, HasIs, RowEnds

\* The row of a dossier that becomes, or is, a proposal.
LEMMA RowMeasured ==
    ASSUME DoubleDownAssumption, DdInv, NEW p \in Passer, NEW b \in Halt, Has(p, b),
           NEW e \in DossierRecord, OnlyOf(b, e), Proposed(p, b), DossierIsFair(e),
           e.renewals = dossier[b].renewals, e.rounds = dossier[b].rounds,
           UNCHANGED <<World, RepairVars, capped, bounds>>
    PROVE  DdInv'
<1>1. /\ UNCHANGED <<World, spec, cut>> /\ repair' = repair
      /\ upsets' \in Nat /\ capped' \in BOOLEAN
    BY Holds DEF bounds, RepairVars
<1>2. repair' \in [Halt -> RepairRecord] /\ \A c \in Halt : Alike(repair[c], repair'[c])
    BY <1>1, Holds, AlikeHolds
<1>. QED BY <1>1, <1>2, HasIs, RowProposes

LEMMA RowsClosed ==
    ASSUME DoubleDownAssumption, DdInv, NEW p \in Passer, NEW b \in Halt, RowClosed(p, b)
    PROVE  DdInv'
<1>1. Has(p, b) /\ UNCHANGED <<World, dossier, RepairVars, capped, bounds>>
    BY DEF RowClosed
<1>2. CASE dossier[b].outcome = "PROPOSAL"
  <2>1. Proposed(p, b) /\ UNCHANGED <<World, RepairVars, capped, bounds>> /\ dossier' = dossier
      BY <1>2 DEF RowClosed
  <2>2. PICK e : e = dossier[b]
      OBVIOUS
  <2>3. e \in DossierRecord /\ OnlyOf(b, e) /\ DossierIsFair(e)
        /\ e.renewals = dossier[b].renewals /\ e.rounds = dossier[b].rounds
      BY <2>1, <2>2, Holds, SameIsOnly
  <2>. QED BY <1>1, <2>1, <2>3, RowMeasured
<1>3. CASE dossier[b].outcome # "PROPOSAL"
  <2>1. RowDone(p, b)
      BY <1>3 DEF RowClosed
  <2>. QED BY <1>1, <2>1, RowLeft
<1>. QED BY <1>2, <1>3

LEMMA RowsClose ==
    ASSUME DoubleDownAssumption, DdInv, NEW p \in Passer, NEW b \in Halt, RowCloses(p, b)
    PROVE  DdInv'
<1>1. Has(p, b) /\ UNCHANGED <<World, RepairVars, capped, bounds>>
    BY DEF RowCloses
<1>2. PICK d : d = dossier[b]
    OBVIOUS
<1>3. d \in DossierRecord /\ DossierIsFair(d) /\ d.open
    BY <1>1, <1>2, Holds, HasIs
<1>4. ASSUME NEW o \in {"ESCALATED", "HUMAN_ONLY", "PROPOSAL"}, Files(b, Closed(d, o)),
             o = "ESCALATED" => d.last = "DISCARDED" \/ d.tier # "RND",
             RowDone(p, b) \/ Proposed(p, b)
      PROVE  DdInv'
  <2>1. PICK e : e = Closed(d, o)
      OBVIOUS
  <2>2. /\ e \in DossierRecord /\ DossierIsFair(e) /\ Files(b, e)
        /\ e.renewals = dossier[b].renewals /\ e.rounds = dossier[b].rounds
    <3>1. e \in DossierRecord /\ e.renewals = d.renewals /\ e.rounds = d.rounds
        BY <1>3, <2>1, ClosedIs
    <3>2. o = "ESCALATED" /\ d.tier = "RND" =>
             d.last = "DISCARDED" \/ d.rounds >= UnsolvableFrom["RND"]
        BY <1>4
    <3>3. DossierIsFair(e)
        BY <1>3, <2>1, <3>2, ClosedIs
    <3>. QED BY <1>2, <1>4, <2>1, <3>1, <3>3
  <2>3. CASE RowDone(p, b)
      BY <1>1, <2>2, <2>3, RowWritten
  <2>4. CASE Proposed(p, b)
    <3>1. OnlyOf(b, e)
        BY <2>2, Holds, FilesAre
    <3>. QED BY <1>1, <2>2, <2>4, <3>1, RowMeasured
  <2>. QED BY <1>4, <2>3, <2>4
<1>5. CASE d.last = "DISCARDED"
  <2>1. Files(b, Closed(d, "ESCALATED")) /\ RowDone(p, b)
      BY <1>2, <1>5 DEF RowCloses
  <2>. QED BY <1>4, <1>5, <2>1
<1>6. CASE d.last # "DISCARDED"
  <2>1. \/ d.tier = "HUMAN" /\ Files(b, Closed(d, "HUMAN_ONLY")) /\ RowDone(p, b)
        \/ d.tier = "WAIT" /\ Files(b, Closed(d, "ESCALATED")) /\ RowDone(p, b)
        \/ d.tier = "TRIVIAL" /\ Files(b, Closed(d, "PROPOSAL")) /\ Proposed(p, b)
      BY <1>2, <1>6 DEF RowCloses
  <2>. QED BY <1>4, <2>1
<1>. QED BY <1>5, <1>6

LEMMA RowsPark ==
    ASSUME DoubleDownAssumption, DdInv, NEW p \in Passer, NEW b \in Halt,
           RowParked(p, b) \/ RowWaits(p, b)
    PROVE  DdInv'
<1>1. /\ Has(p, b) /\ RowDone(p, b)
      /\ UNCHANGED <<World, dossier, RepairVars, capped, bounds>>
    BY DEF RowParked, RowWaits, MayRun, Analysed
<1>. QED BY <1>1, RowLeft

LEMMA RowsSpend ==
    ASSUME DoubleDownAssumption, DdInv, NEW p \in Passer, NEW b \in Halt, RowSpent(p, b)
    PROVE  DdInv'
<1>1. PICK d : d = dossier[b]
    OBVIOUS
<1>2. /\ Has(p, b) /\ d.tier \in HasRounds /\ RowDone(p, b)
      /\ UNCHANGED <<World, RepairVars, capped, bounds>>
      /\ IF d.rounds >= RoundCap[d.tier] THEN Files(b, Closed(d, "ESCALATED"))
         ELSE Files(b, Bounded(d))
    BY <1>1 DEF RowSpent, Analysed
<1>3. d \in DossierRecord /\ DossierIsFair(d) /\ d.open
    BY <1>1, <1>2, Holds, HasIs
<1>4. PICK e : /\ e \in DossierRecord /\ DossierIsFair(e) /\ Files(b, e)
              /\ e.renewals = d.renewals /\ e.rounds = d.rounds
  <2>1. CASE d.rounds >= RoundCap[d.tier]
    <3>1. /\ d.rounds \in Nat /\ RoundCap[d.tier] \in Nat /\ UnsolvableFrom[d.tier] \in Nat
          /\ UnsolvableFrom[d.tier] <= RoundCap[d.tier]
        BY <1>2, <1>3 DEF DossierRecord, DoubleDownAssumption
    <3>2. d.rounds >= UnsolvableFrom[d.tier]
        BY <2>1, <3>1
    <3>3. d.tier = "RND" => d.rounds >= UnsolvableFrom["RND"]
        BY <3>2
    <3>4. /\ Closed(d, "ESCALATED") \in DossierRecord /\ DossierIsFair(Closed(d, "ESCALATED"))
          /\ Closed(d, "ESCALATED").renewals = d.renewals
          /\ Closed(d, "ESCALATED").rounds = d.rounds
        BY <1>3, <3>3, ClosedIs
    <3>5. Files(b, Closed(d, "ESCALATED"))
        BY <1>2, <2>1
    <3>. QED BY ONLY <3>4, <3>5, Zenon
  <2>2. CASE ~(d.rounds >= RoundCap[d.tier])
    <3>1. Bounded(d) \in DossierRecord /\ DossierIsFair(Bounded(d))
          /\ Bounded(d).renewals = d.renewals /\ Bounded(d).rounds = d.rounds
        BY <1>3, BoundedIs
    <3>2. Files(b, Bounded(d))
        BY <1>2, <2>2
    <3>. QED BY ONLY <3>1, <3>2, Zenon
  <2>. QED BY <2>1, <2>2
<1>. QED BY <1>1, <1>2, <1>4, RowWritten

-----------------------------------------------------------------------------
(* The rounds                                                              *)

LEMMA AnalysedIs ==
    ASSUME DdInv, NEW p \in Passer, NEW b \in Halt, Analysed(p, b)
    PROVE  /\ Has(p, b) /\ dossier[b].open /\ dossier[b].outcome = "none"
           /\ dossier[b].tier \in HasRounds /\ dossier[b].last # "DISCARDED"
           /\ \A at : Analyses(at, dossier[b])
BY HasIs DEF Analysed, Analyses

LEMMA Resumes ==
    ASSUME DoubleDownAssumption, DdInv, NEW p \in Passer, NEW b \in Halt, ResumeRounds(p, b)
    PROVE  DdInv'
<1>1. PICK d : d = dossier[b]
    OBVIOUS
<1>2. /\ Analysed(p, b) /\ Files(b, [d EXCEPT !.park = "none", !.failures = Unfailed])
      /\ Takes(p, b) /\ UNCHANGED <<World, RepairVars, capped, bounds>>
    BY <1>1 DEF ResumeRounds, Takes
<1>3. d \in DossierRecord /\ DossierIsFair(d) /\ Analyses("holding", d) /\ Has(p, b)
    BY <1>1, <1>2, Holds, AnalysedIs
<1>. DEFINE e1 == [d EXCEPT !.park = "none"]
            e == [e1 EXCEPT !.failures = Unfailed]
<1>4. e1 \in DossierRecord /\ Unfailed \in [Perspective -> Nat]
    BY <1>3, DossierFields DEF Unfailed
<1>5. e \in DossierRecord
    BY <1>4, DossierFields
<1>6. e = [d EXCEPT !.park = "none", !.failures = Unfailed] /\ Same(d, e)
    BY <1>3 DEF DossierRecord, Same
<1>. HIDE DEF e
<1>7. Files(b, e) /\ DossierIsFair(e) /\ Analyses("holding", e)
    BY <1>2, <1>3, <1>6, FairStays, AnalysesStays
<1>8. OnlyOf(b, e)
    BY <1>5, <1>7, Holds, FilesAre
<1>9. PICK w \in WorkerRecord : /\ worker' = [worker EXCEPT ![p] = w]
                                /\ w.at = "holding" /\ w.block = b
    BY <1>2, Holds, HoldingIs
<1>10. UNCHANGED <<World, RepairVars>> /\ upsets' \in Nat /\ capped' \in BOOLEAN
    BY <1>2, Holds DEF bounds
<1>11. w.at \in {"pass", "proposed"} \cup InRounds /\ w.at # "asking" /\ Analyses(w.at, e)
    BY <1>7, <1>9 DEF InRounds
<1>12. e.renewals = dossier[b].renewals /\ e.rounds = dossier[b].rounds
    BY <1>1, <1>6 DEF Same
<1>. QED BY <1>3, <1>5, <1>7, <1>8, <1>9, <1>10, <1>11, <1>12, HasIs, PassActs

LEMMA GuardOfIs ==
    ASSUME NEW d \in DossierRecord
    PROVE  /\ [d EXCEPT !.guard = GuardOf(d)] \in DossierRecord
           /\ Same(d, [d EXCEPT !.guard = GuardOf(d)])
<1>1. GuardOf(d) \in {"none", "same", "moved"} /\ (d.guard = "moved" => GuardOf(d) = "moved")
    BY DEF GuardOf, DossierRecord
<1>2. [d EXCEPT !.guard = GuardOf(d)] \in DossierRecord
    BY <1>1, DossierFields
<1>3. PICK g : g = GuardOf(d)
    OBVIOUS
<1>4. Same(d, [d EXCEPT !.guard = g])
    BY <1>1, <1>3 DEF Same, DossierRecord
<1>. QED BY <1>2, <1>3, <1>4

LEMMA StartsRound ==
    ASSUME DoubleDownAssumption, DdInv, NEW p \in Passer, NEW b \in Halt, StartRound(p, b)
    PROVE  DdInv'
<1>1. PICK d : d = dossier[b]
    OBVIOUS
<1>2. /\ Analysed(p, b) /\ ~Spent /\ worker[p].budget > 0
      /\ Files(b, IF Missing(b) = {} THEN d ELSE [d EXCEPT !.guard = GuardOf(d)])
      /\ worker' = [worker EXCEPT ![p].at = "asking", ![p].block = b,
                     ![p].budget = IF Missing(b) = {} THEN @ ELSE @ - 1]
      /\ UNCHANGED <<World, RepairVars, capped, bounds>>
    BY <1>1 DEF StartRound, MayRun
<1>3. d \in DossierRecord /\ DossierIsFair(d) /\ Analyses("asking", d) /\ Has(p, b)
    BY <1>1, <1>2, Holds, AnalysedIs
<1>4. PICK e \in DossierRecord : Files(b, e) /\ Same(d, e)
  <2>1. CASE Missing(b) = {}
      BY <1>2, <1>3, <2>1, SameHolds
  <2>2. CASE Missing(b) # {}
      BY <1>2, <1>3, <2>2, GuardOfIs
  <2>. QED BY <2>1, <2>2
<1>5. DossierIsFair(e) /\ Analyses("asking", e) /\ OnlyOf(b, e)
    BY <1>3, <1>4, Holds, FairStays, AnalysesStays, FilesAre
<1>6. PICK left : left = IF Missing(b) = {} THEN worker[p].budget ELSE worker[p].budget - 1
    OBVIOUS
<1>. DEFINE w1 == [worker[p] EXCEPT !.at = "asking"]
            w2 == [w1 EXCEPT !.block = b]
            w == [w2 EXCEPT !.budget = left]
<1>7. w \in WorkerRecord
  <2>1. worker[p] \in WorkerRecord
      BY Holds
  <2>2. left \in Nat
      BY <1>2, <1>6, <2>1 DEF WorkerRecord
  <2>3. w1 \in WorkerRecord
      BY <2>1, WorkerFields DEF Holding
  <2>4. w2 \in WorkerRecord
      BY <2>3, WorkerFields
  <2>. QED BY <2>2, <2>4, WorkerFields
<1>8. worker' = [worker EXCEPT ![p] = w]
    BY <1>2, <1>6, Holds DEF WorkerRecord
<1>9. w.at = "asking" /\ w.block = b
    BY Holds DEF WorkerRecord
<1>. HIDE DEF w
<1>10. UNCHANGED <<World, RepairVars>> /\ upsets' \in Nat /\ capped' \in BOOLEAN
    BY <1>2, Holds DEF bounds
<1>11. w.at \in {"pass", "proposed"} \cup InRounds /\ Analyses(w.at, e)
    BY <1>5, <1>9 DEF InRounds
<1>12. e.renewals = dossier[b].renewals /\ e.rounds = dossier[b].rounds
    BY <1>1, <1>4 DEF Same
<1>. QED BY <1>2, <1>3, <1>5, <1>7, <1>8, <1>9, <1>10, <1>11, <1>12, HasIs, PassActs

\* The analyst who is asked next.
LEMMA LeastIs ==
    ASSUME NEW b, Missing(b) # {}
    PROVE  Least(Missing(b)) \in Perspective
<1>1. Missing(b) \subseteq Perspective
    BY DEF Missing
<1>2. \E r \in Missing(b) : \A q \in Missing(b) : r <= q
    BY <1>1 DEF Perspective
<1>. QED BY <1>1, <1>2 DEF Least

LEMMA ReportsOne ==
    ASSUME DoubleDownAssumption, DdInv, NEW p \in Passer, NEW a \in Answer, Reports(p, a)
    PROVE  DdInv'
<1>1. PICK b : b = worker[p].block
    OBVIOUS
<1>2. PICK d : d = dossier[b]
    OBVIOUS
<1>3. PICK r : r = Least(Missing(b))
    OBVIOUS
<1>4. /\ worker[p].at = "asking" /\ Missing(b) # {}
      /\ Files(b, [d EXCEPT !.reports[r] = a])
      /\ UNCHANGED <<World, RepairVars, capped, worker, bounds>>
    BY <1>1, <1>2, <1>3 DEF Reports, WorkerAt
<1>5. /\ b \in Halt /\ d \in DossierRecord /\ DossierIsFair(d) /\ Analyses("asking", d)
      /\ worker[p].at \in {"pass"} \cup InRounds /\ Free(p, b) /\ Quiet(p, b)
  <2>1. worker[p].at \in {"asking", "judged"}
      BY <1>4
  <2>. QED BY <1>1, <1>2, <1>4, <2>1, Holds, RoundsIs
<1>. DEFINE e == [d EXCEPT !.reports[r] = a]
<1>6. e \in DossierRecord /\ Same(d, e)
  <2>1. [d.reports EXCEPT ![r] = a] \in [Perspective -> {"none"} \cup Answer]
      BY <1>3, <1>4, <1>5, LeastIs DEF DossierRecord
  <2>2. [d EXCEPT !.reports = [d.reports EXCEPT ![r] = a]] \in DossierRecord
      BY <1>5, <2>1, DossierFields
  <2>3. e = [d EXCEPT !.reports = [d.reports EXCEPT ![r] = a]]
      OBVIOUS
  <2>4. Same(d, e)
      BY <1>5 DEF Same, DossierRecord
  <2>. QED BY <2>2, <2>3, <2>4
<1>7. Files(b, e)
    BY <1>4
<1>. HIDE DEF e
<1>8. DossierIsFair(e) /\ Analyses("asking", e) /\ OnlyOf(b, e)
    BY <1>5, <1>6, <1>7, Holds, FairStays, AnalysesStays, FilesAre
<1>9. PICK w : w = worker[p]
    OBVIOUS
<1>10. w \in WorkerRecord /\ worker' = [worker EXCEPT ![p] = w] /\ w.at = "asking"
       /\ w.block = b
    BY <1>1, <1>4, <1>9, Holds
<1>11. UNCHANGED <<World, RepairVars>> /\ upsets' \in Nat /\ capped' \in BOOLEAN
    BY <1>4, Holds DEF bounds
<1>12. w.at \in {"pass", "proposed"} \cup InRounds /\ Analyses(w.at, e)
    BY <1>8, <1>10 DEF InRounds
<1>13. e.renewals = dossier[b].renewals /\ e.rounds = dossier[b].rounds
    BY <1>2, <1>6 DEF Same
<1>. QED BY <1>4, <1>5, <1>6, <1>8, <1>10, <1>11, <1>12, <1>13, PassActs

LEMMA FailsDispatch ==
    ASSUME DoubleDownAssumption, DdInv, NEW p \in Passer, DispatchFails(p)
    PROVE  DdInv'
<1>1. PICK b : b = worker[p].block
    OBVIOUS
<1>2. PICK d : d = dossier[b]
    OBVIOUS
<1>3. PICK r : r = Least(Missing(b))
    OBVIOUS
<1>4. PICK failed : failed = [d EXCEPT !.failures[r] = @ + 1]
    OBVIOUS
<1>5. /\ worker[p].at = "asking" /\ Missing(b) # {} /\ upsets' = upsets + 1 /\ RowDone(p, b)
      /\ Files(b, IF failed.failures[r] < DispatchFailures THEN failed
                  ELSE IF d.parks >= MaxParks THEN Bounded(failed)
                  ELSE [failed EXCEPT !.park = "provider", !.parks = @ + 1])
      /\ UNCHANGED <<World, RepairVars, capped, raises>>
    BY <1>1, <1>2, <1>3, <1>4 DEF DispatchFails, WorkerAt, Upset
<1>6. /\ b \in Halt /\ d \in DossierRecord /\ DossierIsFair(d) /\ d.open
      /\ worker[p].at \in {"pass"} \cup InRounds /\ Quiet(p, b)
  <2>1. worker[p].at \in {"asking", "judged"}
      BY <1>5
  <2>. QED BY <1>1, <1>2, <1>5, <2>1, Holds, RoundsIs
<1>7. failed \in DossierRecord /\ Same(d, failed)
  <2>1. [d.failures EXCEPT ![r] = @ + 1] \in [Perspective -> Nat]
      BY <1>3, <1>5, <1>6, LeastIs DEF DossierRecord
  <2>2. [d EXCEPT !.failures = [d.failures EXCEPT ![r] = @ + 1]] \in DossierRecord
      BY <1>6, <2>1, DossierFields
  <2>3. failed = [d EXCEPT !.failures = [d.failures EXCEPT ![r] = @ + 1]]
      BY <1>4
  <2>4. Same(d, failed)
      BY <1>4, <1>6 DEF Same, DossierRecord
  <2>. QED BY <2>2, <2>3, <2>4
<1>8. DossierIsFair(failed) /\ failed.open /\ failed.renewals = d.renewals
      /\ failed.rounds = d.rounds
  <2>1. DossierIsFair(failed)
      BY <1>6, <1>7, FairStays
  <2>. QED BY <1>6, <1>7, <2>1 DEF Same
<1>9. PICK e : /\ e \in DossierRecord /\ DossierIsFair(e) /\ Files(b, e)
              /\ e.renewals = d.renewals /\ e.rounds = d.rounds
  <2>1. CASE failed.failures[r] < DispatchFailures
    <3>1. Files(b, failed)
        BY <1>5, <2>1
    <3>. QED BY ONLY <1>7, <1>8, <3>1, Zenon
  <2>2. CASE ~(failed.failures[r] < DispatchFailures) /\ d.parks >= MaxParks
    <3>1. Files(b, Bounded(failed))
        BY <1>5, <2>2
    <3>2. Bounded(failed) \in DossierRecord /\ DossierIsFair(Bounded(failed))
          /\ Bounded(failed).renewals = d.renewals /\ Bounded(failed).rounds = d.rounds
        BY <1>7, <1>8, BoundedIs
    <3>. QED BY ONLY <3>1, <3>2, Zenon
  <2>3. CASE ~(failed.failures[r] < DispatchFailures) /\ ~(d.parks >= MaxParks)
    <3>. DEFINE e1 == [failed EXCEPT !.park = "provider"]
                e2 == [e1 EXCEPT !.parks = failed.parks + 1]
    <3>1. e2 = [failed EXCEPT !.park = "provider", !.parks = @ + 1]
        BY <1>7 DEF DossierRecord
    <3>2. Files(b, e2)
        BY <1>5, <2>3, <3>1
    <3>3. e1 \in DossierRecord
        BY <1>7, DossierFields
    <3>4. failed.parks + 1 \in Nat
        BY <1>7 DEF DossierRecord
    <3>5. e2 \in DossierRecord
        BY <3>3, <3>4, DossierFields
    <3>6. Same(failed, e2)
        BY <1>7 DEF DossierRecord, Same
    <3>. HIDE DEF e2
    <3>7. DossierIsFair(e2) /\ e2.renewals = d.renewals /\ e2.rounds = d.rounds
      <4>1. DossierIsFair(e2)
          BY <1>8, <3>6, FairStays
      <4>. QED BY <1>8, <3>6, <4>1 DEF Same
    <3>. QED BY ONLY <3>2, <3>5, <3>7, Zenon
  <2>. QED BY <2>1, <2>2, <2>3
<1>10. UNCHANGED <<World, RepairVars>> /\ upsets' \in Nat /\ capped' \in BOOLEAN
    BY <1>5, Holds
<1>11. OnlyOf(b, e)
    BY <1>6, <1>9, Holds, FilesAre
<1>12. e.renewals = dossier[b].renewals /\ e.rounds = dossier[b].rounds
    BY <1>2, <1>9
<1>. QED BY <1>5, <1>6, <1>9, <1>10, <1>11, <1>12, RowEnds

\* A round that is judged.
JudgedAs(d, verdict) ==
    [d EXCEPT !.rounds = @ + 1, !.last = verdict, !.guard = "none",
              !.reports = Unasked, !.failures = Unfailed, !.touched = FALSE,
              !.sound = @ /\ (d.touched => verdict = "DISCARDED")]
Verdict(d) ==
    IF d.guard = "moved" THEN "DISCARDED" ELSE JudgeReports(d.rounds + 1, d.tier, d.reports)

LEMMA VerdictIs ==
    ASSUME NEW d
    PROVE  /\ Verdict(d) \in {"DISCARDED", "FRUITFUL", "UNSOLVABLE", "CONTINUE"}
           /\ d.guard = "moved" => Verdict(d) = "DISCARDED"
           /\ Verdict(d) = "UNSOLVABLE" => d.rounds + 1 >= UnsolvableFrom[d.tier]
BY DEF Verdict, JudgeReports

LEMMA JudgedIs ==
    ASSUME NEW d \in DossierRecord,
           NEW v \in {"DISCARDED", "FRUITFUL", "UNSOLVABLE", "CONTINUE"}
    PROVE  /\ JudgedAs(d, v) \in DossierRecord
           /\ JudgedAs(d, v).rounds = d.rounds + 1 /\ JudgedAs(d, v).last = v
           /\ JudgedAs(d, v).touched = FALSE /\ JudgedAs(d, v).guard = "none"
           /\ d.sound /\ (d.touched => v = "DISCARDED") => JudgedAs(d, v).sound
           /\ JudgedAs(d, v).open = d.open /\ JudgedAs(d, v).tier = d.tier
           /\ JudgedAs(d, v).outcome = d.outcome /\ JudgedAs(d, v).renewals = d.renewals
<1>. DEFINE e1 == [d EXCEPT !.rounds = d.rounds + 1]
            e2 == [e1 EXCEPT !.last = v]
            e3 == [e2 EXCEPT !.guard = "none"]
            e4 == [e3 EXCEPT !.reports = Unasked]
            e5 == [e4 EXCEPT !.failures = Unfailed]
            e6 == [e5 EXCEPT !.touched = FALSE]
            e7 == [e6 EXCEPT !.sound = d.sound /\ (d.touched => v = "DISCARDED")]
<1>1. d.rounds + 1 \in Nat /\ d.sound \in BOOLEAN /\ d.touched \in BOOLEAN
    BY DEF DossierRecord
<1>2. e1 \in DossierRecord
    BY <1>1, DossierFields
<1>3. e2 \in DossierRecord
    BY <1>2, DossierFields
<1>4. e3 \in DossierRecord
    BY <1>3, DossierFields
<1>5. e4 \in DossierRecord
  <2>1. Unasked \in [Perspective -> {"none"} \cup Answer]
      BY DEF Unasked
  <2>. QED BY <1>4, <2>1, DossierFields
<1>6. e5 \in DossierRecord
  <2>1. Unfailed \in [Perspective -> Nat]
      BY DEF Unfailed
  <2>. QED BY <1>5, <2>1, DossierFields
<1>7. e6 \in DossierRecord
    BY <1>6, DossierFields
<1>8. e7 \in DossierRecord
  <2>1. (d.sound /\ (d.touched => v = "DISCARDED")) \in BOOLEAN
      BY <1>1
  <2>. QED BY <1>7, <2>1, DossierFields
<1>9. JudgedAs(d, v) = e7
    BY DEF JudgedAs, DossierRecord
<1>10. /\ e7.rounds = d.rounds + 1 /\ e7.last = v /\ e7.touched = FALSE /\ e7.guard = "none"
       /\ e7.open = d.open /\ e7.tier = d.tier
       /\ e7.outcome = d.outcome /\ e7.renewals = d.renewals
    BY DEF DossierRecord
<1>11. d.sound /\ (d.touched => v = "DISCARDED") => e7.sound
    BY DEF DossierRecord
<1>. HIDE DEF e7
<1>. QED BY <1>8, <1>9, <1>10, <1>11

LEMMA Judges ==
    ASSUME DoubleDownAssumption, DdInv, NEW p \in Passer, JudgeRound(p)
    PROVE  DdInv'
<1>1. PICK b : b = worker[p].block
    OBVIOUS
<1>2. PICK d : d = dossier[b]
    OBVIOUS
<1>3. PICK v : v = Verdict(d)
    OBVIOUS
<1>4. PICK e : e = JudgedAs(d, v)
    OBVIOUS
<1>5. /\ worker[p].at = "asking" /\ Files(b, e) /\ Go(p, "judged")
      /\ UNCHANGED <<World, RepairVars, capped, bounds>>
    BY <1>1, <1>2, <1>3, <1>4 DEF JudgeRound, WorkerAt, JudgedAs, Verdict
<1>6. /\ b \in Halt /\ d \in DossierRecord /\ DossierIsFair(d) /\ Analyses("asking", d)
      /\ d.open /\ d.outcome = "none" /\ d.tier \in HasRounds
      /\ worker[p].at \in {"pass"} \cup InRounds /\ Free(p, b) /\ Quiet(p, b)
  <2>1. worker[p].at \in {"asking", "judged"}
      BY <1>5
  <2>. QED BY <1>1, <1>2, <1>5, <2>1, Holds, RoundsIs
<1>7. v \in {"DISCARDED", "FRUITFUL", "UNSOLVABLE", "CONTINUE"}
      /\ (d.guard = "moved" => v = "DISCARDED")
      /\ (v = "UNSOLVABLE" => d.rounds + 1 >= UnsolvableFrom[d.tier])
    BY <1>3, VerdictIs
<1>8. d.sound /\ (d.touched => v = "DISCARDED")
    BY <1>6, <1>7 DEF DossierIsFair
<1>9. /\ e \in DossierRecord /\ e.rounds = d.rounds + 1 /\ e.last = v /\ e.touched = FALSE
      /\ e.sound /\ e.open /\ e.tier = d.tier /\ e.outcome = "none"
      /\ e.renewals = d.renewals
  <2>1. d \in DossierRecord /\ v \in {"DISCARDED", "FRUITFUL", "UNSOLVABLE", "CONTINUE"}
      BY <1>6, <1>7
  <2>2. /\ JudgedAs(d, v) \in DossierRecord
        /\ JudgedAs(d, v).rounds = d.rounds + 1 /\ JudgedAs(d, v).last = v
        /\ JudgedAs(d, v).touched = FALSE
        /\ d.sound /\ (d.touched => v = "DISCARDED") => JudgedAs(d, v).sound
        /\ JudgedAs(d, v).open = d.open /\ JudgedAs(d, v).tier = d.tier
        /\ JudgedAs(d, v).outcome = d.outcome /\ JudgedAs(d, v).renewals = d.renewals
      BY ONLY <2>1, JudgedIs, Zenon
  <2>3. /\ e \in DossierRecord /\ e.rounds = d.rounds + 1 /\ e.last = v /\ e.touched = FALSE
        /\ e.sound /\ e.open = d.open /\ e.tier = d.tier /\ e.outcome = d.outcome
        /\ e.renewals = d.renewals
      BY ONLY <1>4, <1>8, <2>2, Zenon
  <2>. QED BY ONLY <1>6, <2>3, Zenon
<1>10. DossierIsFair(e)
    BY <1>7, <1>9 DEF DossierIsFair
<1>11. PICK w \in WorkerRecord : /\ worker' = [worker EXCEPT ![p] = w]
                                 /\ w.at = "judged" /\ w.block = b
    BY <1>1, <1>5, Holds, GoIs DEF Holding
<1>12. /\ w.at \in {"pass", "proposed"} \cup InRounds /\ w.at # "asking"
       /\ w.at # "pass" /\ Analyses(w.at, e)
    BY <1>6, <1>9, <1>11 DEF InRounds, Analyses
<1>13. UNCHANGED <<World, RepairVars>> /\ upsets' \in Nat /\ capped' \in BOOLEAN
    BY <1>5, Holds DEF bounds
<1>14. OnlyOf(b, e)
    BY <1>5, <1>6, <1>9, Holds, FilesAre
<1>15. e.renewals = dossier[b].renewals /\ e.rounds = dossier[b].rounds + 1
    BY <1>2, <1>9
<1>. QED BY <1>5, <1>6, <1>9, <1>10, <1>11, <1>12, <1>13, <1>14, <1>15, PassActs

LEMMA Concludes ==
    ASSUME DoubleDownAssumption, DdInv, NEW p \in Passer, Conclude(p)
    PROVE  DdInv'
<1>1. PICK b : b = worker[p].block
    OBVIOUS
<1>2. PICK d : d = dossier[b]
    OBVIOUS
<1>3. worker[p].at = "judged" /\ UNCHANGED <<World, spec, capped, bounds, cut>>
    BY DEF Conclude, WorkerAt
<1>4. /\ b \in Halt /\ d \in DossierRecord /\ DossierIsFair(d)
      /\ d.open /\ d.outcome = "none" /\ d.tier \in HasRounds
      /\ worker[p].at \in {"pass"} \cup InRounds /\ Quiet(p, b)
  <2>1. worker[p].at \in {"asking", "judged"}
      BY <1>3
  <2>. QED BY <1>1, <1>2, <2>1, Holds, RoundsIs
<1>5. UNCHANGED <<World, spec, cut>> /\ upsets' \in Nat /\ capped' \in BOOLEAN
    BY <1>3, Holds DEF bounds
<1>6. \/ /\ Files(b, Closed(d, "PROPOSAL")) /\ Proposed(p, b)
         /\ \E what \in {"note", "spec", "fix"} : repair' = [repair EXCEPT ![b].carries = what]
      \/ /\ d.last \in {"DISCARDED", "UNSOLVABLE"} \/ d.rounds >= RoundCap[d.tier]
         /\ Files(b, Closed(d, "ESCALATED")) /\ RowDone(p, b) /\ UNCHANGED repair
      \/ RowDone(p, b) /\ UNCHANGED <<dossier, repair>>
    BY <1>1, <1>2 DEF Conclude
<1>7. ASSUME Files(b, Closed(d, "PROPOSAL")), Proposed(p, b),
             \E what \in {"note", "spec", "fix"} : repair' = [repair EXCEPT ![b].carries = what]
      PROVE  DdInv'
  <2>1. PICK e : e = Closed(d, "PROPOSAL")
      OBVIOUS
  <2>2. /\ e \in DossierRecord /\ DossierIsFair(e) /\ Files(b, e)
        /\ e.renewals = d.renewals /\ e.rounds = d.rounds
      BY <1>4, <1>7, <2>1, ClosedIs
  <2>3. PICK what \in {"note", "spec", "fix"} : repair' = [repair EXCEPT ![b].carries = what]
      BY <1>7
  <2>4. repair' \in [Halt -> RepairRecord] /\ \A c \in Halt : Alike(repair[c], repair'[c])
    <3>1. repair \in [Halt -> RepairRecord] /\ repair[b] \in RepairRecord
        BY <1>4, Holds
    <3>2. [repair[b] EXCEPT !.carries = what] \in RepairRecord
        BY <3>1, RepairFields
    <3>3. repair' = [repair EXCEPT ![b] = [repair[b] EXCEPT !.carries = what]]
        BY <2>3
    <3>4. Alike(repair[b], [repair[b] EXCEPT !.carries = what])
        BY <3>1 DEF Alike, RepairRecord
    <3>. QED BY <3>1, <3>2, <3>3, <3>4, AlikeHolds
  <2>5. OnlyOf(b, e) /\ e.renewals = dossier[b].renewals /\ e.rounds = dossier[b].rounds
      BY <1>2, <1>4, <2>2, Holds, FilesAre
  <2>. QED BY <1>4, <1>5, <1>7, <2>2, <2>4, <2>5, RowProposes
<1>8. ASSUME RowDone(p, b), UNCHANGED repair,
             NEW e \in DossierRecord, OnlyOf(b, e), DossierIsFair(e),
             e.renewals = d.renewals, e.rounds = d.rounds
      PROVE  DdInv'
  <2>1. UNCHANGED <<World, RepairVars>>
      BY <1>5, <1>8 DEF RepairVars
  <2>2. e.renewals = dossier[b].renewals /\ e.rounds = dossier[b].rounds
      BY <1>2, <1>8
  <2>. QED BY <1>4, <1>5, <1>8, <2>1, <2>2, RowEnds
<1>9. ASSUME d.last \in {"DISCARDED", "UNSOLVABLE"} \/ d.rounds >= RoundCap[d.tier],
             Files(b, Closed(d, "ESCALATED")), RowDone(p, b), UNCHANGED repair
      PROVE  DdInv'
  <2>1. d.tier = "RND" => d.last = "DISCARDED" \/ d.rounds >= UnsolvableFrom["RND"]
    <3>1. /\ d.rounds \in Nat /\ RoundCap[d.tier] \in Nat /\ UnsolvableFrom[d.tier] \in Nat
          /\ UnsolvableFrom[d.tier] <= RoundCap[d.tier]
        BY <1>4 DEF DossierRecord, DoubleDownAssumption
    <3>2. d.last = "UNSOLVABLE" => d.rounds >= UnsolvableFrom[d.tier]
        BY <1>4 DEF DossierIsFair
    <3>. QED BY <1>9, <3>1, <3>2
  <2>2. PICK e : e = Closed(d, "ESCALATED")
      OBVIOUS
  <2>3. /\ e \in DossierRecord /\ DossierIsFair(e) /\ Files(b, e)
        /\ e.renewals = d.renewals /\ e.rounds = d.rounds
      BY <1>4, <1>9, <2>1, <2>2, ClosedIs
  <2>4. OnlyOf(b, e)
      BY <1>4, <2>3, Holds, FilesAre
  <2>. QED BY <1>8, <1>9, <2>3, <2>4
<1>10. ASSUME RowDone(p, b), UNCHANGED <<dossier, repair>>
       PROVE  DdInv'
  <2>1. OnlyOf(b, d)
      BY <1>2, <1>4, <1>10, Holds, SameIsOnly
  <2>. QED BY <1>4, <1>8, <1>10, <2>1
<1>. QED BY <1>6, <1>7, <1>9, <1>10

LEMMA Sweeps ==
    ASSUME DoubleDownAssumption, DdInv, NEW p \in Passer, Sweep(p)
    PROVE  DdInv'
<1>. DEFINE gone == {b \in Opened \ worker[p].seen : dossier[b].outcome = "none" /\ ~Locked(b)}
<1>1. /\ worker[p].at = "pass" /\ worker' = [worker EXCEPT ![p] = Idle]
      /\ dossier' = [b \in Halt |-> IF b \in gone THEN Closed(dossier[b], "OBSOLETE")
                                    ELSE IF gone # {} THEN Moved(dossier[b]) ELSE dossier[b]]
      /\ UNCHANGED <<World, RepairVars, capped, bounds>>
    BY DEF Sweep, WorkerAt
<1>2. \A b \in gone : b \in Halt /\ dossier[b].open /\ ~Locked(b)
    BY DEF Opened
<1>. HIDE DEF gone
<1>3. ASSUME NEW b \in Halt
      PROVE  /\ dossier'[b] \in DossierRecord /\ DossierIsFair(dossier'[b])
             /\ b \notin gone => Same(dossier[b], dossier'[b])
             /\ dossier'[b].rounds = dossier[b].rounds
             /\ dossier'[b].renewals = dossier[b].renewals
  <2>1. dossier[b] \in DossierRecord /\ DossierIsFair(dossier[b])
      BY Holds
  <2>2. CASE b \in gone
    <3>1. dossier'[b] = Closed(dossier[b], "OBSOLETE")
        BY <1>1, <2>2
    <3>. QED BY <1>2, <2>1, <2>2, <3>1, ClosedIs
  <2>3. CASE b \notin gone
    <3>1. dossier'[b] = Moved(dossier[b]) \/ dossier'[b] = dossier[b]
        BY <1>1, <2>3
    <3>2. Moved(dossier[b]) \in DossierRecord /\ Same(dossier[b], Moved(dossier[b]))
          /\ Same(dossier[b], dossier[b])
        BY <2>1, MovedIs, SameHolds
    <3>3. dossier'[b] \in DossierRecord /\ Same(dossier[b], dossier'[b])
        BY <2>1, <3>1, <3>2
    <3>4. DossierIsFair(dossier'[b])
        BY <2>1, <3>3, FairStays
    <3>. QED BY <2>3, <3>3, <3>4 DEF Same
  <2>. QED BY <2>2, <2>3
<1>4. dossier' \in [Halt -> DossierRecord]
    BY <1>1, <1>3
<1>5. UNCHANGED <<owner, standing, raises, repair, spec, cut, capped, upsets>>
    BY <1>1 DEF World, RepairVars, bounds
<1>6. DdTypeOK'
  <2>1. worker' \in [Passer -> WorkerRecord]
      BY <1>1, Holds, IdleIs
  <2>. QED BY <1>4, <1>5, <2>1 DEF DdInv, DdTypeOK
<1>7. LockInv'
  <2>1. worker \in [Passer -> WorkerRecord] /\ LockInv
      BY Holds
  <2>2. Idle.at = "idle" /\ ~Works(Idle) /\ Idle.at \notin Amending
      BY IdleIs DEF Works, Holding, Amending
  <2>. QED BY <1>1, <2>1, <2>2, LockKeeps
<1>8. FixInv'
  <2>1. worker \in [Passer -> WorkerRecord] /\ LockInv /\ FixInv
      BY Holds
  <2>2. Idle.at = "idle" /\ Idle.at \notin Fixing /\ worker[p].at \notin Amending
      BY <1>1, IdleIs DEF Fixing, Amending
  <2>3. \A b \in Halt : Alike(repair[b], repair'[b])
      BY <1>5, AlikeHolds
  <2>. QED BY <1>1, <1>5, <2>1, <2>2, <2>3, FixRests
<1>9. \A q \in Passer \ {p} : worker'[q] = worker[q]
    BY <1>1, Holds
<1>10. worker'[p] = Idle /\ Idle.at = "idle"
  <2>1. worker \in [Passer -> WorkerRecord]
      BY Holds
  <2>2. worker'[p] = Idle
      BY ONLY <1>1, <2>1
  <2>3. Idle.at = "idle"
      BY IdleIs
  <2>. QED BY <2>2, <2>3
<1>11. ASSUME NEW q \in Passer, worker'[q].at \in InRounds
       PROVE  Analyses(worker'[q].at, dossier'[worker'[q].block])
  <2>1. q # p
      BY <1>10, <1>11 DEF InRounds
  <2>2. PICK at : at = worker[q].at
      OBVIOUS
  <2>3. PICK c : c = worker[q].block
      OBVIOUS
  <2>4. worker'[q].at = at /\ worker'[q].block = c /\ at \in InRounds
      BY <1>9, <1>11, <2>1, <2>2, <2>3
  <2>5. c \in Halt /\ Analyses(at, dossier[c]) /\ Locked(c)
      BY <2>2, <2>3, <2>4, Holds, PlacesDiffer DEF LockInv, VerdictInv, Locked
  <2>6. Same(dossier[c], dossier'[c])
      BY <1>2, <1>3, <2>5
  <2>7. Analyses(at, dossier'[c])
      BY <2>5, <2>6, AnalysesStays
  <2>. QED BY <2>4, <2>7
<1>12. WithinBound'
  <2>1. WithinBound /\ DdTypeOK
      BY Holds DEF WithinBound, VerdictInv
  <2>2. Asking' \subseteq Asking
      BY <1>9, <1>10 DEF Asking, WorkerAt
  <2>. QED BY <1>3, <1>6, <2>1, <2>2, BoundRests
<1>13. VerdictInv'
    BY <1>3, <1>11, <1>12 DEF VerdictInv, WithinBound
<1>. QED BY <1>6, <1>7, <1>8, <1>13 DEF DdInv

-----------------------------------------------------------------------------
(* A person at a bound, the owner and its driver, crashes                  *)

\* Workers, repairs and the specification are left alone.
LEMMA FixStill ==
    ASSUME FixInv, UNCHANGED <<worker, spec, repair, cut>>,
           standing' = standing \/ ~Driven
    PROVE  FixInv'
<1>9. LiftsWhatStands'
    BY DEF FixInv, LiftsWhatStands, Driven, Amending
<1>1. /\ \A q \in Passer : Amends(worker[q].at, worker[q].block)
      /\ \A b \in Halt : RepairIsTrue(b)
    BY DEF FixInv
<1>2. /\ Driven' <=> Driven
      /\ Consistent' <=> Consistent
      /\ Current' = Current
      /\ \A b, k : InChain(b, k)' <=> InChain(b, k)
    BY DEF Driven, Consistent, Current, InChain
<1>3. ASSUME NEW q \in Passer PROVE Amends(worker[q].at, worker[q].block)'
  <2>1. PICK at : at = worker[q].at
      OBVIOUS
  <2>2. PICK b : b = worker[q].block
      OBVIOUS
  <2>3. worker'[q].at = at /\ worker'[q].block = b /\ Amends(at, b)
      BY <1>1, <2>1, <2>2
  <2>5. repair' = repair /\ spec' = spec
      OBVIOUS
  <2>6. Amends(at, b)'
      BY ONLY <1>2, <2>3, <2>5, Zenon DEF Amends
  <2>. QED BY <2>3, <2>6
<1>4. ASSUME NEW b \in Halt PROVE RepairIsTrue(b)'
    BY <1>1, <1>2 DEF RepairIsTrue, CutAt
<1>5. SpecIsAccounted'
    BY <1>2 DEF FixInv, SpecIsAccounted, SpecInOrder, Current, CutAt
<1>. QED BY <1>3, <1>4, <1>5, <1>9 DEF FixInv

LEMMA Renews ==
    ASSUME DoubleDownAssumption, DdInv, NEW b \in Halt, Renew(b)
    PROVE  DdInv'
<1>1. PICK d : d = dossier[b]
    OBVIOUS
<1>2. /\ Files(b, [d EXCEPT !.park = "none", !.parks = 0, !.renewals = @ + 1,
                            !.failures = Unfailed])
      /\ d.open /\ d.outcome = "none"
      /\ UNCHANGED <<World, RepairVars, capped, worker, bounds>>
    BY <1>1 DEF Renew
<1>3. d \in DossierRecord /\ DossierIsFair(d)
    BY <1>1, Holds
<1>. DEFINE e1 == [d EXCEPT !.park = "none"]
            e2 == [e1 EXCEPT !.parks = 0]
            e3 == [e2 EXCEPT !.renewals = d.renewals + 1]
            e == [e3 EXCEPT !.failures = Unfailed]
<1>4. e \in DossierRecord
  <2>1. d.renewals + 1 \in Nat /\ Unfailed \in [Perspective -> Nat] /\ 0 \in Nat
      BY <1>3 DEF DossierRecord, Unfailed
  <2>2. e1 \in DossierRecord
      BY <1>3, DossierFields
  <2>3. e2 \in DossierRecord
      BY <2>1, <2>2, DossierFields
  <2>4. e3 \in DossierRecord
      BY <2>1, <2>3, DossierFields
  <2>. QED BY <2>1, <2>4, DossierFields
<1>5. e = [d EXCEPT !.park = "none", !.parks = 0, !.renewals = @ + 1, !.failures = Unfailed]
    BY <1>3 DEF DossierRecord
<1>6. /\ e.open = d.open /\ e.tier = d.tier /\ e.rounds = d.rounds /\ e.last = d.last
      /\ e.outcome = d.outcome /\ e.renewals = d.renewals + 1 /\ e.sound = d.sound
      /\ e.touched = d.touched /\ e.guard = d.guard
    BY <1>3 DEF DossierRecord
<1>7. Files(b, e)
    BY <1>2, <1>5
<1>. HIDE DEF e
<1>8. OnlyOf(b, e)
    BY <1>4, <1>7, Holds, FilesAre
<1>9. UNCHANGED <<owner, standing, raises, repair, spec, cut, capped, upsets, worker>>
    BY <1>2 DEF World, RepairVars, bounds
<1>10. DdTypeOK'
    BY <1>8, <1>9 DEF DdInv, DdTypeOK, OnlyOf
<1>11. LockInv'
    BY <1>9, Holds DEF LockInv
<1>12. FixInv'
    BY <1>9, Holds, FixStill
<1>13. /\ dossier'[b] = e
       /\ \A c \in Halt \ {b} : Same(dossier[c], dossier'[c])
    BY <1>8 DEF OnlyOf
<1>14. ASSUME NEW c \in Halt
       PROVE  /\ DossierIsFair(dossier'[c])
              /\ \A at : Analyses(at, dossier[c]) => Analyses(at, dossier'[c])
  <2>1. CASE c = b
    <3>1. DossierIsFair(e)
        BY <1>3, <1>6 DEF DossierIsFair
    <3>2. \A at : Analyses(at, d) => Analyses(at, e)
        BY <1>6 DEF Analyses
    <3>. QED BY <1>1, <1>13, <2>1, <3>1, <3>2
  <2>2. CASE c # b
      BY <1>13, <2>2, Holds, FairStays, AnalysesStays
  <2>. QED BY <2>1, <2>2
<1>15. WithinBound'
  <2>1. PICK p \in Passer : TRUE
      BY DEF DoubleDownAssumption
  <2>2. WithinBound /\ DdTypeOK
      BY Holds DEF WithinBound, VerdictInv
  <2>3. \A c \in Halt \ {b} : /\ dossier'[c].rounds = dossier[c].rounds
                              /\ dossier'[c].renewals = dossier[c].renewals
      BY <1>13 DEF Same
  <2>4. dossier'[b].rounds = dossier[b].rounds /\ dossier'[b].renewals >= dossier[b].renewals
    <3>1. d.renewals \in Nat
        BY <1>3 DEF DossierRecord
    <3>. QED BY <1>1, <1>6, <1>13, <3>1
  <2>5. Asking' \subseteq Asking
      BY <1>9 DEF Asking, WorkerAt
  <2>. QED BY <1>10, <2>2, <2>3, <2>4, <2>5, BoundKeeps
<1>16. VerdictInv'
  <2>1. ASSUME NEW q \in Passer, worker'[q].at \in InRounds
        PROVE  Analyses(worker'[q].at, dossier'[worker'[q].block])
    <3>1. PICK c : c = worker[q].block
        OBVIOUS
    <3>2. worker'[q] = worker[q] /\ c \in Halt /\ Analyses(worker[q].at, dossier[c])
        BY <1>9, <2>1, <3>1, Holds, PlacesDiffer DEF LockInv, VerdictInv
    <3>. QED BY <1>14, <3>1, <3>2
  <2>. QED BY <1>14, <1>15, <2>1 DEF VerdictInv, WithinBound
<1>. QED BY <1>10, <1>11, <1>12, <1>16 DEF DdInv

\* A block comes to stand, or is cleared, while nobody amends.
LEMMA StandsOrClears ==
    ASSUME DoubleDownAssumption, DdInv, NEW b \in Halt, Stands(b) \/ Clears(b)
    PROVE  DdInv'
<1>1. /\ ~Driven /\ RunTouched /\ UNCHANGED <<owner, RepairVars, capped, worker, upsets>>
      /\ standing' \subseteq Halt /\ raises' \in Nat
    BY Holds DEF Stands, Clears, bounds
<1>2. AllSame
    BY <1>1, Holds, TouchedAre
<1>3. UNCHANGED <<worker, spec, repair, cut, owner, capped, upsets>>
    BY <1>1 DEF RepairVars
<1>4. DdTypeOK'
    BY <1>1, <1>2, <1>3 DEF DdInv, DdTypeOK, AllSame
<1>5. LockInv'
    BY <1>3, Holds DEF LockInv
<1>6. FixInv'
    BY <1>1, <1>3, Holds, FixStill
<1>7. VerdictInv'
    BY <1>2, <1>3, <1>4, Holds, VerdictRests
<1>. QED BY <1>4, <1>5, <1>6, <1>7 DEF DdInv

-----------------------------------------------------------------------------
(* Measuring and proving                                                   *)

LEMMA RepairActs ==
    ASSUME DoubleDownAssumption, DdInv, NEW p \in Passer, NEW b \in Halt,
           NEW w \in WorkerRecord, NEW r \in RepairRecord,
           worker' = [worker EXCEPT ![p] = w], AllSame,
           repair' = [repair EXCEPT ![b] = r],
           UNCHANGED <<World, spec, capped, bounds, cut>>,
           worker[p].at \notin Amending, Free(p, b),
           w.at \in {"idle", "pass", "verified", "measuring", "proving", "approved"},
           w.at \notin {"idle", "pass"} => w.block = b,
           r.reversed = repair[b].reversed,
           r.applied # "APPLIED" => repair[b].applied # "APPLIED",
           /\ r.applied = "APPLIED" =>
                 InChain(b, "apply") /\ r.verified = "RED" /\ r.proofs > 0
           /\ r.proofs <= MaxApplyAttempts /\ r.attempts <= MaxVerifyAttempts
           /\ w.at \in {"proving", "approved"} =>
                 r.applied = "none" /\ r.verified = "RED" /\ r.proofs > 0
           /\ w.at = "measuring" => r.verified = "none"
    PROVE  DdInv'
<1>1. UNCHANGED <<owner, standing, raises, spec, capped, upsets, cut>>
    BY DEF World, bounds
<1>2. repair'[b] = r /\ \A c \in Halt \ {b} : repair'[c] = repair[c]
    BY Holds
<1>3. DdTypeOK'
  <2>1. repair' \in [Halt -> RepairRecord] /\ worker' \in [Passer -> WorkerRecord]
      BY Holds
  <2>. QED BY <1>1, <2>1 DEF DdInv, DdTypeOK, AllSame
<1>4. \A c, k : InChain(c, k)' <=> InChain(c, k)
    BY <1>1 DEF InChain
<1>5. w.at \notin Amending /\ w.at \notin InRounds
    BY DEF Amending, InRounds
<1>6. Amends(w.at, b)'
  <2>1. PICK at : at = w.at
      OBVIOUS
  <2>2. Amends(at, b)'
      BY <1>2, <1>4, <2>1 DEF Amends, Proving, Recording
  <2>. QED BY <2>1, <2>2
<1>7. RepairIsTrue(b)'
  <2>1. RepairIsTrue(b)
      BY Holds DEF FixInv
  <2>2. r.reversed => InChain(b, "revert")
      BY <2>1 DEF RepairIsTrue
  <2>3. ASSUME NEW q \in Passer, worker[q].at \in Recording PROVE worker'[q] = worker[q]
      BY <2>3, Holds DEF Recording, Amending
  <2>4. r.applied # "APPLIED" /\ InChain(b, "apply") =>
           \/ CutAt(b, Recording)'
           \/ \E q \in Passer : worker'[q].at \in Recording /\ worker'[q].block = b
      BY <1>1, <2>1, <2>3 DEF RepairIsTrue, CutAt
  <2>. QED BY <1>2, <1>4, <2>2, <2>4 DEF RepairIsTrue
<1>8. FixInv'
  <2>1. worker \in [Passer -> WorkerRecord] /\ LockInv /\ FixInv
      BY Holds
  <2>2. w.at \in Fixing => w.block = b /\ Amends(w.at, b)'
      BY <1>6 DEF Fixing, Amending
  <2>3. /\ \/ /\ spec' = spec /\ standing' = standing
              /\ worker[p].at \notin Amending /\ w.at \notin Amending
           \/ (\A q \in Passer \ {p} : worker[q].at \notin Amending) /\ SpecIsAccounted'
        /\ worker[p].at \in Amending => worker[p].block = b
        /\ w.at \in {"texted", "chained"} => b \in standing'
        /\ cut \subseteq cut' /\ worker' = [worker EXCEPT ![p] = w]
      BY <1>1, <1>5
  <2>4. \A c \in Halt \ {b} : /\ repair'[c] = repair[c]
                              /\ \A k : InChain(c, k)' <=> InChain(c, k)
      BY <1>2, <1>4
  <2>5. p \in Passer /\ b \in Halt /\ Free(p, b) /\ RepairIsTrue(b)'
      BY <1>7
  <2>. QED BY ONLY <2>1, <2>2, <2>3, <2>4, <2>5, FixKeeps, ZenonT(60)
<1>9. Works(w) => Free(p, w.block)
  <2>1. Works(w) => w.at \notin {"idle", "pass"}
      BY DEF Works, Holding, Amending
  <2>. QED BY <2>1
<1>. QED BY <1>3, <1>5, <1>8, <1>9, OthersKeep

LEMMA RepairSame ==
    ASSUME DdInv, NEW b \in Halt, repair' = repair
    PROVE  repair' = [repair EXCEPT ![b] = repair[b]]
BY Holds

\* What is known of a repair.
LEMMA RepairIs ==
    ASSUME DdInv, NEW b \in Halt
    PROVE  /\ repair[b] \in RepairRecord
           /\ repair[b].applied = "APPLIED" =>
                 /\ InChain(b, "apply") /\ repair[b].verified = "RED"
                 /\ repair[b].proofs > 0
           /\ repair[b].proofs <= MaxApplyAttempts
           /\ repair[b].attempts <= MaxVerifyAttempts
<1>1. repair[b] \in RepairRecord
    BY Holds
<1>2. RepairIsTrue(b)
    BY Holds DEF FixInv
<1>. QED BY <1>1, <1>2, Zenon DEF RepairIsTrue

LEMMA PersonVerifiesOne ==
    ASSUME DoubleDownAssumption, DdInv, NEW p \in Passer, NEW b \in Halt, PersonVerifies(p, b)
    PROVE  DdInv'
<1>1. /\ worker[p].at = "idle"
      /\ worker' = [worker EXCEPT ![p] = [Idle EXCEPT !.at = "proposed", !.by = "person",
                                                      !.block = b]]
      /\ UNCHANGED <<World, dossier, RepairVars, capped, bounds>>
    BY DEF PersonVerifies, WorkerAt
<1>2. PICK w \in WorkerRecord :
         /\ w = [Idle EXCEPT !.at = "proposed", !.by = "person", !.block = b]
         /\ w.at = "proposed" /\ w.block = b
    BY IdleIs
<1>3. worker' = [worker EXCEPT ![p] = w] /\ worker[p].at \notin Amending
    BY <1>1, <1>2 DEF Amending
<1>. QED BY <1>1, <1>2, <1>3, Waits

LEMMA SkipsVerify ==
    ASSUME DoubleDownAssumption, DdInv, NEW p \in Passer, SkipVerify(p)
    PROVE  DdInv'
<1>1. /\ worker[p].at = "proposed" /\ Go(p, "verified")
      /\ UNCHANGED <<World, dossier, RepairVars, capped, bounds>>
    BY DEF SkipVerify, WorkerAt
<1>2. PICK w \in WorkerRecord : /\ worker' = [worker EXCEPT ![p] = w]
                                /\ w.at = "verified" /\ w.block = worker[p].block
    BY <1>1, Holds, GoIs
<1>3. worker[p].block \in Halt /\ worker[p].at \notin Amending
    BY <1>1, Holds DEF LockInv, Amending
<1>. QED BY <1>1, <1>2, <1>3, Waits

LEMMA RefusesAmend ==
    ASSUME DoubleDownAssumption, DdInv, NEW p \in Passer, AmendRefused(p)
    PROVE  DdInv'
<1>1. /\ worker[p].at = "approved" /\ Returns(p)
      /\ UNCHANGED <<World, dossier, RepairVars, capped, bounds>>
    BY DEF AmendRefused, WorkerAt
<1>2. PICK w \in WorkerRecord : worker' = [worker EXCEPT ![p] = w] /\ w.at \in {"idle", "pass"}
    BY <1>1, Holds, ReturnsIs
<1>3. worker[p].at \notin Amending
    BY <1>1 DEF Amending
<1>. QED BY <1>1, <1>2, <1>3, Waits

\* A status a measurement or a decision leaves behind.
LEMMA VerifiedIs ==
    ASSUME DdInv, NEW b \in Halt, NEW status \in {"RED", "REFUTED", "INCONCLUSIVE"},
           Verified(b, status)
    PROVE  /\ AllSame
           /\ \E r \in RepairRecord :
                 /\ repair' = [repair EXCEPT ![b] = r] /\ r.verified = status
                 /\ r.applied = repair[b].applied /\ r.reversed = repair[b].reversed
                 /\ r.proofs = repair[b].proofs /\ r.attempts = repair[b].attempts
<1>1. repair \in [Halt -> RepairRecord] /\ repair[b] \in RepairRecord
    BY Holds
<1>2. AllSame
    BY Holds, BesideAre DEF Verified
<1>. DEFINE r == [repair[b] EXCEPT !.verified = status]
<1>3. r \in RepairRecord
    BY <1>1, RepairFields
<1>4. repair' = [repair EXCEPT ![b] = r]
    BY DEF Verified
<1>5. /\ r.verified = status /\ r.applied = repair[b].applied
      /\ r.reversed = repair[b].reversed
      /\ r.proofs = repair[b].proofs /\ r.attempts = repair[b].attempts
    BY <1>1 DEF RepairRecord
<1>. QED BY <1>2, <1>3, <1>4, <1>5

LEMMA DecidedIs ==
    ASSUME DdInv, NEW b \in Halt, NEW status \in {"APPLIED", "NOT_APPLIED"},
           Decided(b, status)
    PROVE  /\ AllSame
           /\ \E r \in RepairRecord :
                 /\ repair' = [repair EXCEPT ![b] = r] /\ r.applied = status
                 /\ r.verified = repair[b].verified /\ r.reversed = repair[b].reversed
                 /\ r.proofs = repair[b].proofs /\ r.attempts = repair[b].attempts
<1>1. repair \in [Halt -> RepairRecord] /\ repair[b] \in RepairRecord
    BY Holds
<1>2. AllSame
    BY Holds, BesideAre DEF Decided
<1>. DEFINE r == [repair[b] EXCEPT !.applied = status]
<1>3. r \in RepairRecord
    BY <1>1, RepairFields
<1>4. repair' = [repair EXCEPT ![b] = r]
    BY DEF Decided
<1>5. /\ r.applied = status /\ r.verified = repair[b].verified
      /\ r.reversed = repair[b].reversed
      /\ r.proofs = repair[b].proofs /\ r.attempts = repair[b].attempts
    BY <1>1 DEF RepairRecord
<1>. QED BY <1>2, <1>3, <1>4, <1>5

LEMMA VerifiesSpec ==
    ASSUME DoubleDownAssumption, DdInv, NEW p \in Passer, VerifySpec(p)
    PROVE  DdInv'
<1>1. PICK b : b = worker[p].block
    OBVIOUS
<1>2. /\ worker[p].at = "proposed" /\ ~Locked(b) /\ repair[b].verified = "none"
      /\ UNCHANGED <<World, spec, capped, bounds, cut>>
    BY <1>1 DEF VerifySpec, WorkerAt, Verifiable
<1>3. b \in Halt /\ worker[p].at \notin Amending /\ Free(p, b)
    BY <1>1, <1>2, Holds, FreeOf DEF LockInv, Amending
<1>4. ASSUME NEW status \in {"INCONCLUSIVE", "REFUTED"}, Verified(b, status), Go(p, "verified")
      PROVE  DdInv'
  <2>1. PICK w \in WorkerRecord : /\ worker' = [worker EXCEPT ![p] = w]
                                  /\ w.at = "verified" /\ w.block = b
      BY <1>1, <1>4, Holds, GoIs
  <2>2. PICK r \in RepairRecord :
           /\ repair' = [repair EXCEPT ![b] = r] /\ r.verified = status
           /\ r.applied = repair[b].applied /\ r.reversed = repair[b].reversed
           /\ r.proofs = repair[b].proofs /\ r.attempts = repair[b].attempts
      BY <1>3, <1>4, VerifiedIs
  <2>3. AllSame
      BY <1>3, <1>4, VerifiedIs
  <2>4. /\ r.applied # "APPLIED"
        /\ r.proofs <= MaxApplyAttempts /\ r.attempts <= MaxVerifyAttempts
      BY <1>2, <1>3, <2>2, RepairIs
  <2>. QED BY <1>2, <1>3, <2>1, <2>2, <2>3, <2>4, RepairActs
<1>5. ASSUME repair' = [repair EXCEPT ![b].attempts = @ + 1], FilesBeside(b),
             Go(p, "measuring"), repair[b].attempts < MaxVerifyAttempts
      PROVE  DdInv'
  <2>1. PICK w \in WorkerRecord : /\ worker' = [worker EXCEPT ![p] = w]
                                  /\ w.at = "measuring" /\ w.block = b
      BY <1>1, <1>5, Holds, GoIs DEF Holding
  <2>2. repair[b] \in RepairRecord
      BY <1>3, Holds
  <2>3. PICK r : r = [repair[b] EXCEPT !.attempts = repair[b].attempts + 1]
      OBVIOUS
  <2>4. repair[b].attempts + 1 \in Nat /\ MaxVerifyAttempts \in Nat
      BY <2>2 DEF RepairRecord, DoubleDownAssumption
  <2>5. r \in RepairRecord
      BY <2>2, <2>3, <2>4, RepairFields
  <2>6. repair' = [repair EXCEPT ![b] = r]
      BY <1>5, <2>3
  <2>7. /\ r.verified = "none" /\ r.applied = repair[b].applied
        /\ r.reversed = repair[b].reversed /\ r.proofs = repair[b].proofs
        /\ r.attempts = repair[b].attempts + 1
      BY <1>2, <2>2, <2>3 DEF RepairRecord
  <2>8. AllSame
      BY <1>3, <1>5, Holds, BesideAre
  <2>9. r.attempts <= MaxVerifyAttempts
      BY <1>5, <2>2, <2>4, <2>7 DEF RepairRecord
  <2>10. /\ r.applied # "APPLIED"
         /\ r.proofs <= MaxApplyAttempts
      BY <1>2, <1>3, <2>7, RepairIs
  <2>. QED BY <1>2, <1>3, <2>1, <2>5, <2>6, <2>7, <2>8, <2>9, <2>10, RepairActs
<1>6. CASE repair[b].attempts >= MaxVerifyAttempts
  <2>1. Verified(b, "INCONCLUSIVE") /\ Go(p, "verified")
      BY <1>1, <1>6 DEF VerifySpec
  <2>. QED BY <1>4, <2>1
<1>7. CASE ~(repair[b].attempts >= MaxVerifyAttempts)
  <2>1. \/ Verified(b, "REFUTED") /\ Go(p, "verified")
        \/ /\ repair' = [repair EXCEPT ![b].attempts = @ + 1] /\ FilesBeside(b)
           /\ Go(p, "measuring")
      BY <1>1, <1>7 DEF VerifySpec
  <2>2. repair[b].attempts < MaxVerifyAttempts
      BY <1>3, <1>7, Holds DEF RepairRecord, DoubleDownAssumption
  <2>. QED BY <1>4, <1>5, <2>1, <2>2
<1>. QED BY <1>6, <1>7

LEMMA Measures ==
    ASSUME DoubleDownAssumption, DdInv, NEW p \in Passer,
           NEW status \in {"RED", "REFUTED", "INCONCLUSIVE"}, MeasureSpec(p, status)
    PROVE  DdInv'
<1>1. PICK b : b = worker[p].block
    OBVIOUS
<1>2. /\ worker[p].at = "measuring" /\ Go(p, "verified")
      /\ UNCHANGED <<World, spec, capped, bounds, cut>>
      /\ (FilesBeside(b) /\ repair' = repair) \/ Verified(b, status)
    BY <1>1 DEF MeasureSpec, WorkerAt
<1>3. b \in Halt /\ worker[p].at \notin Amending /\ Free(p, b)
  <2>1. worker[p].at \in Holding
      BY <1>2 DEF Holding
  <2>. QED BY <1>1, <1>2, <2>1, Holds, FreeOf DEF LockInv, Amending
<1>4. PICK w \in WorkerRecord : /\ worker' = [worker EXCEPT ![p] = w]
                                /\ w.at = "verified" /\ w.block = b
    BY <1>1, <1>2, Holds, GoIs
<1>5. repair[b].verified = "none"
  <2>1. Amends(worker[p].at, worker[p].block)
      BY Holds DEF FixInv
  <2>. QED BY <1>1, <1>2, <2>1 DEF Amends
<1>6. CASE FilesBeside(b) /\ repair' = repair
  <2>1. AllSame
      BY <1>3, <1>6, Holds, BesideAre
  <2>2. PICK r : r = repair[b]
      OBVIOUS
  <2>3. r \in RepairRecord /\ repair' = [repair EXCEPT ![b] = r]
      BY <1>3, <1>6, <2>2, Holds, RepairSame
  <2>4. /\ r.applied = "APPLIED" =>
              InChain(b, "apply") /\ r.verified = "RED" /\ r.proofs > 0
        /\ r.proofs <= MaxApplyAttempts /\ r.attempts <= MaxVerifyAttempts
      BY <1>3, <2>2, RepairIs
  <2>. QED BY <1>2, <1>3, <1>4, <2>1, <2>2, <2>3, <2>4, RepairActs
<1>7. CASE Verified(b, status)
  <2>1. PICK r \in RepairRecord :
           /\ repair' = [repair EXCEPT ![b] = r] /\ r.verified = status
           /\ r.applied = repair[b].applied /\ r.reversed = repair[b].reversed
           /\ r.proofs = repair[b].proofs /\ r.attempts = repair[b].attempts
      BY <1>3, <1>7, VerifiedIs
  <2>2. AllSame
      BY <1>3, <1>7, VerifiedIs
  <2>3. /\ r.applied # "APPLIED"
        /\ r.proofs <= MaxApplyAttempts /\ r.attempts <= MaxVerifyAttempts
      BY <1>3, <1>5, <2>1, RepairIs
  <2>. QED BY <1>2, <1>3, <1>4, <2>1, <2>2, <2>3, RepairActs
<1>. QED BY <1>2, <1>6, <1>7

\* The repair is declined before anything was amended.
LEMMA Declines ==
    ASSUME DoubleDownAssumption, DdInv, NEW p \in Passer, NEW b \in Halt,
           NEW w \in WorkerRecord, worker' = [worker EXCEPT ![p] = w],
           w.at \in {"idle", "pass"}, Decided(b, "NOT_APPLIED"),
           UNCHANGED <<World, spec, capped, bounds, cut>>,
           worker[p].at \notin Amending, Free(p, b), repair[b].applied = "none"
    PROVE  DdInv'
<1>1. PICK r \in RepairRecord :
         /\ repair' = [repair EXCEPT ![b] = r] /\ r.applied = "NOT_APPLIED"
         /\ r.verified = repair[b].verified /\ r.reversed = repair[b].reversed
         /\ r.proofs = repair[b].proofs /\ r.attempts = repair[b].attempts
    BY DecidedIs
<1>2. AllSame
    BY DecidedIs
<1>3. r.proofs <= MaxApplyAttempts /\ r.attempts <= MaxVerifyAttempts
    BY <1>1, RepairIs
<1>. QED BY <1>1, <1>2, <1>3, RepairActs

\* Nothing of a repair changes that is ever looked at.
LEMMA LeavesRepair ==
    ASSUME DoubleDownAssumption, DdInv, NEW p \in Passer,
           NEW w \in WorkerRecord, worker' = [worker EXCEPT ![p] = w],
           w.at \in {"idle", "pass"}, AllSame, repair' \in [Halt -> RepairRecord],
           \A c \in Halt : Alike(repair[c], repair'[c]),
           UNCHANGED <<World, spec, capped, bounds, cut>>,
           worker[p].at \notin Amending
    PROVE  DdInv'
<1>1. upsets' \in Nat /\ capped' \in BOOLEAN /\ UNCHANGED <<World, spec, cut>>
    BY Holds DEF bounds
<1>. QED BY <1>1, Rests

LEMMA WithholdsIs ==
    ASSUME DdInv, NEW b \in Halt,
           repair' = [repair EXCEPT ![b].withheld = TRUE] \/ repair' = repair
    PROVE  repair' \in [Halt -> RepairRecord] /\ \A c \in Halt : Alike(repair[c], repair'[c])
<1>1. repair \in [Halt -> RepairRecord] /\ repair[b] \in RepairRecord
    BY Holds
<1>2. CASE repair' = [repair EXCEPT ![b].withheld = TRUE]
  <2>1. [repair[b] EXCEPT !.withheld = TRUE] \in RepairRecord
      BY <1>1, RepairFields
  <2>2. repair' = [repair EXCEPT ![b] = [repair[b] EXCEPT !.withheld = TRUE]]
      BY <1>2
  <2>3. Alike(repair[b], [repair[b] EXCEPT !.withheld = TRUE])
      BY <1>1 DEF Alike, RepairRecord
  <2>. QED BY <1>1, <2>1, <2>2, <2>3, AlikeHolds
<1>3. CASE repair' = repair
    BY <1>1, <1>3, AlikeHolds
<1>. QED BY <1>2, <1>3

LEMMA AppliesIfDue ==
    ASSUME DoubleDownAssumption, DdInv, NEW p \in Passer, ApplyIfDue(p)
    PROVE  DdInv'
<1>1. PICK b : b = worker[p].block
    OBVIOUS
<1>2. /\ worker[p].at = "verified" /\ Returns(p)
      /\ UNCHANGED <<World, spec, capped, bounds, cut>>
      /\ \/ Appliable(b) /\ Decided(b, "NOT_APPLIED")
         \/ FilesBeside(b) /\ repair' = [repair EXCEPT ![b].withheld = TRUE]
         \/ dossier' = dossier /\ repair' = repair
    BY <1>1 DEF ApplyIfDue, WorkerAt
<1>3. b \in Halt /\ worker[p].at \notin Amending
    BY <1>1, <1>2, Holds DEF LockInv, Amending
<1>4. PICK w \in WorkerRecord : worker' = [worker EXCEPT ![p] = w] /\ w.at \in {"idle", "pass"}
    BY <1>2, Holds, ReturnsIs
<1>5. CASE Appliable(b) /\ Decided(b, "NOT_APPLIED")
  <2>1. Free(p, b) /\ repair[b].applied = "none"
      BY <1>5, Holds, FreeOf DEF Appliable
  <2>. QED BY <1>2, <1>3, <1>4, <1>5, <2>1, Declines
<1>6. CASE FilesBeside(b) /\ repair' = [repair EXCEPT ![b].withheld = TRUE]
  <2>1. AllSame
      BY <1>3, <1>6, Holds, BesideAre
  <2>2. repair' \in [Halt -> RepairRecord] /\ \A c \in Halt : Alike(repair[c], repair'[c])
      BY <1>3, <1>6, WithholdsIs
  <2>. QED BY <1>2, <1>3, <1>4, <2>1, <2>2, LeavesRepair
<1>7. CASE dossier' = dossier /\ repair' = repair
  <2>1. AllSame
      BY <1>3, <1>7, Holds, SameIsOnly
  <2>2. repair' \in [Halt -> RepairRecord] /\ \A c \in Halt : Alike(repair[c], repair'[c])
      BY <1>3, <1>7, WithholdsIs
  <2>. QED BY <1>2, <1>3, <1>4, <2>1, <2>2, LeavesRepair
<1>. QED BY <1>2, <1>5, <1>6, <1>7

LEMMA PersonAppliesOne ==
    ASSUME DoubleDownAssumption, DdInv, NEW p \in Passer, NEW b \in Halt, PersonApplies(p, b)
    PROVE  DdInv'
<1>1. /\ worker[p].at = "idle" /\ Appliable(b)
      /\ UNCHANGED <<World, spec, capped, bounds, cut>>
    BY DEF PersonApplies, WorkerAt
<1>2. /\ worker[p].at \notin Amending /\ Free(p, b) /\ repair[b].applied = "none"
      /\ repair[b].verified = "RED"
    BY <1>1, Holds, FreeOf DEF Appliable, Amending
<1>4. ASSUME Decided(b, "NOT_APPLIED"), UNCHANGED worker
      PROVE  DdInv'
  <2>1. PICK w : w = worker[p]
      OBVIOUS
  <2>2. w \in WorkerRecord /\ worker' = [worker EXCEPT ![p] = w] /\ w.at \in {"idle", "pass"}
      BY <1>1, <1>4, <2>1, Holds
  <2>. QED BY <1>1, <1>2, <1>4, <2>2, Declines
<1>5. ASSUME repair[b].proofs < MaxApplyAttempts,
             repair' = [repair EXCEPT ![b].proofs = @ + 1], FilesBeside(b),
             worker' = [worker EXCEPT ![p] = [Idle EXCEPT !.at = "proving", !.by = "person",
                                                          !.block = b]]
      PROVE  DdInv'
  <2>1. PICK w \in WorkerRecord :
           /\ w = [Idle EXCEPT !.at = "proving", !.by = "person", !.block = b]
           /\ w.at = "proving" /\ w.block = b
      BY IdleIs DEF Holding
  <2>2. worker' = [worker EXCEPT ![p] = w]
      BY <1>5, <2>1
  <2>3. repair[b] \in RepairRecord
      BY Holds
  <2>4. PICK r : r = [repair[b] EXCEPT !.proofs = repair[b].proofs + 1]
      OBVIOUS
  <2>5. /\ repair[b].proofs \in Nat /\ repair[b].proofs + 1 \in Nat
        /\ MaxApplyAttempts \in Nat
      BY <2>3 DEF RepairRecord, DoubleDownAssumption
  <2>6. r \in RepairRecord
      BY <2>3, <2>4, <2>5, RepairFields
  <2>7. repair' = [repair EXCEPT ![b] = r]
      BY <1>5, <2>4
  <2>8. /\ r.verified = "RED" /\ r.applied = "none"
        /\ r.reversed = repair[b].reversed /\ r.proofs = repair[b].proofs + 1
        /\ r.attempts = repair[b].attempts
      BY <1>2, <2>3, <2>4 DEF RepairRecord
  <2>9. AllSame
      BY <1>5, Holds, BesideAre
  <2>10. r.proofs <= MaxApplyAttempts /\ r.proofs > 0
      BY <1>5, <2>5, <2>8
  <2>11. r.attempts <= MaxVerifyAttempts
      BY <2>8, RepairIs
  <2>. QED BY <1>1, <1>2, <2>1, <2>2, <2>6, <2>7, <2>8, <2>9, <2>10, <2>11, RepairActs
<1>6. \/ Decided(b, "NOT_APPLIED") /\ UNCHANGED worker
      \/ /\ ~(repair[b].proofs >= MaxApplyAttempts)
         /\ repair' = [repair EXCEPT ![b].proofs = @ + 1] /\ FilesBeside(b)
         /\ worker' = [worker EXCEPT ![p] = [Idle EXCEPT !.at = "proving", !.by = "person",
                                                          !.block = b]]
    BY DEF PersonApplies
<1>7. ~(repair[b].proofs >= MaxApplyAttempts) => repair[b].proofs < MaxApplyAttempts
    BY Holds DEF RepairRecord, DoubleDownAssumption
<1>. QED BY <1>4, <1>5, <1>6, <1>7

\* What is known of the repair p is at.
LEMMA AtFix ==
    ASSUME DdInv, NEW p \in Passer, worker[p].at \in Holding
    PROVE  /\ worker[p].block \in Halt /\ Free(p, worker[p].block)
           /\ /\ Amends(worker[p].at, worker[p].block)
              /\ RepairIsTrue(worker[p].block)
           /\ worker[p].at \in Amending =>
                 \A q \in Passer \ {p} : worker[q].at \notin Amending
<1>1. worker[p].block \in Halt
    BY Holds, PlacesDiffer DEF LockInv
<1>2. Free(p, worker[p].block)
    BY Holds, FreeOf
<1>3. Amends(worker[p].at, worker[p].block) /\ RepairIsTrue(worker[p].block)
    BY <1>1, Holds DEF FixInv
<1>4. worker[p].at \in Amending => \A q \in Passer \ {p} : worker[q].at \notin Amending
    BY Holds DEF LockInv
<1>. QED BY <1>1, <1>2, <1>3, <1>4

LEMMA Proves ==
    ASSUME DoubleDownAssumption, DdInv, NEW p \in Passer, NEW proof, Prove(p, proof)
    PROVE  DdInv'
<1>1. PICK b : b = worker[p].block
    OBVIOUS
<1>2. /\ worker[p].at = "proving" /\ UNCHANGED <<World, spec, capped, bounds, cut>>
      /\ \/ Go(p, "approved") /\ UNCHANGED <<dossier, repair>>
         \/ Returns(p) /\ UNCHANGED <<dossier, repair>>
         \/ Returns(p) /\ Decided(b, "NOT_APPLIED")
    BY <1>1 DEF Prove, WorkerAt
<1>3. worker[p].at \in Holding /\ worker[p].at \notin Amending
    BY <1>2 DEF Holding, Amending
<1>4. b \in Halt /\ Free(p, b) /\ Amends("proving", b)
    BY <1>1, <1>2, <1>3, AtFix
<1>5. repair[b].applied = "none" /\ repair[b].verified = "RED" /\ repair[b].proofs > 0
    BY <1>4 DEF Amends, Proving
<1>6. CASE Go(p, "approved") /\ UNCHANGED <<dossier, repair>>
  <2>1. PICK w \in WorkerRecord : /\ worker' = [worker EXCEPT ![p] = w]
                                  /\ w.at = "approved" /\ w.block = b
      BY <1>1, <1>6, Holds, GoIs DEF Holding
  <2>2. PICK r : r = repair[b]
      OBVIOUS
  <2>3. r \in RepairRecord /\ repair' = [repair EXCEPT ![b] = r]
      BY <1>4, <1>6, <2>2, Holds, RepairSame
  <2>4. AllSame
      BY <1>4, <1>6, Holds, SameIsOnly
  <2>5. r.proofs <= MaxApplyAttempts /\ r.attempts <= MaxVerifyAttempts
      BY <1>4, <2>2, RepairIs
  <2>6. r.applied = "none" /\ r.verified = "RED" /\ r.proofs > 0
      BY <1>5, <2>2
  <2>. QED BY <1>2, <1>3, <1>4, <2>1, <2>2, <2>3, <2>4, <2>5, <2>6, RepairActs
<1>7. ASSUME Returns(p)
      PROVE  \E w \in WorkerRecord :
                worker' = [worker EXCEPT ![p] = w] /\ w.at \in {"idle", "pass"}
    BY <1>7, Holds, ReturnsIs
<1>8. CASE Returns(p) /\ UNCHANGED <<dossier, repair>>
  <2>1. PICK w \in WorkerRecord : worker' = [worker EXCEPT ![p] = w] /\ w.at \in {"idle", "pass"}
      BY <1>7, <1>8
  <2>2. AllSame
      BY <1>4, <1>8, Holds, SameIsOnly
  <2>3. repair' \in [Halt -> RepairRecord] /\ \A c \in Halt : Alike(repair[c], repair'[c])
      BY <1>4, <1>8, WithholdsIs
  <2>. QED BY <1>2, <1>3, <2>1, <2>2, <2>3, LeavesRepair
<1>9. CASE Returns(p) /\ Decided(b, "NOT_APPLIED")
  <2>1. PICK w \in WorkerRecord : worker' = [worker EXCEPT ![p] = w] /\ w.at \in {"idle", "pass"}
      BY <1>7, <1>9
  <2>. QED BY <1>2, <1>3, <1>4, <1>5, <1>9, <2>1, Declines
<1>. QED BY <1>2, <1>6, <1>8, <1>9

-----------------------------------------------------------------------------
(* Amendments                                                              *)

\* p amends for b, and nobody else amends.
LEMMA AmendActs ==
    ASSUME DoubleDownAssumption, DdInv, NEW p \in Passer, NEW b \in Halt,
           NEW w \in WorkerRecord, worker' = [worker EXCEPT ![p] = w], AllSame,
           UNCHANGED <<owner, raises, capped>>, upsets' \in Nat,
           standing' \subseteq Halt,
           spec' \in [text : Nat, chain : Seq(EntryRecord), state : Nat],
           repair' \in [Halt -> RepairRecord],
           \A c \in Halt \ {b} : /\ repair'[c] = repair[c]
                                 /\ \A k : InChain(c, k)' <=> InChain(c, k),
           \A q \in Passer \ {p} : worker[q].at \notin Amending, Free(p, b),
           worker[p].at \in Amending => worker[p].block = b,
           w.at \in Amending \cup {"idle", "pass"},
           w.at \in Amending => w.block = b /\ Amends(w.at, b)',
           w.at \in {"texted", "chained"} => b \in standing',
           SpecIsAccounted', cut \subseteq cut', cut' \subseteq Halt \X Amending,
           RepairIsTrue(b)'
    PROVE  DdInv'
<1>1. DdTypeOK'
  <2>1. worker' \in [Passer -> WorkerRecord]
      BY Holds
  <2>. QED BY <2>1 DEF DdInv, DdTypeOK, AllSame
<1>2. w.at \notin InRounds /\ (w.at \in Fixing => w.at \in Amending)
    BY DEF InRounds, Amending, Fixing
<1>3. FixInv'
  <2>1. worker \in [Passer -> WorkerRecord] /\ LockInv /\ FixInv
      BY Holds
  <2>2. w.at \in Fixing => w.block = b /\ Amends(w.at, b)'
      BY <1>2
  <2>3. /\ \/ /\ spec' = spec /\ standing' = standing
              /\ worker[p].at \notin Amending /\ w.at \notin Amending
           \/ (\A q \in Passer \ {p} : worker[q].at \notin Amending) /\ SpecIsAccounted'
        /\ worker[p].at \in Amending => worker[p].block = b
        /\ w.at \in {"texted", "chained"} => b \in standing'
        /\ cut \subseteq cut' /\ worker' = [worker EXCEPT ![p] = w]
      OBVIOUS
  <2>4. \A c \in Halt \ {b} : /\ repair'[c] = repair[c]
                              /\ \A k : InChain(c, k)' <=> InChain(c, k)
      OBVIOUS
  <2>5. p \in Passer /\ b \in Halt /\ Free(p, b) /\ RepairIsTrue(b)'
      OBVIOUS
  <2>. QED BY ONLY <2>1, <2>2, <2>3, <2>4, <2>5, FixKeeps, ZenonT(60)
<1>4. /\ w.at \notin {"idle", "pass"} => w.block \in Halt
      /\ Works(w) => Free(p, w.block)
      /\ w.at \in Amending => worker[p].at \in Amending \/ ~Driven
  <2>1. Works(w) => w.at \in Amending
      BY DEF Works, Holding
  <2>2. worker[p].at \in Amending \/ ~Driven
      BY DEF Driven
  <2>. QED BY <2>1, <2>2
<1>. QED BY <1>1, <1>2, <1>3, <1>4, OthersKeep

SpecRecord == [text : Nat, chain : Seq(EntryRecord), state : Nat]
LEMMA SpecFields ==
    ASSUME spec \in SpecRecord
    PROVE  /\ spec.text \in Nat /\ spec.chain \in Seq(EntryRecord) /\ spec.state \in Nat
           /\ Len(spec.chain) \in Nat /\ Current \in Nat
<1>1. spec.text \in Nat /\ spec.chain \in Seq(EntryRecord) /\ spec.state \in Nat
    BY DEF SpecRecord
<1>2. Len(spec.chain) \in Nat
    BY <1>1
<1>3. spec.chain # <<>> => spec.chain[Len(spec.chain)] \in EntryRecord
    BY <1>1, <1>2
<1>4. Current \in Nat
    BY <1>3 DEF Current, EntryRecord
<1>. QED BY <1>1, <1>2, <1>4

\* What an amendment leaves at the end of the chain.
LEMMA ChainedIs ==
    ASSUME spec \in SpecRecord, NEW en \in EntryRecord,
           spec' = [spec EXCEPT !.chain = Append(@, en)]
    PROVE  /\ spec' \in SpecRecord /\ spec'.text = spec.text /\ spec'.state = spec.state
           /\ Current' = en.to /\ spec'.chain # <<>>
           /\ spec'.chain[Len(spec'.chain)] = en
           /\ \A c, k : InChain(c, k)' <=> InChain(c, k) \/ (c = en.block /\ k = en.kind)
<1>. DEFINE s == spec.chain
            t == Append(s, en)
<1>1. s \in Seq(EntryRecord) /\ Len(s) \in Nat
    BY SpecFields
<1>2. /\ t \in Seq(EntryRecord) /\ Len(t) = Len(s) + 1 /\ t[Len(s) + 1] = en
      /\ DOMAIN t = 1..(Len(s) + 1) /\ DOMAIN s = 1..Len(s)
      /\ \A n \in 1..Len(s) : t[n] = s[n]
    BY <1>1
<1>3. /\ spec'.chain = t /\ spec'.text = spec.text /\ spec'.state = spec.state
      /\ spec' \in SpecRecord
    BY <1>2 DEF SpecRecord
<1>4. /\ Current' = en.to /\ spec'.chain # <<>>
      /\ spec'.chain[Len(spec'.chain)] = en
  <2>1. t # <<>>
      BY <1>1, <1>2
  <2>. QED BY <1>2, <1>3, <2>1 DEF Current
<1>5. ASSUME NEW c, NEW k
      PROVE  InChain(c, k)' <=> InChain(c, k) \/ (c = en.block /\ k = en.kind)
  <2>1. InChain(c, k)' <=> \E n \in DOMAIN t : t[n].block = c /\ t[n].kind = k
      BY <1>3 DEF InChain
  <2>2. InChain(c, k) <=> \E n \in DOMAIN s : s[n].block = c /\ s[n].kind = k
      BY DEF InChain
  <2>3. \A n : n \in 1..(Len(s) + 1) <=> n \in 1..Len(s) \/ n = Len(s) + 1
      BY <1>1
  <2>. HIDE DEF s, t
  <2>. QED BY <1>2, <2>1, <2>2, <2>3
<1>. QED BY <1>3, <1>4, <1>5

LEMMA SpecHolds ==
    ASSUME DdInv
    PROVE  spec \in SpecRecord
BY DEF DdInv, DdTypeOK, SpecRecord

\* What stays in the chain when only the text or the digest change.
LEMMA ChainStays ==
    ASSUME spec' = spec \/ spec'.chain = spec.chain
    PROVE  Current' = Current /\ \A c, k : InChain(c, k)' <=> InChain(c, k)
BY DEF Current, InChain

LEMMA TextIs ==
    ASSUME spec \in SpecRecord, NEW v \in Nat,
           \/ spec' = [spec EXCEPT !.text = v] /\ spec'.state = spec.state
           \/ spec' = [spec EXCEPT !.state = v] /\ spec'.text = spec.text
    PROVE  spec' \in SpecRecord /\ spec'.chain = spec.chain
BY DEF SpecRecord

\* While one process amends, what it has written is in order; what agrees is accounted for.
LEMMA OrderedIs ==
    ASSUME worker \in [Passer -> WorkerRecord], NEW p \in Passer, NEW w,
           worker' = [worker EXCEPT ![p] = w], w.at \in Amending, SpecInOrder'
    PROVE  SpecIsAccounted'
<1>1. Driven'
    BY DEF Driven
<1>. QED BY <1>1 DEF SpecIsAccounted

LEMMA ConsistentIs ==
    ASSUME Consistent'
    PROVE  SpecIsAccounted'
BY DEF Consistent, SpecIsAccounted, SpecInOrder

LEMMA BoundsRest ==
    ASSUME DdInv, UNCHANGED <<bounds, cut>>
    PROVE  upsets' \in Nat /\ cut \subseteq cut' /\ cut' \subseteq Halt \X Amending
BY DEF DdInv, DdTypeOK, bounds

LEMMA AmendsOne ==
    ASSUME DoubleDownAssumption, DdInv, NEW p \in Passer, Amend(p)
    PROVE  DdInv'
<1>1. PICK b : b = worker[p].block
    OBVIOUS
<1>2. /\ worker[p].at = "approved" /\ ~Driven
      /\ UNCHANGED <<World, capped, bounds, cut>>
    BY DEF Amend, WorkerAt
<1>3. worker[p].at \in Holding /\ worker[p].at \notin Amending
    BY <1>2 DEF Holding, Amending
<1>4. b \in Halt /\ Free(p, b) /\ Amends("approved", b) /\ RepairIsTrue(b)
    BY <1>1, <1>2, <1>3, AtFix
<1>5. repair[b].applied = "none" /\ repair[b].verified = "RED" /\ repair[b].proofs > 0
    BY <1>4 DEF Amends, Proving
<1>6. CASE StillMeant(b)
  <2>1. /\ spec' = [spec EXCEPT !.text = Len(spec.chain) + 1] /\ RunTouched
        /\ Go(p, "texted") /\ UNCHANGED repair
      BY <1>1, <1>6 DEF Amend
  <2>2. PICK w \in WorkerRecord : /\ worker' = [worker EXCEPT ![p] = w]
                                  /\ w.at = "texted" /\ w.block = b
      BY <1>1, <2>1, Holds, GoIs DEF Holding, Amending
  <2>3. spec' \in SpecRecord /\ spec'.chain = spec.chain /\ spec'.state = spec.state
    <3>1. Len(spec.chain) + 1 \in Nat
        BY SpecHolds, SpecFields
    <3>2. spec'.state = spec.state
        BY <2>1, SpecHolds DEF SpecRecord
    <3>. QED BY <2>1, <3>1, <3>2, SpecHolds, TextIs
  <2>4. Current' = Current /\ \A c, k : InChain(c, k)' <=> InChain(c, k)
      BY <2>3, ChainStays
  <2>5. AllSame /\ repair' = repair /\ repair' \in [Halt -> RepairRecord]
      BY <2>1, Holds, TouchedAre
  <2>6. b \in standing /\ Current = spec.state /\ standing' = standing
      BY <1>2, <1>6 DEF StillMeant, Consistent, World
  <2>7. Amends("texted", b)'
    <3>1. Current' = spec'.state
        BY <2>3, <2>4, <2>6
    <3>2. /\ repair'[b].applied = "none" /\ repair'[b].verified = "RED"
          /\ repair'[b].proofs > 0
        BY <1>5, <2>4, <2>5
    <3>. QED BY <3>1, <3>2 DEF Amends, Proving, Recording
  <2>8. RepairIsTrue(b)'
    <3>1. repair'[b] = repair[b] /\ RepairIsTrue(b)
        BY <1>4, <2>5
    <3>2. \A q \in Passer : worker[q].at \notin Recording
        BY <1>2 DEF Driven, Recording, Amending
    <3>3. CutAt(b, Recording)' <=> CutAt(b, Recording)
        BY <1>2 DEF CutAt
    <3>. QED BY <2>4, <3>1, <3>2, <3>3 DEF RepairIsTrue
  <2>9. /\ UNCHANGED <<owner, raises, capped>> /\ standing' \subseteq Halt /\ upsets' \in Nat
        /\ \A q \in Passer \ {p} : worker[q].at \notin Amending
        /\ spec' \in [text : Nat, chain : Seq(EntryRecord), state : Nat]
        /\ cut \subseteq cut' /\ cut' \subseteq Halt \X Amending
      BY <1>2, <2>3, Holds DEF World, Driven, SpecRecord, bounds, DdTypeOK
  <2>10. w.at \in Amending /\ b \in standing'
      BY <2>2, <2>6 DEF Amending
  <2>11. SpecIsAccounted'
    <3>1. SpecInOrder'
        BY <2>3, <2>4, <2>6 DEF SpecInOrder
    <3>. QED BY <2>2, <2>10, <3>1, Holds, OrderedIs
  <2>. QED BY <1>3, <1>4, <2>2, <2>4, <2>5, <2>7, <2>8, <2>9, <2>10, <2>11, AmendActs
<1>7. CASE ~StillMeant(b)
  <2>1. Decided(b, "NOT_APPLIED") /\ Returns(p) /\ UNCHANGED spec
      BY <1>1, <1>7 DEF Amend
  <2>2. PICK w \in WorkerRecord : worker' = [worker EXCEPT ![p] = w] /\ w.at \in {"idle", "pass"}
      BY <2>1, Holds, ReturnsIs
  <2>. QED BY <1>2, <1>3, <1>4, <1>5, <2>1, <2>2, Declines
<1>. QED BY <1>6, <1>7

\* What is known where p amends.
LEMMA Amender ==
    ASSUME DdInv, NEW p \in Passer, NEW at \in Amending, worker[p].at = at,
           NEW b, b = worker[p].block
    PROVE  /\ b \in Halt /\ Free(p, b) /\ repair \in [Halt -> RepairRecord]
           /\ repair[b] \in RepairRecord /\ worker \in [Passer -> WorkerRecord]
           /\ dossier \in [Halt -> DossierRecord] /\ standing \subseteq Halt
           /\ spec \in SpecRecord /\ worker[p].at \in Amending
           /\ \A q \in Passer \ {p} : worker[q].at \notin Amending
           /\ Amends(at, b) /\ RepairIsTrue(b)
<1>1. worker[p].at \in Holding /\ worker[p].at \in Amending
    BY DEF Holding
<1>. QED BY <1>1, Holds, SpecHolds, AtFix

\* An amendment is cut off where it is: what was written before stays.
LEMMA CutsOff ==
    ASSUME DoubleDownAssumption, DdInv, NEW p \in Passer, worker[p].at \in Amending,
           NEW w \in WorkerRecord, worker' = [worker EXCEPT ![p] = w],
           w.at \in {"idle", "pass"}, CutOff(p), AllSame,
           UNCHANGED <<World, spec, repair, capped>>, upsets' \in Nat
    PROVE  DdInv'
<1>1. PICK at \in Amending : at = worker[p].at
    OBVIOUS
<1>2. PICK b : b = worker[p].block
    OBVIOUS
<1>3. /\ b \in Halt /\ Free(p, b) /\ repair \in [Halt -> RepairRecord]
      /\ standing \subseteq Halt /\ spec \in SpecRecord
      /\ \A q \in Passer \ {p} : worker[q].at \notin Amending
      /\ Amends(at, b) /\ RepairIsTrue(b)
    BY <1>1, <1>2, Amender
<1>4. cut' = cut \cup {<<b, at>>}
    BY <1>1, <1>2 DEF CutOff
<1>5. cut \subseteq cut' /\ cut' \subseteq Halt \X Amending
    BY <1>3, <1>4 DEF DdInv, DdTypeOK
<1>6. \A places : at \in places => CutAt(b, places)'
    BY <1>4 DEF CutAt
<1>7. Current' = Current /\ \A c, k : InChain(c, k)' <=> InChain(c, k)
    BY ChainStays
<1>8. SpecIsAccounted'
  <2>1. SpecInOrder'
      BY <1>7, Holds DEF FixInv, SpecIsAccounted, SpecInOrder
  <2>2. CASE at \in {"texted", "untexted"}
    <3>1. Current' = spec'.state
        BY <1>3, <1>7, <2>2 DEF Amends
    <3>2. CutAt(b, {"texted", "untexted"})'
        BY <1>6, <2>2
    <3>. QED BY <1>3, <2>1, <3>1, <3>2 DEF SpecIsAccounted
  <2>3. CASE at \in {"chained", "unchained"}
    <3>1. Current' = spec'.text
        BY <1>3, <1>7, <2>3 DEF Amends
    <3>2. CutAt(b, {"chained", "unchained"})'
        BY <1>6, <2>3
    <3>. QED BY <1>3, <2>1, <3>1, <3>2 DEF SpecIsAccounted
  <2>4. CASE at \in {"amended", "reverted"}
    <3>1. Consistent'
        BY <1>3, <1>7, <2>4 DEF Amends, Consistent
    <3>. QED BY <3>1, ConsistentIs
  <2>. QED BY <1>1, <2>2, <2>3, <2>4 DEF Amending
<1>9. RepairIsTrue(b)'
  <2>1. (\E q \in Passer : worker[q].at \in Recording /\ worker[q].block = b)
        => at \in Recording
      BY <1>1, <1>3 DEF Recording, Amending
  <2>2. at \in Recording => CutAt(b, Recording)'
      BY <1>6
  <2>3. CutAt(b, Recording) => CutAt(b, Recording)'
      BY <1>5 DEF CutAt
  <2>. QED BY <1>3, <1>7, <2>1, <2>2, <2>3 DEF RepairIsTrue
<1>10. /\ UNCHANGED <<owner, raises, capped>> /\ standing' \subseteq Halt
       /\ spec' \in [text : Nat, chain : Seq(EntryRecord), state : Nat]
       /\ repair' \in [Halt -> RepairRecord]
       /\ \A c \in Halt \ {b} : /\ repair'[c] = repair[c]
                                 /\ \A k : InChain(c, k)' <=> InChain(c, k)
       /\ w.at \notin Amending
    BY <1>3, <1>7 DEF World, SpecRecord, Amending
<1>. QED BY <1>2, <1>3, <1>5, <1>8, <1>9, <1>10, AmendActs

LEMMA WritesFail ==
    ASSUME DoubleDownAssumption, DdInv, NEW p \in Passer, WriteFails(p)
    PROVE  DdInv'
<1>1. /\ Returns(p) /\ upsets' \in Nat /\ UNCHANGED <<World, repair, spec, capped>>
      /\ RunTouched \/ dossier' = dossier
      /\ \/ worker[p].at = "proving" /\ cut' = cut
         \/ worker[p].at \in Amending /\ CutOff(p)
    BY Holds DEF WriteFails, Upset, WorkerAt, World
<1>2. PICK w \in WorkerRecord : worker' = [worker EXCEPT ![p] = w] /\ w.at \in {"idle", "pass"}
    BY <1>1, Holds, ReturnsIs
<1>3. AllSame
    BY <1>1, Holds, TouchedAre, SameHolds DEF AllSame
<1>4. CASE worker[p].at \in Amending /\ CutOff(p)
    BY <1>1, <1>2, <1>3, <1>4, CutsOff
<1>5. CASE worker[p].at = "proving" /\ cut' = cut
  <2>1. repair' \in [Halt -> RepairRecord] /\ \A c \in Halt : Alike(repair[c], repair'[c])
      BY <1>1, Holds, AlikeHolds
  <2>2. worker[p].at \notin Amending /\ capped' \in BOOLEAN
      BY <1>1, <1>5, Holds DEF Amending
  <2>. QED BY <1>1, <1>2, <1>3, <1>5, <2>1, <2>2, Rests
<1>. QED BY <1>1, <1>4, <1>5

LEMMA DiesAnywhere ==
    ASSUME DoubleDownAssumption, DdInv, NEW p \in Passer, Dies(p)
    PROVE  DdInv'
<1>1. /\ upsets' \in Nat /\ worker' = [worker EXCEPT ![p] = Idle]
      /\ UNCHANGED <<World, dossier, repair, spec, capped>>
      /\ \/ worker[p].at \in Amending /\ CutOff(p)
         \/ worker[p].at \notin Amending /\ cut' = cut
    BY Holds DEF Dies, Upset, World
<1>2. Idle \in WorkerRecord /\ Idle.at = "idle"
    BY IdleIs
<1>3. AllSame
    BY <1>1, Holds, SameHolds DEF AllSame
<1>4. CASE worker[p].at \in Amending /\ CutOff(p)
    BY <1>1, <1>2, <1>3, <1>4, CutsOff
<1>5. CASE worker[p].at \notin Amending /\ cut' = cut
  <2>1. repair' \in [Halt -> RepairRecord] /\ \A c \in Halt : Alike(repair[c], repair'[c])
      BY <1>1, Holds, AlikeHolds
  <2>. QED BY <1>1, <1>2, <1>3, <1>5, <2>1, Holds, Rests
<1>. QED BY <1>1, <1>4, <1>5

LEMMA Chains ==
    ASSUME DoubleDownAssumption, DdInv, NEW p \in Passer, Chain(p)
    PROVE  DdInv'
<1>1. PICK b : b = worker[p].block
    OBVIOUS
<1>2. worker[p].at = "texted" /\ UNCHANGED <<World, repair, capped, bounds>>
    BY DEF Chain, WorkerAt
<1>3. "texted" \in Amending
    BY DEF Amending
<1>4. /\ b \in Halt /\ Free(p, b) /\ repair \in [Halt -> RepairRecord]
      /\ worker \in [Passer -> WorkerRecord]
      /\ dossier \in [Halt -> DossierRecord] /\ standing \subseteq Halt
      /\ spec \in SpecRecord /\ worker[p].at \in Amending
      /\ \A q \in Passer \ {p} : worker[q].at \notin Amending
      /\ Amends("texted", b) /\ RepairIsTrue(b)
    BY <1>1, <1>2, <1>3, Amender
<1>5. repair[b].applied = "none" /\ repair[b].verified = "RED" /\ repair[b].proofs > 0
    BY <1>4 DEF Amends, Proving
<1>9. b \in standing
    BY <1>1, <1>2, Holds DEF FixInv, LiftsWhatStands
<1>6. /\ UNCHANGED <<owner, raises, capped>> /\ standing' = standing
      /\ standing' \subseteq Halt /\ repair' = repair /\ repair' \in [Halt -> RepairRecord]
    BY <1>2, <1>4 DEF World
<1>7. CASE InChain(b, "apply")
  <2>1. Returns(p) /\ CutOff(p) /\ UNCHANGED <<dossier, spec>>
      BY <1>1, <1>7 DEF Chain
  <2>2. PICK w \in WorkerRecord : worker' = [worker EXCEPT ![p] = w] /\ w.at \in {"idle", "pass"}
      BY <1>4, <2>1, ReturnsIs
  <2>3. AllSame
      BY <1>4, <2>1, SameIsOnly
  <2>4. upsets' \in Nat
      BY <1>2, Holds DEF bounds
  <2>. QED BY <1>2, <1>4, <2>1, <2>2, <2>3, <2>4, CutsOff
<1>8. CASE ~InChain(b, "apply")
  <2>1. /\ spec' = [spec EXCEPT !.chain = Append(@, Entry(b, "apply"))]
        /\ RunTouched /\ Go(p, "chained") /\ UNCHANGED cut
      BY <1>1, <1>8 DEF Chain
  <2>2. PICK w \in WorkerRecord : /\ worker' = [worker EXCEPT ![p] = w]
                                  /\ w.at = "chained" /\ w.block = b
      BY <1>1, <1>4, <2>1, GoIs DEF Holding, Amending
  <2>3. PICK en : en = Entry(b, "apply")
      OBVIOUS
  <2>4. /\ en \in EntryRecord /\ en.block = b /\ en.kind = "apply" /\ en.to = spec.text
        /\ en.from = Current
      BY <1>4, <2>3, SpecFields DEF Entry, EntryRecord
  <2>5. spec' = [spec EXCEPT !.chain = Append(@, en)]
      BY <2>1, <2>3
  <2>6. /\ spec' \in SpecRecord /\ spec'.text = spec.text /\ Current' = spec'.text
        /\ spec'.state = spec.state /\ spec'.chain # <<>>
        /\ spec'.chain[Len(spec'.chain)] = en
        /\ \A c, k : InChain(c, k)' <=> InChain(c, k) \/ (c = b /\ k = "apply")
    <3>1. /\ spec' \in SpecRecord /\ spec'.text = spec.text /\ Current' = en.to
          /\ spec'.state = spec.state /\ spec'.chain # <<>>
          /\ spec'.chain[Len(spec'.chain)] = en
          /\ \A c, k : InChain(c, k)' <=> InChain(c, k) \/ (c = en.block /\ k = en.kind)
        BY <1>4, <2>4, <2>5, ChainedIs
    <3>. QED BY ONLY <2>4, <3>1, Zenon
  <2>7. AllSame
      BY <1>4, <2>1, TouchedAre
  <2>8. Amends("chained", b)'
    <3>1. /\ Current' = spec'.text /\ InChain(b, "apply")'
          /\ repair'[b].applied = "none" /\ repair'[b].verified = "RED"
          /\ repair'[b].proofs > 0
        BY <1>5, <1>6, <2>6
    <3>. QED BY <3>1 DEF Amends, Proving, Recording
  <2>9. RepairIsTrue(b)'
    <3>1. repair'[b] = repair[b] /\ RepairIsTrue(b) /\ repair[b].applied = "none"
        BY <1>4, <1>5, <1>6
    <3>2. worker'[p].at \in Recording /\ worker'[p].block = b
        BY <1>4, <2>2 DEF Recording
    <3>. QED BY <2>6, <3>1, <3>2 DEF RepairIsTrue
  <2>10. w.at \in Amending /\ spec' \in [text : Nat, chain : Seq(EntryRecord), state : Nat]
      BY <2>2, <2>6 DEF Amending, SpecRecord
  <2>11. \A c \in Halt \ {b} : \A k : InChain(c, k)' <=> InChain(c, k)
      BY <2>6
  <2>12. SpecIsAccounted'
    <3>1. Current = spec.state
        BY <1>4 DEF Amends
    <3>2. SpecInOrder'
        BY <2>4, <2>6, <3>1 DEF SpecInOrder
    <3>. QED BY <1>4, <2>2, <2>10, <3>2, OrderedIs
  <2>13. upsets' \in Nat /\ cut \subseteq cut' /\ cut' \subseteq Halt \X Amending
      BY <1>2, <2>1, BoundsRest
  <2>. QED BY <1>1, <1>4, <1>6, <1>9, <2>2, <2>7, <2>8, <2>9, <2>10, <2>11, <2>12, <2>13,
              AmendActs
<1>. QED BY <1>7, <1>8

LEMMA LiftsAmended ==
    ASSUME DoubleDownAssumption, DdInv, NEW p \in Passer, LiftAmended(p)
    PROVE  DdInv'
<1>1. PICK b : b = worker[p].block
    OBVIOUS
<1>2. /\ worker[p].at = "chained" /\ spec' = [spec EXCEPT !.state = spec.text]
      /\ standing' = standing \ {b} /\ RunTouched /\ Go(p, "amended")
      /\ UNCHANGED <<owner, raises, repair, capped, bounds, cut>>
    BY <1>1 DEF LiftAmended, WorkerAt
<1>3. "chained" \in Amending
    BY DEF Amending
<1>4. /\ b \in Halt /\ Free(p, b) /\ repair \in [Halt -> RepairRecord]
      /\ worker \in [Passer -> WorkerRecord]
      /\ dossier \in [Halt -> DossierRecord] /\ standing \subseteq Halt
      /\ spec \in SpecRecord /\ worker[p].at \in Amending
      /\ \A q \in Passer \ {p} : worker[q].at \notin Amending
      /\ Amends("chained", b) /\ RepairIsTrue(b)
    BY <1>1, <1>2, <1>3, Amender
<1>5. /\ InChain(b, "apply") /\ repair[b].applied = "none" /\ Current = spec.text
      /\ repair[b].verified = "RED" /\ repair[b].proofs > 0
    BY <1>4 DEF Amends, Recording
<1>6. PICK w \in WorkerRecord : /\ worker' = [worker EXCEPT ![p] = w]
                                /\ w.at = "amended" /\ w.block = b
    BY <1>1, <1>2, <1>4, GoIs DEF Holding, Amending
<1>7. spec' \in SpecRecord /\ spec'.chain = spec.chain /\ spec'.text = spec.text
      /\ spec'.state = spec.text
  <2>1. spec.text \in Nat
      BY <1>4, SpecFields
  <2>2. spec'.text = spec.text /\ spec'.state = spec.text
      BY <1>2, <1>4 DEF SpecRecord
  <2>. QED BY <1>2, <1>4, <2>1, <2>2, TextIs
<1>8. Current' = Current /\ \A c, k : InChain(c, k)' <=> InChain(c, k)
    BY <1>7, ChainStays
<1>9. AllSame
    BY <1>2, <1>4, TouchedAre
<1>10. Amends("amended", b)'
  <2>1. Consistent'
      BY <1>5, <1>7, <1>8 DEF Consistent
  <2>2. /\ InChain(b, "apply")' /\ repair'[b].applied = "none" /\ repair'[b].verified = "RED"
        /\ repair'[b].proofs > 0
      BY <1>2, <1>5, <1>8
  <2>. QED BY <2>1, <2>2 DEF Amends, Proving, Recording
<1>11. RepairIsTrue(b)'
  <2>1. repair'[b] = repair[b] /\ RepairIsTrue(b)
      BY <1>2, <1>4
  <2>2. worker'[p].at \in Recording /\ worker'[p].block = b
      BY <1>4, <1>6 DEF Recording
  <2>. QED BY <1>8, <2>1, <2>2 DEF RepairIsTrue
<1>12. /\ w.at \in Amending /\ spec' \in [text : Nat, chain : Seq(EntryRecord), state : Nat]
       /\ standing' \subseteq Halt /\ repair' \in [Halt -> RepairRecord]
       /\ \A c \in Halt \ {b} : repair'[c] = repair[c]
    BY <1>2, <1>4, <1>6, <1>7 DEF Amending, SpecRecord
<1>13. SpecIsAccounted'
  <2>1. SpecInOrder'
      BY <1>5, <1>7, <1>8 DEF SpecInOrder
  <2>. QED BY <1>4, <1>6, <1>12, <2>1, OrderedIs
<1>14. upsets' \in Nat /\ cut \subseteq cut' /\ cut' \subseteq Halt \X Amending
    BY <1>2, BoundsRest
<1>. QED BY <1>1, <1>2, <1>4, <1>6, <1>8, <1>9, <1>10, <1>11, <1>12, <1>13, <1>14, AmendActs

LEMMA RecordsApplied ==
    ASSUME DoubleDownAssumption, DdInv, NEW p \in Passer, Applied(p)
    PROVE  DdInv'
<1>1. PICK b : b = worker[p].block
    OBVIOUS
<1>2. /\ worker[p].at = "amended" /\ Decided(b, "APPLIED") /\ Returns(p)
      /\ UNCHANGED <<World, spec, capped, bounds, cut>>
    BY <1>1 DEF Applied, WorkerAt
<1>3. "amended" \in Amending
    BY DEF Amending
<1>4. /\ b \in Halt /\ Free(p, b) /\ repair \in [Halt -> RepairRecord]
      /\ repair[b] \in RepairRecord /\ worker \in [Passer -> WorkerRecord]
      /\ dossier \in [Halt -> DossierRecord] /\ standing \subseteq Halt
      /\ spec \in SpecRecord /\ worker[p].at \in Amending
      /\ \A q \in Passer \ {p} : worker[q].at \notin Amending
      /\ Amends("amended", b) /\ RepairIsTrue(b)
    BY <1>1, <1>2, <1>3, Amender
<1>5. /\ InChain(b, "apply") /\ Consistent
      /\ repair[b].verified = "RED" /\ repair[b].proofs > 0
    BY <1>4 DEF Amends, Recording
<1>6. PICK r \in RepairRecord :
         /\ repair' = [repair EXCEPT ![b] = r] /\ r.applied = "APPLIED"
         /\ r.verified = repair[b].verified /\ r.reversed = repair[b].reversed
         /\ r.proofs = repair[b].proofs /\ r.attempts = repair[b].attempts
    BY <1>2, <1>4, DecidedIs
<1>7. AllSame
    BY <1>2, <1>4, DecidedIs
<1>8. /\ repair' \in [Halt -> RepairRecord] /\ repair'[b] = r
      /\ \A c \in Halt \ {b} : repair'[c] = repair[c]
    BY <1>4, <1>6
<1>9. PICK w \in WorkerRecord : worker' = [worker EXCEPT ![p] = w] /\ w.at \in {"idle", "pass"}
    BY <1>2, <1>4, ReturnsIs
<1>10. /\ spec' = spec /\ standing' \subseteq Halt /\ w.at \notin Amending
       /\ UNCHANGED <<owner, raises, capped>>
       /\ spec' \in [text : Nat, chain : Seq(EntryRecord), state : Nat]
    BY <1>2, <1>4, <1>9 DEF World, SpecRecord, Amending
<1>11. Current' = Current /\ \A c, k : InChain(c, k)' <=> InChain(c, k)
    BY <1>10, ChainStays
<1>12. Consistent' /\ RepairIsTrue(b)'
  <2>1. Consistent'
      BY <1>5, <1>10, <1>11 DEF Consistent
  <2>2. /\ r.reversed => InChain(b, "revert")
        /\ r.proofs <= MaxApplyAttempts /\ r.attempts <= MaxVerifyAttempts
      BY <1>4, <1>6 DEF RepairIsTrue
  <2>3. InChain(b, "apply") /\ r.verified = "RED" /\ r.proofs > 0
      BY <1>5, <1>6
  <2>4. RepairIsTrue(b)'
      BY <1>6, <1>8, <1>11, <2>2, <2>3 DEF RepairIsTrue
  <2>. QED BY <2>1, <2>4
<1>13. upsets' \in Nat /\ cut \subseteq cut' /\ cut' \subseteq Halt \X Amending
    BY <1>2, BoundsRest
<1>14. SpecIsAccounted'
    BY <1>12, ConsistentIs
<1>. QED BY <1>1, <1>4, <1>7, <1>8, <1>9, <1>10, <1>11, <1>12, <1>13, <1>14, AmendActs

LEMMA Reverts ==
    ASSUME DoubleDownAssumption, DdInv, NEW p \in Passer, NEW b \in Halt, Revert(p, b)
    PROVE  DdInv'
<1>1. /\ worker[p].at = "idle" /\ ~Locked(b) /\ spec.chain # <<>> /\ ~Driven /\ RunTouched
      /\ Consistent
      /\ spec' = [spec EXCEPT !.text = spec.chain[Len(spec.chain)].from]
      /\ worker' = [worker EXCEPT ![p] = [Idle EXCEPT !.at = "untexted", !.by = "person",
                                                      !.block = b]]
      /\ UNCHANGED <<World, repair, capped, bounds, cut>>
    BY DEF Revert, WorkerAt, Revertible
<1>2. /\ repair \in [Halt -> RepairRecord] /\ dossier \in [Halt -> DossierRecord]
      /\ standing \subseteq Halt /\ spec \in SpecRecord /\ Free(p, b)
      /\ worker[p].at \notin Amending /\ \A q \in Passer \ {p} : worker[q].at \notin Amending
    BY <1>1, Holds, SpecHolds, FreeOf DEF Driven
<1>3. PICK w \in WorkerRecord :
         /\ w = [Idle EXCEPT !.at = "untexted", !.by = "person", !.block = b]
         /\ w.at = "untexted" /\ w.block = b
    BY IdleIs DEF Holding, Amending
<1>4. worker' = [worker EXCEPT ![p] = w] /\ w.at \in Amending
    BY <1>1, <1>3 DEF Amending
<1>5. spec' \in SpecRecord /\ spec'.chain = spec.chain /\ spec'.state = spec.state
  <2>1. spec.chain \in Seq(EntryRecord) /\ Len(spec.chain) \in Nat
      BY <1>2, SpecFields
  <2>2. spec.chain[Len(spec.chain)] \in EntryRecord
      BY <1>1, <2>1
  <2>3. spec.chain[Len(spec.chain)].from \in Nat
      BY <2>2 DEF EntryRecord
  <2>4. spec'.state = spec.state
      BY <1>1, <1>2 DEF SpecRecord
  <2>. QED BY <1>1, <1>2, <2>3, <2>4, TextIs
<1>6. Current' = Current /\ \A c, k : InChain(c, k)' <=> InChain(c, k)
    BY <1>5, ChainStays
<1>7. AllSame
    BY <1>1, <1>2, TouchedAre
<1>8. Current' = spec'.state /\ Amends("untexted", b)'
  <2>1. Current' = spec'.state
      BY <1>1, <1>5, <1>6 DEF Consistent
  <2>. QED BY <2>1 DEF Amends, Proving, Recording
<1>9. RepairIsTrue(b)'
  <2>1. RepairIsTrue(b) /\ repair'[b] = repair[b]
      BY <1>1, Holds DEF FixInv
  <2>2. \A q \in Passer : worker[q].at \notin Recording
      BY <1>2 DEF Recording, Amending
  <2>3. CutAt(b, Recording)' <=> CutAt(b, Recording)
      BY <1>1 DEF CutAt
  <2>. QED BY <1>6, <2>1, <2>2, <2>3 DEF RepairIsTrue
<1>10. /\ UNCHANGED <<owner, raises, capped>> /\ standing' \subseteq Halt
       /\ spec' \in [text : Nat, chain : Seq(EntryRecord), state : Nat]
       /\ repair' \in [Halt -> RepairRecord] /\ \A c \in Halt \ {b} : repair'[c] = repair[c]
    BY <1>1, <1>2, <1>5 DEF World, SpecRecord
<1>11. /\ w.at \in Amending => w.block = b /\ Amends(w.at, b)'
       /\ w.at \notin {"texted", "chained"}
    BY <1>3, <1>8
<1>12. SpecIsAccounted'
  <2>1. SpecInOrder'
      BY <1>8 DEF SpecInOrder
  <2>2. worker \in [Passer -> WorkerRecord]
      BY Holds
  <2>. QED BY <1>4, <2>1, <2>2, OrderedIs
<1>13. upsets' \in Nat /\ cut \subseteq cut' /\ cut' \subseteq Halt \X Amending
    BY <1>1, BoundsRest
<1>. QED BY <1>2, <1>4, <1>6, <1>7, <1>9, <1>10, <1>11, <1>12, <1>13, AmendActs

LEMMA Unchains ==
    ASSUME DoubleDownAssumption, DdInv, NEW p \in Passer, Unchain(p)
    PROVE  DdInv'
<1>1. PICK b : b = worker[p].block
    OBVIOUS
<1>2. /\ worker[p].at = "untexted" /\ RunTouched /\ Go(p, "unchained")
      /\ spec' = [spec EXCEPT !.chain = Append(@, Entry(b, "revert"))]
      /\ UNCHANGED <<World, repair, capped, bounds, cut>>
    BY <1>1 DEF Unchain, WorkerAt
<1>3. "untexted" \in Amending
    BY DEF Amending
<1>4. /\ b \in Halt /\ Free(p, b) /\ repair \in [Halt -> RepairRecord]
      /\ repair[b] \in RepairRecord /\ worker \in [Passer -> WorkerRecord]
      /\ dossier \in [Halt -> DossierRecord] /\ standing \subseteq Halt
      /\ spec \in SpecRecord /\ worker[p].at \in Amending
      /\ \A q \in Passer \ {p} : worker[q].at \notin Amending
      /\ Amends("untexted", b) /\ RepairIsTrue(b)
    BY <1>1, <1>2, <1>3, Amender
<1>5. PICK w \in WorkerRecord : /\ worker' = [worker EXCEPT ![p] = w]
                                /\ w.at = "unchained" /\ w.block = b
    BY <1>1, <1>2, <1>4, GoIs DEF Holding, Amending
<1>6. PICK en : en = Entry(b, "revert")
    OBVIOUS
<1>7. /\ en \in EntryRecord /\ en.block = b /\ en.kind = "revert" /\ en.to = spec.text
      /\ en.from = Current
    BY <1>4, <1>6, SpecFields DEF Entry, EntryRecord
<1>8. spec' = [spec EXCEPT !.chain = Append(@, en)]
    BY <1>2, <1>6
<1>9. /\ spec' \in SpecRecord /\ spec'.text = spec.text /\ Current' = spec'.text
      /\ spec'.state = spec.state /\ spec'.chain # <<>> /\ spec'.chain[Len(spec'.chain)] = en
      /\ \A c, k : InChain(c, k)' <=> InChain(c, k) \/ (c = b /\ k = "revert")
  <2>1. /\ spec' \in SpecRecord /\ spec'.text = spec.text /\ Current' = en.to
        /\ spec'.state = spec.state /\ spec'.chain # <<>>
        /\ spec'.chain[Len(spec'.chain)] = en
        /\ \A c, k : InChain(c, k)' <=> InChain(c, k) \/ (c = en.block /\ k = en.kind)
      BY <1>4, <1>7, <1>8, ChainedIs
  <2>. QED BY ONLY <1>7, <2>1, Zenon
<1>10. AllSame
    BY <1>2, <1>4, TouchedAre
<1>11. Amends("unchained", b)'
  <2>1. InChain(b, "revert")' /\ Current' = spec'.text
      BY <1>9
  <2>. QED BY <2>1 DEF Amends, Proving, Recording
<1>12. RepairIsTrue(b)'
  <2>1. repair'[b] = repair[b] /\ RepairIsTrue(b)
      BY <1>2, <1>4
  <2>2. /\ InChain(b, "apply")' <=> InChain(b, "apply")
        /\ InChain(b, "revert") => InChain(b, "revert")'
      BY <1>9
  <2>3. \A q \in Passer : worker[q].at \notin Recording
      BY <1>2, <1>4 DEF Recording, Amending
  <2>4. CutAt(b, Recording)' <=> CutAt(b, Recording)
      BY <1>2 DEF CutAt
  <2>. QED BY <2>1, <2>2, <2>3, <2>4 DEF RepairIsTrue
<1>13. /\ UNCHANGED <<owner, raises, capped>> /\ standing' \subseteq Halt
       /\ spec' \in [text : Nat, chain : Seq(EntryRecord), state : Nat]
       /\ repair' \in [Halt -> RepairRecord] /\ \A c \in Halt \ {b} : repair'[c] = repair[c]
       /\ w.at \in Amending
    BY <1>2, <1>4, <1>5, <1>9 DEF World, SpecRecord, Amending
<1>14. w.at \in Amending => w.block = b /\ Amends(w.at, b)'
    BY <1>5, <1>11
<1>15. \A c \in Halt \ {b} : \A k : InChain(c, k)' <=> InChain(c, k)
    BY <1>9
<1>16. SpecIsAccounted'
  <2>1. Current = spec.state
      BY <1>4 DEF Amends
  <2>2. SpecInOrder'
      BY <1>7, <1>9, <2>1 DEF SpecInOrder
  <2>. QED BY <1>4, <1>5, <1>13, <2>2, OrderedIs
<1>17. upsets' \in Nat /\ cut \subseteq cut' /\ cut' \subseteq Halt \X Amending
    BY <1>2, BoundsRest
<1>. QED BY <1>1, <1>4, <1>5, <1>10, <1>12, <1>13, <1>14, <1>15, <1>16, <1>17, AmendActs

LEMMA RevertsState ==
    ASSUME DoubleDownAssumption, DdInv, NEW p \in Passer, StateReverted(p)
    PROVE  DdInv'
<1>1. PICK b : b = worker[p].block
    OBVIOUS
<1>2. /\ worker[p].at = "unchained" /\ RunTouched /\ Go(p, "reverted")
      /\ spec' = [spec EXCEPT !.state = spec.text]
      /\ UNCHANGED <<World, repair, capped, bounds, cut>>
    BY <1>1 DEF StateReverted, WorkerAt
<1>3. "unchained" \in Amending
    BY DEF Amending
<1>4. /\ b \in Halt /\ Free(p, b) /\ repair \in [Halt -> RepairRecord]
      /\ repair[b] \in RepairRecord /\ worker \in [Passer -> WorkerRecord]
      /\ dossier \in [Halt -> DossierRecord] /\ standing \subseteq Halt
      /\ spec \in SpecRecord /\ worker[p].at \in Amending
      /\ \A q \in Passer \ {p} : worker[q].at \notin Amending
      /\ Amends("unchained", b) /\ RepairIsTrue(b)
    BY <1>1, <1>2, <1>3, Amender
<1>5. PICK w \in WorkerRecord : /\ worker' = [worker EXCEPT ![p] = w]
                                /\ w.at = "reverted" /\ w.block = b
    BY <1>1, <1>2, <1>4, GoIs DEF Holding, Amending
<1>6. spec' \in SpecRecord /\ spec'.chain = spec.chain /\ spec'.text = spec.text
      /\ spec'.state = spec.text
  <2>1. spec.text \in Nat
      BY <1>4, SpecFields
  <2>2. spec'.text = spec.text /\ spec'.state = spec.text
      BY <1>2, <1>4 DEF SpecRecord
  <2>. QED BY <1>2, <1>4, <2>1, <2>2, TextIs
<1>7. Current' = Current /\ \A c, k : InChain(c, k)' <=> InChain(c, k)
    BY <1>6, ChainStays
<1>8. AllSame
    BY <1>2, <1>4, TouchedAre
<1>9. Amends("reverted", b)'
  <2>1. Current = spec.text /\ InChain(b, "revert")
      BY <1>4 DEF Amends
  <2>2. Consistent' /\ InChain(b, "revert")'
      BY <1>6, <1>7, <2>1 DEF Consistent
  <2>. QED BY <2>2 DEF Amends, Proving, Recording
<1>10. RepairIsTrue(b)'
  <2>1. repair'[b] = repair[b] /\ RepairIsTrue(b)
      BY <1>2, <1>4
  <2>2. \A q \in Passer : worker[q].at \notin Recording
      BY <1>2, <1>4 DEF Recording, Amending
  <2>3. CutAt(b, Recording)' <=> CutAt(b, Recording)
      BY <1>2 DEF CutAt
  <2>. QED BY <1>7, <2>1, <2>2, <2>3 DEF RepairIsTrue
<1>11. /\ UNCHANGED <<owner, raises, capped>> /\ standing' \subseteq Halt
       /\ spec' \in [text : Nat, chain : Seq(EntryRecord), state : Nat]
       /\ repair' \in [Halt -> RepairRecord] /\ \A c \in Halt \ {b} : repair'[c] = repair[c]
       /\ w.at \in Amending
    BY <1>2, <1>4, <1>5, <1>6 DEF World, SpecRecord, Amending
<1>12. w.at \in Amending => w.block = b /\ Amends(w.at, b)'
    BY <1>5, <1>9
<1>13. SpecIsAccounted'
  <2>1. Current = spec.text
      BY <1>4 DEF Amends
  <2>2. SpecInOrder'
      BY <1>6, <1>7, <2>1 DEF SpecInOrder
  <2>. QED BY <1>4, <1>5, <1>11, <2>2, OrderedIs
<1>14. upsets' \in Nat /\ cut \subseteq cut' /\ cut' \subseteq Halt \X Amending
    BY <1>2, BoundsRest
<1>. QED BY <1>1, <1>4, <1>5, <1>7, <1>8, <1>10, <1>11, <1>12, <1>13, <1>14, AmendActs

LEMMA RecordsReverted ==
    ASSUME DoubleDownAssumption, DdInv, NEW p \in Passer, Reverted(p)
    PROVE  DdInv'
<1>1. PICK b : b = worker[p].block
    OBVIOUS
<1>2. /\ worker[p].at = "reverted" /\ Returns(p) /\ FilesBeside(b)
      /\ repair' = [repair EXCEPT ![b].reversed = TRUE]
      /\ UNCHANGED <<World, spec, capped, bounds, cut>>
    BY <1>1 DEF Reverted, WorkerAt
<1>3. "reverted" \in Amending
    BY DEF Amending
<1>4. /\ b \in Halt /\ Free(p, b) /\ repair \in [Halt -> RepairRecord]
      /\ repair[b] \in RepairRecord /\ worker \in [Passer -> WorkerRecord]
      /\ dossier \in [Halt -> DossierRecord] /\ standing \subseteq Halt
      /\ spec \in SpecRecord /\ worker[p].at \in Amending
      /\ \A q \in Passer \ {p} : worker[q].at \notin Amending
      /\ Amends("reverted", b) /\ RepairIsTrue(b)
    BY <1>1, <1>2, <1>3, Amender
<1>5. PICK r : r = [repair[b] EXCEPT !.reversed = TRUE]
    OBVIOUS
<1>6. /\ r \in RepairRecord /\ repair' = [repair EXCEPT ![b] = r]
      /\ r.applied = repair[b].applied /\ r.verified = repair[b].verified
      /\ r.proofs = repair[b].proofs /\ r.attempts = repair[b].attempts
  <2>1. r \in RepairRecord
      BY <1>4, <1>5, RepairFields
  <2>2. repair' = [repair EXCEPT ![b] = r]
      BY <1>2, <1>5
  <2>3. /\ r.applied = repair[b].applied /\ r.verified = repair[b].verified
        /\ r.proofs = repair[b].proofs /\ r.attempts = repair[b].attempts
      BY <1>4, <1>5 DEF RepairRecord
  <2>. QED BY <2>1, <2>2, <2>3
<1>7. /\ repair' \in [Halt -> RepairRecord] /\ repair'[b] = r
      /\ \A c \in Halt \ {b} : repair'[c] = repair[c]
    BY <1>4, <1>6
<1>8. PICK w \in WorkerRecord : worker' = [worker EXCEPT ![p] = w] /\ w.at \in {"idle", "pass"}
    BY <1>2, <1>4, ReturnsIs
<1>9. /\ spec' = spec /\ standing' \subseteq Halt /\ w.at \notin Amending
      /\ UNCHANGED <<owner, raises, capped>>
      /\ spec' \in [text : Nat, chain : Seq(EntryRecord), state : Nat]
    BY <1>2, <1>4, <1>8 DEF World, SpecRecord, Amending
<1>10. Current' = Current /\ \A c, k : InChain(c, k)' <=> InChain(c, k)
    BY <1>9, ChainStays
<1>11. AllSame
    BY <1>2, <1>4, BesideAre
<1>12. Consistent' /\ RepairIsTrue(b)'
  <2>1. Consistent /\ InChain(b, "revert") /\ RepairIsTrue(b)
      BY <1>4 DEF Amends
  <2>2. Consistent'
      BY <1>9, <1>10, <2>1 DEF Consistent
  <2>3. \A q \in Passer : worker[q].at \notin Recording
      BY <1>2, <1>4 DEF Recording, Amending
  <2>4. CutAt(b, Recording)' <=> CutAt(b, Recording)
      BY <1>2 DEF CutAt
  <2>5. RepairIsTrue(b)'
      BY <1>6, <1>7, <1>10, <2>1, <2>3, <2>4 DEF RepairIsTrue
  <2>. QED BY <2>2, <2>5
<1>13. upsets' \in Nat /\ cut \subseteq cut' /\ cut' \subseteq Halt \X Amending
    BY <1>2, BoundsRest
<1>14. SpecIsAccounted'
    BY <1>12, ConsistentIs
<1>. QED BY <1>1, <1>4, <1>7, <1>8, <1>9, <1>10, <1>11, <1>12, <1>13, <1>14, AmendActs

-----------------------------------------------------------------------------
(* The double-down                                                         *)

LEMMA DdStarts ==
    ASSUME DoubleDownAssumption, DdInit
    PROVE  DdInv
<1>1. /\ owner \in {"run", "project"} /\ standing = {} /\ capped = FALSE
      /\ dossier = [b \in Halt |-> NewDossier] /\ repair = [b \in Halt |-> NewRepair]
      /\ spec = [text |-> 0, chain |-> <<>>, state |-> 0]
      /\ worker = [p \in Passer |-> Idle]
      /\ raises = 0 /\ upsets = 0 /\ cut = {}
    BY DEF DdInit, DdInitOf
<1>2. NewDossier \in DossierRecord
  <2>1. Unasked \in [Perspective -> {"none"} \cup Answer] /\ Unfailed \in [Perspective -> Nat]
      BY DEF Unasked, Unfailed
  <2>. QED BY <2>1 DEF NewDossier, DossierRecord
<1>3. NewRepair \in RepairRecord
    BY DEF NewRepair, RepairRecord
<1>4. Idle \in WorkerRecord /\ Idle.at = "idle"
    BY IdleIs
<1>5. DdTypeOK
  <2>1. spec \in [text : Nat, chain : Seq(EntryRecord), state : Nat]
      BY <1>1
  <2>. QED BY <1>1, <1>2, <1>3, <1>4, <2>1 DEF DdTypeOK
<1>6. \A p \in Passer : worker[p].at = "idle"
    BY <1>1, <1>4
<1>7. LockInv
    BY <1>6 DEF LockInv, Works, Holding, Amending
<1>8. VerdictInv
  <2>1. ASSUME NEW b \in Halt PROVE DossierIsFair(dossier[b]) /\ dossier[b].rounds = 0
                                    /\ dossier[b].renewals = 0
    <3>1. dossier[b] = NewDossier
        BY <1>1
    <3>. QED BY <3>1 DEF NewDossier, DossierIsFair
  <2>2. \A p \in Passer : worker[p].at \notin InRounds
      BY <1>6 DEF InRounds
  <2>3. Asking = {}
      BY <1>6 DEF Asking, WorkerAt
  <2>4. Cardinality(Asking) = 0
      BY <2>3, FS_EmptySet
  <2>5. Total(Rounds, Halt) = 0
    <3>1. \A b \in Halt : Rounds[b] = 0
        BY <2>1 DEF Rounds
    <3>. QED BY <3>1, SumOfZeros
  <2>6. Allowance \in Nat
      BY <1>5, SumsAre DEF Grants, Allowance, DdTypeOK
  <2>7. Cardinality(Passer) \in Nat /\ Cardinality(Passer) >= 1
    <3>1. IsFiniteSet(Passer) /\ Passer # {}
        BY DEF DoubleDownAssumption
    <3>2. Cardinality(Passer) \in Nat /\ Cardinality(Passer) # 0
        BY <3>1, FS_CardinalityType, FS_EmptySet
    <3>. QED BY <3>2
  <2>. QED BY <2>1, <2>2, <2>4, <2>5, <2>6, <2>7 DEF VerdictInv
<1>9. FixInv
  <2>1. Current = 0 /\ Consistent
      BY <1>1 DEF Current, Consistent
  <2>2. \A p \in Passer : Amends(worker[p].at, worker[p].block)
      BY <1>6 DEF Amends, Proving, Recording
  <2>3. ASSUME NEW b \in Halt PROVE RepairIsTrue(b)
    <3>1. \A k : ~InChain(b, k)
        BY <1>1 DEF InChain
    <3>2. repair[b] = NewRepair
        BY <1>1
    <3>. QED BY <3>1, <3>2 DEF NewRepair, RepairIsTrue, DoubleDownAssumption
  <2>4. LiftsWhatStands
      BY <1>6 DEF LiftsWhatStands
  <2>5. SpecIsAccounted
      BY <2>1 DEF Consistent, SpecIsAccounted, SpecInOrder
  <2>. QED BY <2>2, <2>3, <2>4, <2>5 DEF FixInv
<1>. QED BY <1>5, <1>7, <1>8, <1>9 DEF DdInv

LEMMA PassStepKeeps ==
    ASSUME DoubleDownAssumption, DdInv, NEW p \in Passer, PassStep(p)
    PROVE  DdInv'
<1>1. CASE StartPass(p) \/ Sweep(p)
    BY <1>1, StartsPass, Sweeps
<1>2. ASSUME NEW b \in Halt,
             \/ Open(p, b) \/ RowRefused(p, b) \/ RowClosed(p, b) \/ RowCloses(p, b)
             \/ RowParked(p, b) \/ ResumeRounds(p, b) \/ RowSpent(p, b) \/ RowWaits(p, b)
             \/ StartRound(p, b)
      PROVE  DdInv'
    BY <1>2, OpensDossier, RefusesRow, RowsClosed, RowsClose, RowsPark, Resumes, RowsSpend,
       StartsRound
<1>3. CASE \E a \in Answer : Reports(p, a)
    BY <1>3, ReportsOne
<1>4. CASE DispatchFails(p) \/ JudgeRound(p) \/ Conclude(p)
    BY <1>4, FailsDispatch, Judges, Concludes
<1>. QED BY <1>1, <1>2, <1>3, <1>4 DEF PassStep

LEMMA RepairStepKeeps ==
    ASSUME DoubleDownAssumption, DdInv, NEW p \in Passer, RepairStep(p)
    PROVE  DdInv'
<1>1. ASSUME NEW b \in Halt, PersonVerifies(p, b) \/ PersonApplies(p, b) \/ Revert(p, b)
      PROVE  DdInv'
    BY <1>1, PersonVerifiesOne, PersonAppliesOne, Reverts
<1>2. CASE VerifySpec(p) \/ SkipVerify(p) \/ ApplyIfDue(p)
    BY <1>2, VerifiesSpec, SkipsVerify, AppliesIfDue
<1>3. ASSUME NEW status \in {"RED", "REFUTED", "INCONCLUSIVE"}, MeasureSpec(p, status)
      PROVE  DdInv'
    BY <1>3, Measures
<1>4. ASSUME NEW proof \in {"PROVEN", "NOT_PROVEN", "INCONCLUSIVE"}, Prove(p, proof)
      PROVE  DdInv'
    BY <1>4, Proves
<1>5. CASE Amend(p) \/ AmendRefused(p) \/ Chain(p) \/ LiftAmended(p) \/ Applied(p)
    BY <1>5, AmendsOne, RefusesAmend, Chains, LiftsAmended, RecordsApplied
<1>6. CASE Unchain(p) \/ StateReverted(p) \/ Reverted(p) \/ WriteFails(p)
    BY <1>6, Unchains, RevertsState, RecordsReverted, WritesFail
<1>. QED BY <1>1, <1>2, <1>3, <1>4, <1>5, <1>6 DEF RepairStep

LEMMA DdStepKeeps ==
    ASSUME DoubleDownAssumption, DdInv, [DdNext]_ddVars
    PROVE  DdInv'
<1>1. ASSUME NEW p \in Passer, PassStep(p) \/ RepairStep(p) \/ Dies(p)
      PROVE  DdInv'
    BY <1>1, PassStepKeeps, RepairStepKeeps, DiesAnywhere
<1>2. ASSUME NEW b \in Halt, Renew(b) \/ Stands(b) \/ Clears(b)
      PROVE  DdInv'
    BY <1>2, Renews, StandsOrClears
<1>3. CASE UNCHANGED ddVars
  <2>1. UNCHANGED <<owner, standing, dossier, repair, spec, capped, worker, raises, upsets,
                    cut>>
      BY <1>3 DEF ddVars
  <2>2. DdTypeOK' /\ LockInv'
      BY <2>1 DEF DdInv, DdTypeOK, LockInv
  <2>3. AllSame
      BY <2>1, Holds, SameHolds DEF AllSame
  <2>4. VerdictInv'
      BY <2>1, <2>2, <2>3, Holds, VerdictRests
  <2>5. FixInv'
      BY <2>1, Holds, FixStill
  <2>. QED BY <2>2, <2>4, <2>5 DEF DdInv
<1>. QED BY <1>1, <1>2, <1>3 DEF DdNext

\* The double-down keeps its locks, its verdicts and its amendments: whatever the owners'
\* blocks, the caps and the number of processes, in every order of passes, commands and
\* deaths (doubledown.py, ddverify.py, ddapply.py).
THEOREM DoubleDownKept == DdSpec => []DdInv
<1>1. DdInit => DdInv
    BY DoubleDownAssumption, DdStarts
<1>2. DdInv /\ [DdNext]_ddVars => DdInv'
    BY DoubleDownAssumption, DdStepKeeps
<1>. QED BY <1>1, <1>2, PTL DEF DdSpec

\* No verdict is taken over a change of the run, no R&D negative is given up before its
\* round, and the rounds of an owner stay within its allowance and the rounds that were
\* under way when it ran out (_run_round, _bound, judge, _owner_usage).
THEOREM VerdictsEarned == DdSpec => []VerdictsAreEarned
<1>1. DdInv => VerdictsAreEarned
  <2>. SUFFICES ASSUME DdInv PROVE VerdictsAreEarned
      OBVIOUS
  <2>1. VerdictsAreClean /\ NoEarlyEnd
      BY Holds DEF VerdictsAreClean, NoEarlyEnd, DossierIsFair
  <2>2. RoundsAreBounded
    <3>1. Total(Rounds, Halt) + Cardinality(Asking) <= Allowance + Cardinality(Passer) - 1
        BY Holds DEF VerdictInv
    <3>2. Cardinality(Asking) \in Nat /\ Cardinality(Passer) \in Nat
        BY DoubleDownAssumption, AskersAre DEF Asking
    <3>3. Total(Rounds, Halt) \in Nat /\ Allowance \in Nat
        BY DoubleDownAssumption, Holds, SumsAre DEF Rounds, Grants, Allowance
    <3>. QED BY <3>1, <3>2, <3>3 DEF RoundsAreBounded
  <2>. QED BY <2>1, <2>2 DEF VerdictsAreEarned
<1>. QED BY <1>1, DoubleDownKept, PTL

\* The text, the chain and the digest of a specification are replaced in this order, and one
\* amendment at a time, whatever dies and whichever write fails; when nobody amends, what they
\* differ in was cut off just there.  What is recorded as applied is in the chain, was measured
\* red and proven, and what is in the chain is recorded or was cut off; a correction lifts a
\* block that still stands (_amend_and_unblock, revert, apply_if_due).
THEOREM FixesEarned == DdSpec => []FixesAreEarned
<1>1. DdInv => FixesAreEarned
  <2>. SUFFICES ASSUME DdInv PROVE FixesAreEarned
      OBVIOUS
  <2>1. FixInv
      BY Holds
  <2>2. SpecIsAccounted /\ LiftsWhatStands
      BY <2>1 DEF FixInv
  <2>3. \A b \in Halt : RepairIsTrue(b)
      BY <2>1 DEF FixInv
  <2>4. ApplicationsAreTrue
      BY <2>3 DEF ApplicationsAreTrue, RepairIsTrue, Recording
  <2>. QED BY <2>2, <2>4 DEF FixesAreEarned
<1>. QED BY <1>1, DoubleDownKept, PTL
=============================================================================
