-------------------------------- MODULE Sums --------------------------------
(***************************************************************************)
(* Sums of a function of naturals over a finite set.  A sum is the number  *)
(* of its units, the pairs of a member and one of the numbers up to its    *)
(* value, and not a fold, so that what becomes of it when one summand      *)
(* changes follows from facts about finite sets.                           *)
(***************************************************************************)
EXTENDS Naturals, FiniteSets

Units(f, S) == UNION {{x} \X (1..f[x]) : x \in S}
Total(f, S) == Cardinality(Units(f, S))
=============================================================================
