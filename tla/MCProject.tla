------------------------------ MODULE MCProject ------------------------------
(* Two tasks, the second of which needs the first, one repair node and two   *)
(* sessions; or the first task alone, which leaves more to go wrong.         *)
EXTENDS ProjectLoop, TLC

CONSTANTS First, Second

OneAfterTheOther == [t \in Task |-> IF t = Second THEN {First} ELSE {}]

MCInit == ProjInitWith({First, Second}, 1) \/ ProjInitWith({First}, 0)
MCSpec == MCInit /\ [][ProjNext]_projVars

Sessions == Permutations(Ctl)
=============================================================================
