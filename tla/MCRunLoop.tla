------------------------------ MODULE MCRunLoop ------------------------------
(* Small instances of RunLoop for TLC. *)
EXTENDS RunLoop

CONSTANTS c1, c2

OneCriterion == {c1}
TwoCriteria == {c1, c2}
NothingSatisfied == {}
=============================================================================
