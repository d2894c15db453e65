------------------------------ MODULE MCBlocks ------------------------------
(***************************************************************************)
(* A run's undisturbed iterations, and the double-down on the blocks such  *)
(* a run or a project ends up with.  They do not act on one another; a     *)
(* behaviour is about one of them, its focus, and the other rests.         *)
(*   iterations  two criteria, three iterations, no event                  *)
(*   rounds      one negative of a run, which may come back                *)
(*   tiers       blocks of a run without rounds, one after the other       *)
(*   owner       a plain block and a negative at once, in a project; the   *)
(*               analysts find nothing                                     *)
(*   repair      a block with a proposal, measured, proven and applied     *)
(***************************************************************************)
EXTENDS RunLoop, DoubleDown, TLC

CONSTANTS c1, c2, Foci
VARIABLE focus

TwoCriteria == {c1, c2}
NothingSatisfied == {}
MCTiers == [h \in Halt |->
    CASE h = "plain" -> {"HARD", "TRIVIAL"} [] h = "negative" -> {"RND"}
      [] h = "timed" -> {"WAIT"} [] OTHER -> {"HUMAN"}]
MCRoundCap == [t \in HasRounds |-> IF t = "HARD" THEN 2 ELSE 3]
MCUnsolvableFrom == [t \in HasRounds |-> 2]

\* A block whose first round ended in a proposal.
ProposalInit ==
    /\ owner = "run" /\ standing = {"plain"} /\ capped = FALSE
    /\ dossier = [h \in Halt |-> IF h # "plain" THEN NewDossier ELSE
         [NewDossier EXCEPT !.open = TRUE, !.tier = "HARD", !.rounds = 1, !.last = "FRUITFUL",
                            !.outcome = "PROPOSAL"]]
    /\ \E what \in {"spec", "fix"} :
         repair = [h \in Halt |-> IF h # "plain" THEN NewRepair ELSE
                                  [NewRepair EXCEPT !.carries = what]]
    /\ spec = [text |-> 0, chain |-> <<>>, state |-> 0]
    /\ worker = [p \in Passer |-> Idle]
    /\ raises = 0 /\ upsets = 0 /\ cut = {}

MCInit ==
    /\ focus \in Foci
    /\ Init
    /\ CASE focus = "repair" -> ProposalInit [] focus = "owner" -> DdInitOf("project")
         [] OTHER -> DdInitOf("run")

RoundsNext ==
    /\ DdNext /\ \A p \in Passer : worker'[p].by # "person"
    /\ \A h \in Halt : repair'[h].carries \in {"none", "note"}
AnalystsNext == RoundsNext /\ standing' \subseteq {"negative"}
TiersNext ==
    /\ RoundsNext /\ upsets' < 2 /\ "negative" \notin standing'
    /\ \A h \in Halt : dossier'[h].tier # "HARD"
OwnerNext ==
    /\ RoundsNext /\ standing' \subseteq {"plain", "negative"} /\ upsets' < 2
    /\ \A h \in Halt : /\ \A r \in Perspective : dossier'[h].reports[r] \in {"none", "open"}
                       /\ dossier'[h].tier # "TRIVIAL"
RepairNext ==
    /\ DdNext
    /\ \A h \in Halt : /\ dossier'[h].rounds = dossier[h].rounds
                       /\ h # "plain" => ~dossier'[h].open
MCNext ==
    /\ UNCHANGED focus
    /\ \/ focus = "iterations" /\ Next /\ UNCHANGED ddVars
       \/ focus = "rounds" /\ AnalystsNext /\ UNCHANGED vars
       \/ focus = "tiers" /\ TiersNext /\ UNCHANGED vars
       \/ focus = "owner" /\ OwnerNext /\ UNCHANGED vars
       \/ focus = "repair" /\ RepairNext /\ UNCHANGED vars
MCSpec == MCInit /\ [][MCNext]_<<vars, ddVars, focus>>

Workers == Permutations(Passer)
=============================================================================
