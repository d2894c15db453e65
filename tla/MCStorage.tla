------------------------------ MODULE MCStorage ------------------------------
(* Two items: duplicates of each other, a duplicate of a clone, or a clone  *)
(* and an extract root.  Two stewards and one disturbance, or one steward   *)
(* and two.                                                                 *)
EXTENDS Relocation, TLC
CONSTANTS x, y, first
VARIABLE alone

MCPartner == (x :> y) @@ (y :> x)
MCInit ==
    /\ RelocInit
    /\ <<kind[x], kind[y]>> \in
          {<<"duplicate", "duplicate">>, <<"duplicate", "git">>, <<"git", "extract">>}
    /\ retention \in IF kind[x] = "duplicate" THEN {{}, {y}} ELSE {{}}
    /\ alone \in BOOLEAN
MCNext == /\ RelocNext /\ UNCHANGED alone
          /\ alone => \A p \in Steward : p # first => pass'[p] = pass[p]
          /\ ~alone => events' <= 1
MCSpec == MCInit /\ [][MCNext]_<<relocVars, alone>> /\ RelocFairness
=============================================================================
