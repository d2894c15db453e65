------------------------------ MODULE MCMachine ------------------------------
(***************************************************************************)
(* What the programs of one machine share: storage admission, the sessions *)
(* of a project with its driver lease and its workspaces, and the lease of *)
(* a run; and what one of them does to its roles: a dispatch, the seal of  *)
(* the arena QA judges, and the end of a developer's processes.  They do   *)
(* not act on one another; a behaviour is about one of them, its focus,    *)
(* and the others rest.                                                    *)
(***************************************************************************)
EXTENDS Admission, Sessions, RunLease, Dispatch, Seals, Quiescence
CONSTANT Foci
VARIABLE focus

MCHostOf == [d \in Driver |-> IF d = "r" THEN "k" ELSE "h"]
MCSpaceOf == MCHostOf

\* Process 1 is always pid 7 on the host, whose reservations are small and readable.
AdmFocus ==
    /\ AdmNext
    /\ proc'[1].pid # 8 /\ proc'[1].ns # "box"
    /\ \A r \in Id : file'[r].pid = 7 => file'[r].start # Unreadable /\ file'[r].est < 4
DriveFocus == UNCHANGED scratch /\ SessNext
ScratchFocus ==
    /\ UNCHANGED driving /\ SessNext
    /\ \A p \in Proc : step'[p].at # "checked"

roleVars == <<dispVars, sealVars, quietVars>>
MCInit ==
    /\ AdmInit /\ SessInit /\ LeaseInit /\ DispInit /\ SealInit /\ QuietInit
    /\ focus \in Foci
MCNext ==
    /\ UNCHANGED focus
    /\ \/ focus = "admission" /\ AdmFocus /\ UNCHANGED <<sessVars, leaseVars, roleVars>>
       \/ focus = "drive" /\ DriveFocus /\ UNCHANGED <<admVars, leaseVars, roleVars>>
       \/ focus = "scratch" /\ ScratchFocus /\ UNCHANGED <<admVars, leaseVars, roleVars>>
       \/ focus = "lease" /\ LeaseNext /\ UNCHANGED <<admVars, sessVars, roleVars>>
       \/ /\ focus = "dispatch" /\ DispNext
          /\ UNCHANGED <<admVars, sessVars, leaseVars, sealVars, quietVars>>
       \/ /\ focus = "seal" /\ SealNext
          /\ UNCHANGED <<admVars, sessVars, leaseVars, dispVars, quietVars>>
       \/ /\ focus = "quiet" /\ QuietNext
          /\ UNCHANGED <<admVars, sessVars, leaseVars, dispVars, sealVars>>
MCSpec == MCInit /\ [][MCNext]_<<admVars, sessVars, leaseVars, roleVars, focus>>
=============================================================================
