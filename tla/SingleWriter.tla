---------------------------- MODULE SingleWriter ----------------------------
(***************************************************************************)
(* What the lease of a worktree promises (src/hoh/wslease.py, the module   *)
(* docstring): one writer at a time, and whoever becomes the writer finds  *)
(* nothing in the tree that is not its own run's, so no commit sweeps up   *)
(* another run's unverified work.                                          *)
(***************************************************************************)
CONSTANTS Proc,      \* controller processes
          Run,       \* run ids
          RunOf      \* the run each process drives

VARIABLES writers,   \* the processes that may write the worktree
          work,      \* the runs whose uncommitted work is in it
          log        \* the commits: who made it, whose work it carries

vars == <<writers, work, log>>

Init == writers = {} /\ work = {} /\ log = {}

Take(p) == /\ writers = {} /\ work \subseteq {RunOf[p]}
           /\ writers' = {p} /\ UNCHANGED <<work, log>>

Write(p) == /\ p \in writers
            /\ work' = work \cup {RunOf[p]} /\ UNCHANGED <<writers, log>>

Commit(p) == /\ p \in writers
             /\ log' = log \cup {[by |-> RunOf[p], of |-> work]}
             /\ work' = {} /\ UNCHANGED writers

Give(p) == /\ p \in writers
           /\ writers' = {} /\ UNCHANGED <<work, log>>

Next == \E p \in Proc : Take(p) \/ Write(p) \/ Commit(p) \/ Give(p)

Spec == Init /\ [][Next]_vars
=============================================================================
