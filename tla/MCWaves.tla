------------------------------- MODULE MCWaves -------------------------------
(* Two sessions, two nodes: a task that leaves a reserve, and a repair. *)
EXTENDS Waves

MCKeep == <<1, 0>>
=============================================================================
