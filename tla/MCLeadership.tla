---------------------------- MODULE MCLeadership ----------------------------
(* Two sessions; the bounds of the configuration suffice.                 *)
EXTENDS Leadership
=============================================================================
