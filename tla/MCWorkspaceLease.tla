-------------------------- MODULE MCWorkspaceLease --------------------------
(* Three processes, two of them of one run id (the same id under two roots), *)
(* placed in pid namespaces of one machine.                                  *)
EXTENDS WorkspaceLease

CONSTANTS p1, p2, p3, r1, r2, h1

MCProc    == {p1, p2, p3}
MCRun     == {r1, r2}
TwoRuns   == [p \in MCProc |-> IF p = p3 THEN r2 ELSE r1]

\* One machine; p3 runs in a container of its own.
OneHost   == {h1}
AllOnOne  == [p \in MCProc |-> h1]
Container == [p \in MCProc |-> IF p = p3 THEN 1 ELSE 0]
=============================================================================
