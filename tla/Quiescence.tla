----------------------------- MODULE Quiescence -----------------------------
(***************************************************************************)
(* The end of a developer's turn: its pane is closed and what it left      *)
(* running is ended before the candidate is frozen (dispatchers.py,        *)
(* _close_and_end_processes; procs.py).  A pane's processes are told by    *)
(* structure, from the pane's own shell down; a mark in their environment  *)
(* only tells what got away.  The processes fork, leave the session, clear *)
(* their environment and exit at any time, and also while the table is     *)
(* looked at: a look lists the pids and then reads one after the other, in *)
(* the order the directory gives them (ProcTable.snapshot), so what it     *)
(* sees is a state the table may never have been in.                       *)
(***************************************************************************)
EXTENDS Naturals

CONSTANTS Procs,        \* processes the role may have, a number each; 1 is the pane's shell
          Rounds, MaxFailures

ASSUME QuietAssumption ==
    /\ 1 \in Procs /\ Procs \subseteq Nat \ {0, 1000}
    /\ Rounds \in Nat \ {0} /\ MaxFailures \in Nat

VARIABLES
    table,      \* the processes: alive, parent, session, mark
    paneOpen,
    ender,      \* where the controller is, and what its scan found
    looking,    \* it is reading the table
    listed,     \* the pids the last look listed
    unread,     \* those of them it has still to read
    view,       \* what it read of each
    paneSeen,   \* whether the pane was there when the look began
    anchored,   \* history: who was in the shell's tree when the scan began, and their forks
    ended,      \* history: whom the controller signalled
    endFailures

lookVars == <<looking, listed, unread, view, paneSeen>>
quietVars == <<table, paneOpen, ender, lookVars, anchored, ended, endFailures>>

Shell == 1
Server == 0         \* Herdr, the shell's parent
Orphaned == 1000      \* the subreaper an orphan gets
Unborn == [alive |-> FALSE, born |-> FALSE, parent |-> Orphaned, session |-> 0, mark |-> FALSE]
Nothing == [p \in Procs |-> Unborn]

QuietInit ==
    /\ table = [Nothing EXCEPT ![Shell] = [alive |-> TRUE, born |-> TRUE, parent |-> Server,
                                          session |-> Shell, mark |-> TRUE]]
    /\ paneOpen = TRUE
    /\ ender = [pc |-> "turn", members |-> {}, escaped |-> {}, problem |-> FALSE,
                round |-> 0, told |-> {}, killed |-> {}]
    /\ looking = FALSE /\ listed = {} /\ unread = {} /\ view = Nothing /\ paneSeen = FALSE
    /\ anchored = {} /\ ended = {} /\ endFailures = 0

Stage(pc) == ender.pc = pc
Failure == endFailures < MaxFailures /\ endFailures' = endFailures + 1
NoFailure == UNCHANGED endFailures

\* Who is who in a table t: the processes now, or what a look read of them.
LiveIn(t) == {p \in Procs : t[p].alive}
MarkedIn(t) == {p \in LiveIn(t) : t[p].mark}
SessionIn(t) == {p \in LiveIn(t) : t[p].session = Shell}
\* The closure of a set under "is the parent of", among the living: what every set has
\* that has S and the children of its own.
HasItsChildren(t, T) == \A p \in LiveIn(t) : t[p].parent \in T => p \in T
Below(t, S) ==
    {p \in Procs : \A T \in SUBSET Procs : S \subseteq T /\ HasItsChildren(t, T) => p \in T}
\* scan: the shell's session and every descendant, by structure.
TreeIn(t) == Below(t, SessionIn(t))
\* Mutant: the mark makes a member.
MembersByMark(t) == Below(t, (ender.members \cap LiveIn(t)) \cup MarkedIn(t))
\* _members, once the shell is gone: who was one, who is marked in its session, and below.
MembersIn(t) ==
    Below(t, (ender.members \cap LiveIn(t)) \cup (MarkedIn(t) \cap SessionIn(t)))
LiveProcs == LiveIn(table)
Marked == MarkedIn(table)

-----------------------------------------------------------------------------
(* A look at the table (ProcTable.snapshot)                                *)

LooksAt == {"turn", "term", "kill", "prove"}
\* The pids are listed; before the scan the panes were.
BeginLook ==
    /\ ender.pc \in LooksAt /\ ~looking /\ NoFailure
    /\ looking' = TRUE /\ listed' = LiveProcs /\ unread' = LiveProcs /\ paneSeen' = paneOpen
    /\ anchored' = IF Stage("turn") THEN TreeIn(table) ELSE anchored
    /\ UNCHANGED <<table, paneOpen, ender, view, ended>>
\* One process is read, as it is by now; one that is gone leaves nothing.
ReadProc(p) ==
    /\ looking /\ p \in unread /\ NoFailure
    /\ unread' = unread \ {p}
    /\ view' = IF table[p].alive THEN [view EXCEPT ![p] = table[p]] ELSE view
    /\ UNCHANGED <<table, paneOpen, ender, looking, listed, paneSeen, anchored, ended>>
\* The table cannot be read: the release is refused, before the close and after it.
LookFails ==
    /\ ender.pc \in LooksAt /\ ~looking /\ Failure
    /\ ender' = IF Stage("turn") THEN [ender EXCEPT !.pc = "close", !.problem = TRUE]
                ELSE [ender EXCEPT !.pc = "refused"]
    /\ UNCHANGED <<table, paneOpen, lookVars, anchored, ended>>
\* What was read is judged, and forgotten but for the pids.
Looked(pc) ==
    /\ Stage(pc) /\ looking /\ unread = {}
    /\ looking' = FALSE /\ view' = Nothing /\ paneSeen' = FALSE /\ UNCHANGED <<listed, unread>>

-----------------------------------------------------------------------------
(* The controller                                                          *)

\* _scan_processes: what the pane holds before it is closed.  Without exactly one marked
\* shell nothing can be told; a pane that is gone has only marked leftovers.
Scan ==
    /\ Looked("turn") /\ NoFailure /\ UNCHANGED <<table, paneOpen, anchored, ended>>
    /\ \/ /\ paneSeen /\ Shell \in MarkedIn(view)
          /\ ender' = [ender EXCEPT !.pc = "close", !.members = TreeIn(view),
                                    !.escaped = MarkedIn(view) \ TreeIn(view)]
       \/ /\ paneSeen /\ Shell \notin MarkedIn(view)
          /\ ender' = [ender EXCEPT !.pc = "close", !.problem = TRUE]
       \/ /\ ~paneSeen
          /\ ender' = [ender EXCEPT !.pc = "close", !.problem = MarkedIn(view) # {}]

\* The shell ends with its pane, and its children lose their parent.
WithoutProcs(S) ==
    [p \in Procs |-> [table[p] EXCEPT !.alive = @ /\ p \notin S,
                                      !.parent = IF @ \in S THEN Orphaned ELSE @]]
ClosePane ==
    /\ Stage("close") /\ UNCHANGED <<lookVars, anchored, ended>>
    /\ \/ /\ paneOpen' = FALSE /\ table' = WithoutProcs({Shell}) /\ NoFailure
          /\ \/ ender.problem /\ ender' = [ender EXCEPT !.pc = "refused"]
             \/ ~ender.problem /\ ender.members = {} /\ ender' = [ender EXCEPT !.pc = "closed"]
             \/ ~ender.problem /\ ender.members # {} /\ ender' = [ender EXCEPT !.pc = "term"]
       \/ /\ Failure /\ ender' = [ender EXCEPT !.pc = "refused"]
          /\ UNCHANGED <<table, paneOpen>>

\* end: one round of SIGTERM, a wait, and SIGKILL for whoever is left of those told.  A signal
\* reaches the process that was seen, if it still runs.
Fresh == MembersIn(view) \ ender.killed
Terminate ==
    /\ Looked("term") /\ NoFailure /\ UNCHANGED <<table, paneOpen, anchored>>
    /\ IF Fresh # {}
       THEN /\ ender' = [ender EXCEPT !.pc = "kill", !.told = Fresh \cap LiveProcs]
            /\ ended' = ended \cup (Fresh \cap LiveProcs)
       ELSE ender' = [ender EXCEPT !.pc = "prove"] /\ UNCHANGED ended
Left == ender.told \cap MembersIn(view) \cap LiveProcs
Kill ==
    /\ Looked("kill") /\ UNCHANGED <<paneOpen, anchored, ended>>
    /\ \E stuck \in SUBSET Left :
         /\ IF stuck = {} THEN NoFailure ELSE Failure
         /\ table' = WithoutProcs(Left \ stuck)
    /\ ender' = [ender EXCEPT !.pc = IF ender.round + 1 < Rounds THEN "term" ELSE "prove",
                              !.round = @ + 1, !.killed = @ \cup Left, !.told = {}]

\* Mutant: a signal that was sent is an end.
ProveNothing ==
    /\ Looked("prove") /\ NoFailure /\ UNCHANGED <<table, paneOpen, anchored, ended>>
    /\ ender' = [ender EXCEPT !.pc = IF ender.escaped = {} THEN "closed" ELSE "refused"]
\* The last look: who survives, and who is marked and not to be told.
Prove ==
    /\ Looked("prove") /\ NoFailure /\ UNCHANGED <<table, paneOpen, anchored, ended>>
    /\ ender' = [ender EXCEPT !.pc =
                   IF MembersIn(view) = {} /\ MarkedIn(view) = {} /\ ender.escaped = {}
                   THEN "closed" ELSE "refused"]

-----------------------------------------------------------------------------
(* The processes (external)                                                *)

Untouched == UNCHANGED <<paneOpen, ender, lookVars, ended>> /\ NoFailure
Fork(p, q) ==
    /\ table[p].alive /\ ~table[q].born /\ \A r \in Procs : r < q => table[r].born
    /\ table' = [table EXCEPT ![q] = [table[p] EXCEPT !.parent = p]]
    /\ anchored' = IF p \in anchored THEN anchored \cup {q} ELSE anchored
    /\ Untouched
Detach(p) ==
    /\ table[p].alive /\ p # Shell /\ table[p].session # p
    /\ table' = [table EXCEPT ![p].session = p] /\ Untouched /\ UNCHANGED anchored
Scrub(p) ==
    /\ table[p].mark /\ table[p].alive
    /\ table' = [table EXCEPT ![p].mark = FALSE] /\ Untouched /\ UNCHANGED anchored
Exit(p) ==
    /\ table[p].alive /\ table' = WithoutProcs({p})
    /\ paneOpen' = (paneOpen /\ p # Shell)
    /\ UNCHANGED <<ender, lookVars, ended, anchored>> /\ NoFailure

QuietNext ==
    \/ BeginLook \/ LookFails \/ Scan \/ ClosePane \/ Terminate \/ Kill \/ Prove
    \/ \E p \in Procs :
         ReadProc(p) \/ Detach(p) \/ Scrub(p) \/ Exit(p) \/ \E q \in Procs : Fork(p, q)
QuietSpec == QuietInit /\ [][QuietNext]_quietVars

-----------------------------------------------------------------------------
(* Properties                                                              *)

\* When a developer's turn is reported closed, no process the scan found in the pane runs any
\* more, and no process carries the mark but one that was forked while the last look was
\* being read.  Each was read at a moment of its own, and went on forking, leaving and
\* shedding its mark while the others were read (RoleNotQuiescent, controller.py:3597).
FrozenIsQuiet ==
    [][~Stage("closed") /\ ender'.pc = "closed" =>
          ender.members \cap LiveProcs' = {} /\ Marked' \cap listed = {}]_quietVars

\* Only processes of the pane's own tree are signalled: a daemon that had left it before the
\* scan, marked or not, is named and let live (procs.py:1-52).
SignalsItsOwn == ended \subseteq anchored

-----------------------------------------------------------------------------
(* Why it is so: an invariant that every step keeps                        *)

EnderPcs == {"turn", "close", "term", "kill", "prove", "closed", "refused"}
ProcRecord ==
    [alive : BOOLEAN, born : BOOLEAN, parent : Procs \cup {Server, Orphaned},
     session : Procs \cup {0}, mark : BOOLEAN]
EnderRecord ==
    [pc : EnderPcs, members : SUBSET Procs, escaped : SUBSET Procs, problem : BOOLEAN,
     round : 0..Rounds, told : SUBSET Procs, killed : SUBSET Procs]
TableInv ==
    /\ table \in [Procs -> ProcRecord] /\ ender \in EnderRecord
    /\ table[Shell].session = Shell /\ table[Shell].born
    /\ \A p \in Procs : /\ table[p].alive => table[p].born
                        /\ table[p].parent \in Procs => table[table[p].parent].born

\* What a look read of a process was so once: who it shows to be below the anchored, or in
\* their session, is one of them; and who it shows to be gone or unmarked stays so.
SeenAs(p) ==
    /\ view[p].alive => /\ view[p].session = Shell => p \in anchored
                        /\ view[p].parent \in anchored => p \in anchored
                        /\ view[p].parent \in Procs => table[view[p].parent].born
    /\ looking /\ p \in listed \ unread /\ table[p].alive =>
          view[p].alive /\ (table[p].mark => view[p].mark)
ViewInv ==
    /\ view \in [Procs -> ProcRecord] /\ unread \subseteq listed /\ listed \subseteq Procs
    /\ ~looking => view = Nothing /\ unread = {}
    /\ \A p \in listed : table[p].born
    /\ \A p \in Procs : SeenAs(p)
    /\ looking => ender.members \cap LiveProcs \subseteq listed
    /\ view[Shell].alive => view[Shell].session = Shell

\* From the scan to the last look the anchored hold the session and all their children.
Surveyed ==
    \/ looking
    \/ ender.pc \in {"close", "term", "kill", "prove"} /\ ~ender.problem
AnchorInv ==
    /\ anchored \subseteq {p \in Procs : table[p].born}
    /\ Surveyed => /\ SessionIn(table) \subseteq anchored
                   /\ HasItsChildren(table, anchored)
                   /\ ender.members \subseteq anchored
    /\ SignalsItsOwn
EndInv ==
    /\ Stage("turn") => ended = {} /\ ender.members = {}
    /\ looking => ender.pc \in LooksAt
    /\ ender.pc \in {"term", "kill", "prove"} => ~ender.problem
    /\ ender.pc \in {"turn", "close", "term", "kill"} => ender.round < Rounds
    /\ Stage("close") /\ ~ender.problem /\ ender.members = {} => Marked \cap listed = {}

QuietInv == TableInv /\ ViewInv /\ AnchorInv /\ EndInv
=============================================================================
