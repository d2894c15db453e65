--------------------------- MODULE WorkspaceLease ---------------------------
(***************************************************************************)
(* The lease of a worktree: src/hoh/wslease.py, the keepalive thread and   *)
(* the hold of one iteration (controller.py), and the guarded commit       *)
(* (workspace.commit_candidate).                                           *)
(*                                                                         *)
(* A process drives one run and takes the lease afresh, with a new handle, *)
(* for every iteration.  lease.json is replaced under a short flock, so    *)
(* acquire, renew and release are one step each; check reads without it.   *)
(* The worktree is abstracted to the set of runs whose uncommitted changes *)
(* it carries.                                                             *)
(***************************************************************************)
EXTENDS Naturals, FiniteSets

CONSTANTS Proc, Run,
          RunOf,       \* holder_name: the run each process drives
          Host, HostOf, SpaceOf,   \* machine and pid namespace of a process
          TTL,         \* workspace_lease_ttl
          NoLease,
          Faults,      \* the kinds of fault that may happen
          MaxFaults, MaxTime, MaxGeneration   \* bounds

ASSUME LeaseAssumption ==
    /\ RunOf \in [Proc -> Run] /\ HostOf \in [Proc -> Host]
    /\ SpaceOf \in [Proc -> Nat]
    /\ TTL \in Nat \ {0}
    /\ Faults \subseteq {"crash", "reboot", "late", "busy", "orphan"}
    /\ MaxFaults \in Nat /\ MaxTime \in Nat /\ MaxGeneration \in Nat

VARIABLES
    lease,      \* lease.json
    issued,     \* the tokens drawn so far; a token is a number, never drawn twice
    now,        \* the clock
    boot,       \* boot id of each machine
    life,       \* which incarnation of a process is running (pid and start time)
    pc,         \* where a process is in its iteration
    token,      \* the token of its handle, 0 = None
    threads,    \* the tokens its keepalive threads renew
    cand,       \* the candidate it froze
    dirt,       \* the runs whose uncommitted changes are in the worktree
    orphans,    \* processes that died under a role that is still writing
    commits,    \* the commits made on the branch
    clean,      \* tokens whose second look found the lease in place
    faults      \* how many faults have happened

vars == <<lease, issued, now, boot, life, pc, token, threads, cand, dirt, orphans,
          commits, clean, faults>>

\* Roles write, the candidate is frozen, the lease checked, the tree compared,
\* the commit made, the lease looked at again, the iteration's scope closed.
Holding == {"work", "frozen", "compare", "add", "look", "close"}
PC == Holding \cup {"out", "down"}

Lease == [generation : Nat, token : Nat, holder : Run, proc : Proc, life : Nat,
          boot : Host \X Nat, expires : 0..(MaxTime + TTL), released : BOOLEAN]
ASSUME NoLeaseAssumption == NoLease \notin Lease

Commit == [by : Run, of : SUBSET Run, token : Nat, held : BOOLEAN]

Init ==
    /\ lease = NoLease /\ issued = 0 /\ now = 0
    /\ boot = [h \in Host |-> 0] /\ life = [p \in Proc |-> 0]
    /\ pc = [p \in Proc |-> "out"] /\ token = [p \in Proc |-> 0]
    /\ threads = [p \in Proc |-> {}] /\ cand = [p \in Proc |-> {}]
    /\ dirt = {} /\ orphans = {} /\ commits = {} /\ clean = {} /\ faults = 0

Fault(kind) == kind \in Faults /\ faults < MaxFaults /\ faults' = faults + 1

Goto(p, next) == pc' = [pc EXCEPT ![p] = next]

-----------------------------------------------------------------------------
(* wslease.py                                                              *)

BootId(p) == <<HostOf[p], boot[HostOf[p]]>>

Expired == lease.expires <= now

\* Can p ask whether the holder's pid is alive?
SameProcessSpace(p) == /\ HostOf[lease.proc] = HostOf[p]
                       /\ lease.boot = BootId(p)
                       /\ SpaceOf[lease.proc] = SpaceOf[p]

PidGone == pc[lease.proc] = "down" \/ life[lease.proc] # lease.life

\* holder_state as p judges it: LOST ...
Lost(p) == \/ lease.boot # BootId(p)
           \/ SameProcessSpace(p) /\ PidGone
           \/ Expired

\* ... or NONE or RELEASED; a LIVE lease is never a fresh handle's own.
Vacant(p) == lease # NoLease => lease.released \/ Lost(p)

\* check: the token on file is this handle's, not released, not run out.
Valid(t) == /\ t # 0 /\ lease # NoLease /\ lease.token = t
            /\ ~lease.released /\ ~Expired
Held(p) == Valid(token[p])

\* Mutant: nobody asks what the last holder left behind.
AdmitAnything(p) == TRUE

\* _admit_worktree: changes in the tree are taken over only from one's own run.
Admit(p) == lease # NoLease /\ lease.holder # RunOf[p] => dirt = {}

\* acquire, and the start of the keepalive thread.
Acquire(p) ==
    /\ pc[p] = "out" /\ issued < MaxGeneration
    /\ Vacant(p) /\ Admit(p)
    /\ issued' = issued + 1
    /\ lease' = [generation |-> IF lease = NoLease THEN 1 ELSE lease.generation + 1,
                 token |-> issued', holder |-> RunOf[p], proc |-> p, life |-> life[p],
                 boot |-> BootId(p), expires |-> now + TTL, released |-> FALSE]
    /\ token' = [token EXCEPT ![p] = issued']
    /\ threads' = [threads EXCEPT ![p] = @ \cup {issued'}]
    /\ Goto(p, "work")
    /\ UNCHANGED <<now, boot, life, cand, dirt, orphans, commits, clean, faults>>

\* Mutant: a renewal that asks only for its token.
RenewRevives(p, t) ==
    /\ t \in threads[p]
    /\ IF lease # NoLease /\ lease.token = t
         THEN /\ lease' = [lease EXCEPT !.expires = now + TTL, !.released = FALSE]
              /\ threads' = [threads EXCEPT ![p] = @ \cap {token[p]}]
         ELSE threads' = [threads EXCEPT ![p] = @ \ {t}] /\ UNCHANGED lease
    /\ UNCHANGED <<issued, now, boot, life, pc, token, cand, dirt, orphans, commits,
                   clean, faults>>

\* renew with the handle of token t: refused unless check passes.
RenewLease(t) == Valid(t) /\ lease' = [lease EXCEPT !.expires = now + TTL]

\* The keepalive thread renews; at the first refusal it ends.  A thread that
\* outlived its iteration ends with the renewal it was in.
Renew(p, t) ==
    /\ t \in threads[p]
    /\ \/ /\ RenewLease(t)
          /\ threads' = [threads EXCEPT ![p] = @ \ ({t} \ {token[p]})]
       \/ /\ ~Valid(t)
          /\ threads' = [threads EXCEPT ![p] = @ \ {t}] /\ UNCHANGED lease
    /\ UNCHANGED <<issued, now, boot, life, pc, token, cand, dirt, orphans, commits,
                   clean, faults>>

\* Mutant: the lease is given up, whoever holds it by now.
ReleaseAnyones(p) == lease # NoLease /\ lease' = [lease EXCEPT !.released = TRUE]

\* release: refused, and nothing written, when the lease is no longer this handle's.
Release(p) == IF Held(p) THEN lease' = [lease EXCEPT !.released = TRUE]
              ELSE UNCHANGED lease

\* _WorkspaceHold.close at the end of the iteration's scope: the thread is asked
\* to stop and may outlast the join; a lock that stays busy leaves the lease.
Close(p) ==
    /\ pc[p] = "close"
    /\ \/ Release(p) /\ UNCHANGED faults
       \/ Fault("busy") /\ UNCHANGED lease
    /\ threads' \in {threads, [threads EXCEPT ![p] = @ \ {token[p]}]}
    /\ token' = [token EXCEPT ![p] = 0] /\ cand' = [cand EXCEPT ![p] = {}]
    /\ Goto(p, "out")
    /\ UNCHANGED <<issued, now, boot, life, dirt, orphans, commits, clean>>

-----------------------------------------------------------------------------
(* One iteration under the lease: controller.py and commit_candidate.      *)

\* A role writes; nothing asks the lease.
Write(p) ==
    /\ pc[p] = "work"
    /\ dirt' = dirt \cup {RunOf[p]}
    /\ UNCHANGED <<lease, issued, now, boot, life, pc, token, threads, cand, orphans,
                   commits, clean, faults>>

Freeze(p) ==
    /\ pc[p] = "work"
    /\ cand' = [cand EXCEPT ![p] = dirt] /\ Goto(p, "frozen")
    /\ UNCHANGED <<lease, issued, now, boot, life, token, threads, dirt, orphans,
                   commits, clean, faults>>

\* A rejection, a block or an exception ends the iteration; the changes stay.
GiveUp(p) ==
    /\ pc[p] \in {"work", "frozen"}
    /\ Goto(p, "close")
    /\ UNCHANGED <<lease, issued, now, boot, life, token, threads, cand, dirt, orphans,
                   commits, clean, faults>>

\* commit_candidate: the lease is checked before the tree is looked at ...
CheckLease(p) ==
    /\ pc[p] = "frozen"
    /\ Goto(p, IF Held(p) THEN "compare" ELSE "close")
    /\ UNCHANGED <<lease, issued, now, boot, life, token, threads, cand, dirt, orphans,
                   commits, clean, faults>>

\* ... the tree is compared with the accepted candidate ...
CompareTree(p) ==
    /\ pc[p] = "compare"
    /\ Goto(p, IF dirt = {} THEN "look" ELSE IF dirt = cand[p] THEN "add" ELSE "close")
    /\ UNCHANGED <<lease, issued, now, boot, life, token, threads, cand, dirt, orphans,
                   commits, clean, faults>>

\* ... `git add -A` takes the whole tree, and it is compared once more.
AddAndCommit(p) ==
    /\ pc[p] = "add"
    /\ commits' = commits \cup (IF dirt = {} THEN {}     \* git refuses an empty commit
                                ELSE {[by |-> RunOf[p], of |-> dirt, token |-> token[p],
                                       held |-> Held(p)]})
    /\ dirt' = {}
    /\ Goto(p, IF dirt = cand[p] THEN "look" ELSE "close")
    /\ UNCHANGED <<lease, issued, now, boot, life, token, threads, cand, orphans, clean,
                   faults>>

\* _lease_after_commit: a lease that is gone by now is written into the history.
SecondLook(p) ==
    /\ pc[p] = "look"
    /\ clean' = IF Held(p) THEN clean \cup {token[p]} ELSE clean
    /\ Goto(p, "close")
    /\ UNCHANGED <<lease, issued, now, boot, life, token, threads, cand, dirt, orphans,
                   commits, faults>>

-----------------------------------------------------------------------------
(* The environment.                                                        *)

Dies(ps) ==
    /\ pc' = [p \in Proc |-> IF p \in ps THEN "down" ELSE pc[p]]
    /\ token' = [p \in Proc |-> IF p \in ps THEN 0 ELSE token[p]]
    /\ threads' = [p \in Proc |-> IF p \in ps THEN {} ELSE threads[p]]
    /\ cand' = [p \in Proc |-> IF p \in ps THEN {} ELSE cand[p]]

\* The controller dies; a role in its own pane may live on.
Crash(p) ==
    /\ pc[p] \notin {"out", "down"} /\ Fault("crash")
    /\ Dies({p})
    /\ orphans' \in {orphans} \cup
          (IF "orphan" \in Faults /\ pc[p] = "work" THEN {orphans \cup {p}} ELSE {})
    /\ UNCHANGED <<lease, issued, now, boot, life, dirt, commits, clean>>

OrphanWrite(p) ==
    /\ p \in orphans
    /\ dirt' = dirt \cup {RunOf[p]} /\ orphans' = orphans \ {p}
    /\ UNCHANGED <<lease, issued, now, boot, life, pc, token, threads, cand, commits,
                   clean, faults>>

Restart(p) ==
    /\ pc[p] = "down"
    /\ life' = [life EXCEPT ![p] = @ + 1] /\ Goto(p, "out")
    /\ UNCHANGED <<lease, issued, now, boot, token, threads, cand, dirt, orphans,
                   commits, clean, faults>>

Reboot(h) ==
    /\ Fault("reboot")
    /\ boot' = [boot EXCEPT ![h] = @ + 1]
    /\ Dies({p \in Proc : HostOf[p] = h})
    /\ orphans' = {p \in orphans : HostOf[p] # h}
    /\ UNCHANGED <<lease, issued, now, life, dirt, commits, clean>>

\* The holder's thread renews every third of the TTL: time passes the end of a
\* lease that is being kept alive only when the renewals fail or are late.
KeptAlive == /\ lease # NoLease /\ ~lease.released
             /\ lease.token \in threads[lease.proc] /\ token[lease.proc] = lease.token

Tick ==
    /\ now < MaxTime
    /\ IF KeptAlive /\ lease.expires = now + 1 THEN Fault("late") ELSE UNCHANGED faults
    /\ now' = now + 1
    /\ UNCHANGED <<lease, issued, boot, life, pc, token, threads, cand, dirt, orphans,
                   commits, clean>>

Next ==
    \/ \E p \in Proc :
          \/ Acquire(p) \/ Close(p) \/ Write(p) \/ Freeze(p) \/ GiveUp(p)
          \/ CheckLease(p) \/ CompareTree(p) \/ AddAndCommit(p) \/ SecondLook(p)
          \/ Crash(p) \/ OrphanWrite(p) \/ Restart(p)
          \/ \E t \in threads[p] : Renew(p, t)
    \/ \E h \in Host : Reboot(h)
    \/ Tick

Spec == Init /\ [][Next]_vars

-----------------------------------------------------------------------------
(* Properties.                                                             *)

\* Every variable keeps to its type.
TypeOK ==
    /\ lease \in {NoLease} \cup Lease
    /\ issued \in 0..MaxGeneration /\ now \in 0..MaxTime
    /\ boot \in [Host -> Nat] /\ life \in [Proc -> Nat]
    /\ pc \in [Proc -> PC] /\ token \in [Proc -> Nat]
    /\ threads \in [Proc -> SUBSET Nat] /\ cand \in [Proc -> SUBSET Run]
    /\ dirt \subseteq Run /\ orphans \subseteq Proc
    /\ commits \subseteq Commit /\ clean \subseteq Nat /\ faults \in 0..MaxFaults

\* A hold ends by its own process or by time: no acquire, renewal or release of
\* another handle, fresh, superseded or left behind, takes a valid lease away
\* ("a holder that is alive and within its lease is never displaced").
HoldEndsByHolder ==
    [][\A p \in Proc : Held(p) /\ ~Held(p)' => pc'[p] # pc[p] \/ now' # now]_vars

\* A commit whose second look found the lease in place was made under that lease:
\* a lease that had lapsed when the commit was made stays lapsed, so the note in
\* the history is never missing (_lease_after_commit against the keepalive).
CleanWasHeld == \A c \in commits : c.token \in clean => c.held

\* The lease implements its promise of a single writer: at most one process is in
\* an iteration on the worktree, and none is admitted to, or commits, uncommitted
\* work of another run (acquire, _admit_worktree).
Writer == INSTANCE SingleWriter
    WITH writers <- {p \in Proc : pc[p] \in Holding}, work <- dirt,
         log <- {[by |-> c.by, of |-> c.of] : c \in commits}
WriterSpec == Writer!Spec

-----------------------------------------------------------------------------
(* What the proofs carry from step to step.                                *)

\* Tokens are drawn once; one that has been drawn is never drawn again.
TokensDrawn ==
    /\ \A p \in Proc : token[p] <= issued
    /\ \A p, q \in Proc : token[p] # 0 /\ token[p] = token[q] => p = q
    /\ \A p \in Proc : pc[p] \notin Holding => token[p] = 0
    /\ lease # NoLease => lease.token <= issued
    /\ \A c \in commits : c.token <= issued
    /\ clean \subseteq 1..issued

\* No second look precedes its commit, and a commit made outside its lease stays
\* outside it.
CleanInv ==
    /\ TokensDrawn
    /\ \A p \in Proc : pc[p] \in Holding \ {"close"} => token[p] \notin clean
    /\ \A c \in commits : ~c.held => ~Valid(c.token)
    /\ CleanWasHeld

\* All processes on one machine.
OneMachine == \A p, q \in Proc : HostOf[p] = HostOf[q]

\* The lease on file that carries p's token names p as it is now.
LeaseNames(p) == lease.proc = p /\ lease.life = life[p] /\ lease.boot = BootId(p)
NamesInv ==
    /\ TokensDrawn
    /\ \A p \in Proc : token[p] # 0 /\ lease # NoLease /\ lease.token = token[p]
                          => LeaseNames(p)

\* Every keepalive is in time and every role ends with its controller.
Sheltered == OneMachine /\ "late" \notin Faults /\ "orphan" \notin Faults

\* Whoever is in an iteration holds the lease and keeps it alive ...
Grip(p) == Held(p) /\ LeaseNames(p) /\ token[p] \in threads[p]

\* ... and what lies in the worktree is the work of the run last admitted to it.
WriterInv ==
    /\ \A p \in Proc : pc[p] \in Holding => Grip(p)
    /\ lease = NoLease => dirt = {}
    /\ lease # NoLease => dirt \subseteq {lease.holder} /\ lease.holder = RunOf[lease.proc]
    /\ orphans = {}
=============================================================================
