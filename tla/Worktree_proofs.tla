-------------------------- MODULE Worktree_proofs --------------------------
(***************************************************************************)
(* Proofs about the worktree of a run: the lease of who may write in it    *)
(* (WorkspaceLease), the seal of the candidate that lies in it (Seals), and *)
(* that nobody writes in it any more once its developer's turn is closed   *)
(* (Quiescence).                                                           *)
(*                                                                         *)
(* Lease.  For any number of processes, runs and machines, any TTL and any *)
(* number of faults.                                                       *)
(*                                                                         *)
(* Seal.  SealInv says for every place the process of `hoh run` can be in  *)
(* what the ledger says of the arena it judges, and where a change that was *)
(* found is until the run is held.  Every action keeps it: an action that  *)
(* only moves the process on leaves arenas and ledger alone; one that      *)
(* writes the ledger releases a line, says that it is being released, or   *)
(* notes what was found (LedgerReleases, LedgerIsReleasing, LedgerFinds).  *)
(*                                                                         *)
(* End of a turn.  QuietInv says that until the controller has looked for  *)
(* the last time everyone it may signal was in the tree of the pane's      *)
(* shell.  The processes it may signal are a least set that has its        *)
(* children (BelowIs, MembersAre): a process that exits, detaches or loses *)
(* its mark only takes from that set (FewerMembers), and one that forks in *)
(* it adds a child that is in the tree as well.                            *)
(***************************************************************************)
EXTENDS WorkspaceLease, Seals, Quiescence, TLAPS

-----------------------------------------------------------------------------
(* Typing.                                                                 *)

\* A lease on file keeps its type when it is renewed or released.
LEMMA LeaseUpdateType ==
    ASSUME lease \in Lease, now \in 0..MaxTime
    PROVE  /\ [lease EXCEPT !.expires = now + TTL] \in Lease
           /\ [lease EXCEPT !.released = TRUE] \in Lease
<1>1. now + TTL \in 0..(MaxTime + TTL)
  BY LeaseAssumption
<1>. QED  BY <1>1 DEF Lease

\* Every step keeps every variable to its type.
LEMMA TypeStep == TypeOK /\ [Next]_vars => TypeOK'
<1>. SUFFICES ASSUME TypeOK, [Next]_vars PROVE TypeOK'
  OBVIOUS
<1>. USE LeaseAssumption DEF TypeOK
<1>1. ASSUME NEW p \in Proc, Acquire(p) PROVE TypeOK'
  <2>1. issued' \in 0..MaxGeneration /\ issued' \in Nat
    BY <1>1 DEF Acquire
  <2>2. lease' \in Lease
    <3>1. now + TTL \in 0..(MaxTime + TTL)
      OBVIOUS
    <3>2. BootId(p) \in Host \X Nat
      BY DEF BootId
    <3>3. (IF lease = NoLease THEN 1 ELSE lease.generation + 1) \in Nat
      BY DEF Lease
    <3>4. RunOf[p] \in Run /\ life[p] \in Nat
      OBVIOUS
    <3>. QED  BY <1>1, <2>1, <3>1, <3>2, <3>3, <3>4 DEF Acquire, Lease
  <2>. QED  BY <1>1, <2>1, <2>2 DEF Acquire, Goto, PC, Holding
<1>2. ASSUME NEW p \in Proc, Close(p) PROVE TypeOK'
  <2>1. lease' \in {NoLease} \cup Lease
    BY <1>2, LeaseUpdateType DEF Close, Release, Held, Valid
  <2>2. faults' \in 0..MaxFaults
    BY <1>2 DEF Close, Fault
  <2>3. threads' \in [Proc -> SUBSET Nat]
    BY <1>2 DEF Close
  <2>. QED  BY <1>2, <2>1, <2>2, <2>3 DEF Close, Goto, PC
<1>3. ASSUME NEW p \in Proc, Write(p) PROVE TypeOK'
  BY <1>3 DEF Write
<1>4. ASSUME NEW p \in Proc, Freeze(p) PROVE TypeOK'
  BY <1>4 DEF Freeze, Goto, PC, Holding
<1>5. ASSUME NEW p \in Proc, GiveUp(p) PROVE TypeOK'
  BY <1>5 DEF GiveUp, Goto, PC, Holding
<1>6. ASSUME NEW p \in Proc, CheckLease(p) PROVE TypeOK'
  BY <1>6 DEF CheckLease, Goto, PC, Holding
<1>7. ASSUME NEW p \in Proc, CompareTree(p) PROVE TypeOK'
  BY <1>7 DEF CompareTree, Goto, PC, Holding
<1>8. ASSUME NEW p \in Proc, AddAndCommit(p) PROVE TypeOK'
  <2>1. Held(p) \in BOOLEAN
    BY DEF Held, Valid
  <2>2. [by |-> RunOf[p], of |-> dirt, token |-> token[p], held |-> Held(p)] \in Commit
    BY <2>1 DEF Commit
  <2>3. commits' \subseteq Commit
    BY <1>8, <2>2 DEF AddAndCommit
  <2>. QED  BY <1>8, <2>3 DEF AddAndCommit, Goto, PC, Holding
<1>9. ASSUME NEW p \in Proc, SecondLook(p) PROVE TypeOK'
  BY <1>9 DEF SecondLook, Goto, PC, Holding
<1>10. ASSUME NEW p \in Proc, Crash(p) PROVE TypeOK'
  BY <1>10 DEF Crash, Dies, Fault, PC
<1>11. ASSUME NEW p \in Proc, OrphanWrite(p) PROVE TypeOK'
  BY <1>11 DEF OrphanWrite
<1>12. ASSUME NEW p \in Proc, Restart(p) PROVE TypeOK'
  BY <1>12 DEF Restart, Goto, PC
<1>13. ASSUME NEW p \in Proc, NEW t \in threads[p], Renew(p, t) PROVE TypeOK'
  <2>1. lease' \in {NoLease} \cup Lease
    BY <1>13, LeaseUpdateType DEF Renew, RenewLease, Valid
  <2>2. threads' \in [Proc -> SUBSET Nat]
    BY <1>13 DEF Renew
  <2>. QED  BY <1>13, <2>1, <2>2 DEF Renew
<1>14. ASSUME NEW h \in Host, Reboot(h) PROVE TypeOK'
  BY <1>14 DEF Reboot, Dies, Fault, PC
<1>15. CASE Tick
  BY <1>15 DEF Tick, Fault
<1>16. CASE UNCHANGED vars
  BY <1>16 DEF vars
<1>. QED  BY <1>1, <1>2, <1>3, <1>4, <1>5, <1>6, <1>7, <1>8, <1>9, <1>10, <1>11, <1>12,
             <1>13, <1>14, <1>15, <1>16 DEF Next

\* Every variable of the lease keeps to its type in every behaviour.
THEOREM LeaseTyping == Spec => []TypeOK
<1>1. Init => TypeOK
  BY LeaseAssumption DEF Init, TypeOK, PC
<1>. QED  BY <1>1, TypeStep, PTL DEF Spec

-----------------------------------------------------------------------------
(* A clean second look means a commit under the lease.                     *)

\* Tokens are drawn once.
LEMMA TokensStep == TypeOK /\ TokensDrawn /\ [Next]_vars => TokensDrawn'
<1>. SUFFICES ASSUME TypeOK, TokensDrawn, [Next]_vars PROVE TokensDrawn'
  OBVIOUS
<1>. USE LeaseAssumption DEF TypeOK, TokensDrawn
<1>1. ASSUME NEW p \in Proc, Acquire(p) PROVE TokensDrawn'
  <2>1. issued \in Nat /\ issued' = issued + 1
    BY <1>1 DEF Acquire
  <2>2. \A q \in Proc : token'[q] = IF q = p THEN issued + 1 ELSE token[q]
    BY <1>1, <2>1 DEF Acquire
  <2>3. \A q \in Proc : pc'[q] = IF q = p THEN "work" ELSE pc[q]
    BY <1>1 DEF Acquire, Goto
  <2>4. lease'.token = issued + 1 /\ commits' = commits /\ clean' = clean
    BY <1>1, <2>1 DEF Acquire
  <2>. QED  BY <2>1, <2>2, <2>3, <2>4 DEF Holding, Commit
<1>2. ASSUME NEW p \in Proc, Close(p) PROVE TokensDrawn'
  <2>1. lease' # NoLease => lease # NoLease /\ lease'.token = lease.token
    BY <1>2 DEF Close, Release, Held, Valid, Lease
  <2>2. \A q \in Proc : token'[q] = IF q = p THEN 0 ELSE token[q]
    BY <1>2 DEF Close
  <2>3. \A q \in Proc : pc'[q] = IF q = p THEN "out" ELSE pc[q]
    BY <1>2 DEF Close, Goto
  <2>4. UNCHANGED <<issued, commits, clean>>
    BY <1>2 DEF Close
  <2>. QED  BY <2>1, <2>2, <2>3, <2>4
<1>3. ASSUME NEW p \in Proc, Write(p) PROVE TokensDrawn'
  BY <1>3 DEF Write
<1>4. ASSUME NEW p \in Proc, Freeze(p) PROVE TokensDrawn'
  BY <1>4 DEF Freeze, Goto, Holding
<1>5. ASSUME NEW p \in Proc, GiveUp(p) PROVE TokensDrawn'
  BY <1>5 DEF GiveUp, Goto, Holding
<1>6. ASSUME NEW p \in Proc, CheckLease(p) PROVE TokensDrawn'
  BY <1>6 DEF CheckLease, Goto, Holding
<1>7. ASSUME NEW p \in Proc, CompareTree(p) PROVE TokensDrawn'
  BY <1>7 DEF CompareTree, Goto, Holding
<1>8. ASSUME NEW p \in Proc, AddAndCommit(p) PROVE TokensDrawn'
  <2>1. \A c \in commits' : c \in commits \/ c.token = token[p]
    BY <1>8 DEF AddAndCommit
  <2>. QED  BY <1>8, <2>1 DEF AddAndCommit, Goto, Holding
<1>9. ASSUME NEW p \in Proc, SecondLook(p) PROVE TokensDrawn'
  <2>1. clean' \subseteq 1..issued
    <3>1. Held(p) => token[p] # 0
      BY DEF Held, Valid
    <3>2. Held(p) => token[p] \in 1..issued
      BY <3>1
    <3>. QED  BY <1>9, <3>2 DEF SecondLook
  <2>. QED  BY <1>9, <2>1 DEF SecondLook, Goto, Holding
<1>10. ASSUME NEW p \in Proc, Crash(p) PROVE TokensDrawn'
  BY <1>10 DEF Crash, Dies, Holding
<1>11. ASSUME NEW p \in Proc, OrphanWrite(p) PROVE TokensDrawn'
  BY <1>11 DEF OrphanWrite
<1>12. ASSUME NEW p \in Proc, Restart(p) PROVE TokensDrawn'
  BY <1>12 DEF Restart, Goto, Holding
<1>13. ASSUME NEW p \in Proc, NEW t \in threads[p], Renew(p, t) PROVE TokensDrawn'
  <2>1. lease' # NoLease => lease # NoLease /\ lease'.token = lease.token
    BY <1>13 DEF Renew, RenewLease, Valid, Lease
  <2>. QED  BY <1>13, <2>1 DEF Renew
<1>14. ASSUME NEW h \in Host, Reboot(h) PROVE TokensDrawn'
  BY <1>14 DEF Reboot, Dies, Holding
<1>15. CASE Tick
  BY <1>15 DEF Tick
<1>16. CASE UNCHANGED vars
  BY <1>16 DEF vars
<1>. QED  BY <1>1, <1>2, <1>3, <1>4, <1>5, <1>6, <1>7, <1>8, <1>9, <1>10, <1>11, <1>12,
             <1>13, <1>14, <1>15, <1>16 DEF Next

\* A token drawn in the past that fails check fails it for good: a fresh lease has
\* a fresh token, and neither a renewal nor time makes a lapsed one valid.
LEMMA LapsedForGood ==
    ASSUME TypeOK, TokensDrawn, [Next]_vars, NEW t \in 0..issued, ~Valid(t)
    PROVE  ~Valid(t)'
<1>. USE LeaseAssumption DEF TypeOK, TokensDrawn
<1>1. ASSUME NEW p \in Proc, Acquire(p) PROVE ~Valid(t)'
  BY <1>1 DEF Acquire, Valid
<1>2. ASSUME NEW p \in Proc, Close(p) PROVE ~Valid(t)'
  BY <1>2 DEF Close, Release, Held, Valid, Expired, Lease
<1>3. ASSUME NEW p \in Proc, NEW u \in threads[p], Renew(p, u) PROVE ~Valid(t)'
  BY <1>3 DEF Renew, RenewLease, Valid, Expired, Lease
<1>4. CASE Tick
  BY <1>4 DEF Tick, Valid, Expired, Lease
<1>5. CASE UNCHANGED <<lease, now>>
  BY <1>5 DEF Valid, Expired
<1>. QED  BY <1>1, <1>2, <1>3, <1>4, <1>5 DEF Next, vars, Write, Freeze, GiveUp, CheckLease,
             CompareTree, AddAndCommit, SecondLook, Crash, OrphanWrite, Restart, Reboot

\* A process before its second look has none on record.
LEMMA NoEarlyLook ==
    ASSUME TypeOK, CleanInv, [Next]_vars,
           NEW q \in Proc, pc'[q] \in Holding \ {"close"}
    PROVE  token'[q] \notin clean'
<1>. USE LeaseAssumption DEF TypeOK, CleanInv, TokensDrawn
<1>1. ASSUME NEW p \in Proc, Acquire(p) PROVE token'[q] \notin clean'
  BY <1>1 DEF Acquire, Goto
<1>2. ASSUME NEW p \in Proc, SecondLook(p) PROVE token'[q] \notin clean'
  BY <1>2 DEF SecondLook, Goto, Held, Valid
<1>3. CASE /\ UNCHANGED clean
           /\ token'[q] = token[q]
           /\ pc[q] \in Holding \ {"close"}
  BY <1>3
<1>4. ASSUME NEW p \in Proc,
             Close(p) \/ Write(p) \/ Freeze(p) \/ GiveUp(p) \/ CheckLease(p)
             \/ CompareTree(p) \/ AddAndCommit(p)
      PROVE  token'[q] \notin clean'
  BY <1>3, <1>4 DEF Close, Write, Freeze, GiveUp, CheckLease, CompareTree, AddAndCommit,
                    Goto, Holding
<1>5. ASSUME NEW p \in Proc,
             Crash(p) \/ OrphanWrite(p) \/ Restart(p) \/ \E t \in threads[p] : Renew(p, t)
      PROVE  token'[q] \notin clean'
  BY <1>3, <1>5 DEF Crash, Dies, OrphanWrite, Restart, Renew, Goto, Holding
<1>6. ASSUME NEW h \in Host, Reboot(h) PROVE token'[q] \notin clean'
  BY <1>3, <1>6 DEF Reboot, Dies, Holding
<1>7. CASE Tick \/ UNCHANGED vars
  BY <1>3, <1>7 DEF Tick, vars
<1>. QED  BY <1>1, <1>2, <1>4, <1>5, <1>6, <1>7 DEF Next

\* The facts of CleanInv carry over to the next state.
LEMMA CleanStep == TypeOK /\ CleanInv /\ [Next]_vars => CleanInv'
<1>. SUFFICES ASSUME TypeOK, CleanInv, [Next]_vars PROVE CleanInv'
  OBVIOUS
<1>1. TokensDrawn'
  BY TokensStep DEF CleanInv
<1>2. \A q \in Proc : pc'[q] \in Holding \ {"close"} => token'[q] \notin clean'
  BY NoEarlyLook
<1>3. CASE UNCHANGED <<commits, clean>>
  <2>1. \A c \in commits : ~c.held => ~Valid(c.token)'
    BY LapsedForGood DEF CleanInv, TokensDrawn, TypeOK, Commit
  <2>. QED  BY <1>1, <1>2, <1>3, <2>1 DEF CleanInv, CleanWasHeld
<1>4. ASSUME NEW p \in Proc, AddAndCommit(p) PROVE CleanInv'
  <2>1. UNCHANGED <<lease, now, clean>>
    BY <1>4 DEF AddAndCommit
  <2>2. \A c \in commits' : c \in commits \/ (c.token = token[p] /\ c.held = Held(p))
    BY <1>4 DEF AddAndCommit
  <2>3. \A c \in commits' : ~c.held => ~Valid(c.token)'
    BY <2>1, <2>2 DEF CleanInv, Held, Valid, Expired
  <2>4. token[p] \notin clean
    BY <1>4 DEF CleanInv, AddAndCommit, Holding
  <2>. QED  BY <1>1, <1>2, <2>1, <2>2, <2>3, <2>4 DEF CleanInv, CleanWasHeld
<1>5. ASSUME NEW p \in Proc, SecondLook(p) PROVE CleanInv'
  <2>1. UNCHANGED <<lease, now, commits>>
    BY <1>5 DEF SecondLook
  <2>2. \A c \in commits : ~c.held => ~Valid(c.token)'
    BY <2>1 DEF CleanInv, Valid, Expired
  <2>3. \A t \in clean' : t \in clean \/ Valid(t)
    BY <1>5 DEF SecondLook, Held
  <2>4. \A c \in commits : c.token \in clean' => c.held
    BY <2>3 DEF CleanInv, CleanWasHeld
  <2>. QED  BY <1>1, <1>2, <2>1, <2>2, <2>4 DEF CleanInv, CleanWasHeld
<1>. QED  BY <1>3, <1>4, <1>5 DEF Next, vars, Acquire, Close, Write, Freeze, GiveUp, CheckLease,
             CompareTree, Crash, OrphanWrite, Restart, Renew, Reboot, Tick

\* A commit whose second look was clean was made under its lease, whatever happened
\* to the keepalive, the clock, the lock and the processes in between
\* (_lease_after_commit, renew).
THEOREM CleanAlwaysHeld == Spec => []CleanWasHeld
<1>1. Init => CleanInv
  BY LeaseAssumption DEF Init, CleanInv, TokensDrawn, CleanWasHeld, Holding
<1>2. CleanInv => CleanWasHeld
  BY DEF CleanInv
<1>. QED  BY <1>1, <1>2, LeaseTyping, CleanStep, PTL DEF Spec

-----------------------------------------------------------------------------
(* A hold ends by its holder or by time.                                   *)

\* A lease on file is never replaced by the absence of one, and only acquire writes
\* who holds it.
LEMMA NamesStep == TypeOK /\ NamesInv /\ [Next]_vars => NamesInv'
<1>. SUFFICES ASSUME TypeOK, NamesInv, [Next]_vars,
                     NEW q \in Proc, token'[q] # 0, lease' # NoLease, lease'.token = token'[q]
              PROVE  LeaseNames(q)'
  BY TokensStep DEF NamesInv
<1>. USE LeaseAssumption DEF TypeOK, NamesInv, TokensDrawn
<1>1. ASSUME NEW p \in Proc, Acquire(p) PROVE LeaseNames(q)'
  <2>1. q = p
    BY <1>1 DEF Acquire
  <2>. QED  BY <1>1, <2>1 DEF Acquire, LeaseNames, BootId
<1>2. ASSUME NEW p \in Proc, Close(p) PROVE LeaseNames(q)'
  <2>1. /\ lease # NoLease
        /\ lease'.token = lease.token /\ lease'.proc = lease.proc
        /\ lease'.life = lease.life /\ lease'.boot = lease.boot
    BY <1>2 DEF Close, Release, Held, Valid, Lease
  <2>2. token'[q] = token[q] /\ UNCHANGED <<life, boot>>
    BY <1>2 DEF Close
  <2>. QED  BY <2>1, <2>2 DEF LeaseNames, BootId
<1>3. ASSUME NEW p \in Proc, NEW t \in threads[p], Renew(p, t) PROVE LeaseNames(q)'
  <2>1. /\ lease # NoLease
        /\ lease'.token = lease.token /\ lease'.proc = lease.proc
        /\ lease'.life = lease.life /\ lease'.boot = lease.boot
    BY <1>3 DEF Renew, RenewLease, Valid, Lease
  <2>. QED  BY <1>3, <2>1 DEF Renew, LeaseNames, BootId
<1>4. ASSUME NEW p \in Proc, Crash(p) PROVE LeaseNames(q)'
  BY <1>4 DEF Crash, Dies, LeaseNames, BootId
<1>5. ASSUME NEW p \in Proc, Restart(p) PROVE LeaseNames(q)'
  BY <1>5 DEF Restart, LeaseNames, BootId, Holding
<1>6. ASSUME NEW h \in Host, Reboot(h) PROVE LeaseNames(q)'
  BY <1>6 DEF Reboot, Dies, LeaseNames, BootId
<1>7. CASE UNCHANGED <<lease, token, life, boot>>
  BY <1>7 DEF LeaseNames, BootId
<1>. QED  BY <1>1, <1>2, <1>3, <1>4, <1>5, <1>6, <1>7 DEF Next, vars, Write, Freeze, GiveUp,
             CheckLease, CompareTree, AddAndCommit, SecondLook, OrphanWrite, Tick

\* On one machine nobody finds vacant a lease that is held.
LEMMA HeldIsNotVacant ==
    ASSUME OneMachine, TypeOK, NEW p \in Proc, NEW q \in Proc,
           Held(p), LeaseNames(p), pc[p] # "down"
    PROVE  ~Vacant(q)
<1>1. BootId(p) = BootId(q)
  BY DEF OneMachine, BootId
<1>2. ~PidGone
  BY DEF LeaseNames, PidGone
<1>. QED  BY <1>1, <1>2 DEF Held, Valid, Vacant, Lost, LeaseNames

\* One step: see HoldEnds.
LEMMA HoldStep ==
    ASSUME OneMachine, TypeOK, NamesInv, [Next]_vars,
           NEW p \in Proc, Held(p), now' = now, pc'[p] = pc[p]
    PROVE  Held(p)'
<1>. USE LeaseAssumption DEF TypeOK, NamesInv, TokensDrawn
<1>1. LeaseNames(p) /\ pc[p] \in Holding
  BY DEF Held, Valid
<1>2. ASSUME NEW q \in Proc, Acquire(q) PROVE Held(p)'
  BY <1>1, <1>2, HeldIsNotVacant DEF Acquire, Holding
<1>3. ASSUME NEW q \in Proc, Close(q) PROVE Held(p)'
  <2>1. q # p
    BY <1>3 DEF Close, Goto
  <2>2. ~Held(q)
    BY <2>1 DEF Held, Valid
  <2>. QED  BY <1>3, <2>1, <2>2 DEF Close, Release, Held, Valid, Expired
<1>4. ASSUME NEW q \in Proc, NEW t \in threads[q], Renew(q, t) PROVE Held(p)'
  <2>1. CASE Valid(t)
    <3>1. lease \in Lease /\ lease' = [lease EXCEPT !.expires = now + TTL]
      BY <1>4, <2>1 DEF Renew, RenewLease, Valid
    <3>2. lease' # NoLease
      BY <3>1, LeaseUpdateType, NoLeaseAssumption
    <3>. QED  BY <1>4, <3>1, <3>2 DEF Renew, Held, Valid, Expired, Lease
  <2>2. CASE ~Valid(t)
    BY <1>4, <2>2 DEF Renew, RenewLease, Held, Valid, Expired
  <2>. QED  BY <2>1, <2>2
<1>5. ASSUME NEW q \in Proc, Crash(q) PROVE Held(p)'
  BY <1>1, <1>5 DEF Crash, Dies, Held, Valid, Expired
<1>6. ASSUME NEW h \in Host, Reboot(h) PROVE Held(p)'
  BY <1>1, <1>6 DEF Reboot, Dies, Held, Valid, Expired, Holding
<1>7. CASE UNCHANGED <<lease, token>>
  BY <1>7 DEF Held, Valid, Expired
<1>. QED  BY <1>2, <1>3, <1>4, <1>5, <1>6, <1>7 DEF Next, vars, Write, Freeze, GiveUp,
             CheckLease, CompareTree, AddAndCommit, SecondLook, OrphanWrite, Restart, Tick

\* On one machine, whatever the pid namespaces and the faults, a valid hold ends by
\* its own process or by time: no acquire, renewal or release of another handle ends
\* it.  (Boot ids of two machines are compared as if of one, so the assumption is needed.)
THEOREM HoldEnds ==
    ASSUME OneMachine
    PROVE  Spec => HoldEndsByHolder
<1>1. Init => NamesInv
  BY LeaseAssumption DEF Init, NamesInv, TokensDrawn, Holding
<1>2. TypeOK /\ NamesInv /\ [Next]_vars
         => [\A p \in Proc : Held(p) /\ ~Held(p)' => pc'[p] # pc[p] \/ now' # now]_vars
  BY HoldStep, OneMachine
<1>. QED  BY <1>1, <1>2, LeaseTyping, NamesStep, PTL DEF Spec, HoldEndsByHolder

-----------------------------------------------------------------------------
(* The lease implements SingleWriter.                                      *)

\* The processes in an iteration: what SingleWriter calls its writers.
Writers == {p \in Proc : pc[p] \in Holding}

\* The commits as SingleWriter keeps them.
Log == {[by |-> c.by, of |-> c.of] : c \in commits}

\* Whoever is in an iteration is the process the lease names.
LEMMA OneWriter ==
    ASSUME WriterInv, NEW p \in Proc, pc[p] \in Holding
    PROVE  Writers = {p} /\ lease # NoLease /\ lease.proc = p /\ dirt \subseteq {RunOf[p]}
BY DEF WriterInv, Grip, LeaseNames, Held, Valid, Writers

\* acquire succeeds only when nobody is in an iteration, and then finds only its
\* own run's work in the tree.
LEMMA AcquireAlone ==
    ASSUME Sheltered, TypeOK, WriterInv, NEW p \in Proc, Acquire(p)
    PROVE  Writers = {} /\ dirt \subseteq {RunOf[p]}
<1>1. ASSUME NEW q \in Proc, pc[q] \in Holding PROVE FALSE
  <2>1. Held(q) /\ LeaseNames(q) /\ pc[q] # "down"
    BY <1>1 DEF WriterInv, Grip, Holding
  <2>. QED  BY <2>1, HeldIsNotVacant DEF Sheltered, Acquire
<1>2. dirt \subseteq {RunOf[p]}
  BY DEF WriterInv, Acquire, Admit
<1>. QED  BY <1>1, <1>2 DEF Writers

\* A step inside the iterations that leaves the lease and its keepalive alone keeps
\* WriterInv.
LEMMA WriterFrame ==
    ASSUME WriterInv, UNCHANGED <<lease, now, boot, orphans, dirt>>,
           \A p \in Proc : pc'[p] \in Holding =>
               /\ pc[p] \in Holding
               /\ life'[p] = life[p] /\ token'[p] = token[p] /\ threads'[p] = threads[p]
    PROVE  WriterInv'
<1>1. ASSUME NEW p \in Proc, pc'[p] \in Holding PROVE Grip(p)'
  <2>1. Grip(p)
    BY <1>1 DEF WriterInv
  <2>2. life'[p] = life[p] /\ token'[p] = token[p] /\ threads'[p] = threads[p]
    BY <1>1
  <2>. QED  BY <2>1, <2>2 DEF Grip, LeaseNames, BootId, Held, Valid, Expired
<1>. QED  BY <1>1 DEF WriterInv

\* The facts of WriterInv carry over to the next state.
LEMMA WriterStep ==
    ASSUME Sheltered, TypeOK, WriterInv, [Next]_vars
    PROVE  WriterInv'
<1>. USE LeaseAssumption DEF TypeOK
<1>1. ASSUME NEW p \in Proc, Acquire(p) PROVE WriterInv'
  <2>1. \A q \in Proc : q # p => pc'[q] \notin Holding
    BY <1>1, AcquireAlone DEF Acquire, Goto, Writers
  <2>2. lease' \in Lease
    BY <1>1, TypeStep DEF Acquire, Lease, BootId
  <2>3. Grip(p)'
    <3>1. issued' # 0 /\ token'[p] = issued' /\ issued' \in threads'[p]
      BY <1>1 DEF Acquire
    <3>2. /\ lease'.token = issued' /\ lease'.released = FALSE /\ lease'.expires = now + TTL
          /\ lease'.proc = p /\ lease'.life = life[p] /\ lease'.boot = BootId(p)
      BY <1>1 DEF Acquire
    <3>3. UNCHANGED <<now, life, boot>>
      BY <1>1 DEF Acquire
    <3>4. ~(now + TTL <= now)
      OBVIOUS
    <3>. QED  BY <2>2, <3>1, <3>2, <3>3, <3>4, NoLeaseAssumption
              DEF Grip, LeaseNames, BootId, Held, Valid, Expired
  <2>4. lease'.holder = RunOf[p] /\ lease'.proc = p /\ UNCHANGED <<dirt, orphans>>
    BY <1>1 DEF Acquire
  <2>5. dirt \subseteq {RunOf[p]}
    BY <1>1, AcquireAlone
  <2>. QED  BY <2>1, <2>2, <2>3, <2>4, <2>5, NoLeaseAssumption DEF WriterInv
<1>2. ASSUME NEW p \in Proc, Close(p) PROVE WriterInv'
  <2>1. \A q \in Proc : pc'[q] \notin Holding
    BY <1>2, OneWriter DEF Close, Goto, Holding, Writers
  <2>2. lease # NoLease
    BY <1>2, OneWriter DEF Close, Holding
  <2>3. /\ lease' # NoLease
        /\ lease'.holder = lease.holder /\ lease'.proc = lease.proc
    BY <1>2, <2>2, LeaseUpdateType, NoLeaseAssumption DEF Close, Release, Lease
  <2>. QED  BY <1>2, <2>1, <2>2, <2>3 DEF Close, WriterInv
<1>3. ASSUME NEW p \in Proc, Write(p) PROVE WriterInv'
  <2>1. lease # NoLease /\ lease.holder = RunOf[p]
    BY <1>3, OneWriter DEF Write, Holding, WriterInv
  <2>2. \A q \in Proc : Grip(q) => Grip(q)'
    BY <1>3 DEF Write, Grip, LeaseNames, BootId, Held, Valid, Expired
  <2>. QED  BY <1>3, <2>1, <2>2 DEF Write, WriterInv
<1>4. ASSUME NEW p \in Proc, Freeze(p) \/ GiveUp(p) \/ CheckLease(p) \/ CompareTree(p)
                             \/ SecondLook(p)
      PROVE  WriterInv'
  BY <1>4, WriterFrame DEF Freeze, GiveUp, CheckLease, CompareTree, SecondLook, Goto, Holding
<1>5. ASSUME NEW p \in Proc, AddAndCommit(p) PROVE WriterInv'
  <2>1. \A q \in Proc : pc'[q] \in Holding => pc[q] \in Holding
    BY <1>5 DEF AddAndCommit, Goto, Holding
  <2>2. \A q \in Proc : Grip(q) => Grip(q)'
    BY <1>5 DEF AddAndCommit, Grip, LeaseNames, BootId, Held, Valid, Expired
  <2>. QED  BY <1>5, <2>1, <2>2 DEF AddAndCommit, WriterInv
<1>6. ASSUME NEW p \in Proc, Crash(p) PROVE WriterInv'
  <2>1. UNCHANGED <<lease, now, boot, orphans, dirt, life>>
    BY <1>6 DEF Crash, Sheltered
  <2>2. \A q \in Proc : pc'[q] \in Holding =>
            /\ pc[q] \in Holding
            /\ token'[q] = token[q] /\ threads'[q] = threads[q]
    BY <1>6 DEF Crash, Dies, Holding
  <2>. QED  BY <2>1, <2>2, WriterFrame
<1>7. ASSUME NEW p \in Proc, OrphanWrite(p) PROVE WriterInv'
  BY <1>7 DEF OrphanWrite, WriterInv
<1>8. ASSUME NEW p \in Proc, Restart(p) PROVE WriterInv'
  BY <1>8, WriterFrame DEF Restart, Goto, Holding
<1>9. ASSUME NEW p \in Proc, NEW t \in threads[p], Renew(p, t) PROVE WriterInv'
  <2>1. CASE Valid(t)
    <3>1. lease \in Lease /\ lease' = [lease EXCEPT !.expires = now + TTL]
      BY <1>9, <2>1 DEF Renew, RenewLease, Valid
    <3>2. lease' # NoLease /\ lease # NoLease
      BY <3>1, LeaseUpdateType, NoLeaseAssumption
    <3>3. /\ lease'.token = lease.token /\ lease'.proc = lease.proc
          /\ lease'.life = lease.life /\ lease'.boot = lease.boot
          /\ lease'.holder = lease.holder /\ lease'.released = lease.released
          /\ lease'.expires = now + TTL
      BY <3>1 DEF Lease
    <3>4. UNCHANGED <<now, boot, life, pc, token, dirt, orphans>>
      BY <1>9 DEF Renew
    <3>5. \A q \in Proc : token[q] \in threads[q] => token[q] \in threads'[q]
      BY <1>9, <2>1 DEF Renew
    <3>6. ~(now + TTL <= now)
      OBVIOUS
    <3>7. \A q \in Proc : Grip(q) => Grip(q)'
      BY <3>2, <3>3, <3>4, <3>5, <3>6 DEF Grip, LeaseNames, BootId, Held, Valid, Expired
    <3>. QED  BY <3>2, <3>3, <3>4, <3>7 DEF WriterInv
  <2>2. CASE ~Valid(t)
    <3>1. \A q \in Proc : Grip(q) => threads'[q] = threads[q] \/ token[q] \in threads'[q]
      BY <1>9, <2>2 DEF Renew, RenewLease, Grip, Held
    <3>2. UNCHANGED <<lease, now, boot, life, pc, token, dirt, orphans>>
      BY <1>9, <2>2 DEF Renew, RenewLease
    <3>3. \A q \in Proc : Grip(q) => Grip(q)'
      BY <3>1, <3>2 DEF Grip, LeaseNames, BootId, Held, Valid, Expired
    <3>. QED  BY <3>2, <3>3 DEF WriterInv
  <2>. QED  BY <2>1, <2>2
<1>10. ASSUME NEW h \in Host, Reboot(h) PROVE WriterInv'
  <2>1. UNCHANGED <<lease, now, dirt, life>> /\ orphans' = {}
    BY <1>10 DEF Reboot, WriterInv
  <2>2. \A q \in Proc : pc'[q] \in Holding =>
            /\ pc[q] \in Holding /\ HostOf[q] # h
            /\ token'[q] = token[q] /\ threads'[q] = threads[q]
    BY <1>10 DEF Reboot, Dies, Holding
  <2>3. \A q \in Proc : HostOf[q] # h => BootId(q)' = BootId(q)
    BY <1>10 DEF Reboot, BootId
  <2>4. \A q \in Proc : pc'[q] \in Holding => Grip(q)'
    BY <2>1, <2>2, <2>3 DEF WriterInv, Grip, LeaseNames, Held, Valid, Expired
  <2>. QED  BY <2>1, <2>4 DEF WriterInv
<1>11. CASE Tick
  <2>1. UNCHANGED <<lease, boot, life, pc, token, threads, dirt, orphans>> /\ now' = now + 1
    BY <1>11 DEF Tick
  <2>2. ASSUME NEW q \in Proc, Grip(q) PROVE Grip(q)'
    <3>1. KeptAlive /\ ~Expired
      BY <2>2 DEF Grip, Held, Valid, LeaseNames, KeptAlive
    <3>2. lease.expires # now + 1
      BY <1>11, <3>1 DEF Tick, Fault, Sheltered
    <3>3. lease \in Lease
      BY <2>2 DEF Grip, Held, Valid
    <3>4. ~(lease.expires <= now + 1)
      BY <3>1, <3>2, <3>3 DEF Expired, Lease
    <3>. QED  BY <2>1, <2>2, <3>4 DEF Grip, LeaseNames, BootId, Held, Valid, Expired
  <2>. QED  BY <2>1, <2>2 DEF WriterInv
<1>12. CASE UNCHANGED vars
  BY <1>12, WriterFrame DEF vars
<1>. QED  BY <1>1, <1>2, <1>3, <1>4, <1>5, <1>6, <1>7, <1>8, <1>9, <1>10, <1>11, <1>12
          DEF Next

\* Every step of the lease is a step of SingleWriter or a stutter.
LEMMA WriterMapping ==
    ASSUME Sheltered, TypeOK, WriterInv, [Next]_vars
    PROVE  [Writer!Next]_(Writer!vars)
<1>. USE DEF TypeOK
<1>1. ASSUME NEW p \in Proc, Acquire(p) PROVE Writer!Next
  <2>1. Writers = {} /\ dirt \subseteq {RunOf[p]}
    BY <1>1, AcquireAlone
  <2>2. Writers' = {p}
    BY <1>1, <2>1 DEF Acquire, Goto, Holding, Writers
  <2>3. Writer!Take(p)
    BY <1>1, <2>1, <2>2 DEF Acquire, Writers, Writer!Take
  <2>. QED  BY <2>3 DEF Writer!Next
<1>2. ASSUME NEW p \in Proc, Close(p) PROVE Writer!Next
  <2>1. Writers = {p}
    BY <1>2, OneWriter DEF Close, Holding
  <2>2. Writers' = {}
    BY <1>2, <2>1 DEF Close, Goto, Holding, Writers
  <2>3. Writer!Give(p)
    BY <1>2, <2>1, <2>2 DEF Close, Writers, Writer!Give
  <2>. QED  BY <2>3 DEF Writer!Next
<1>3. ASSUME NEW p \in Proc, Write(p) PROVE Writer!Next
  <2>1. Writer!Write(p)
    BY <1>3 DEF Write, Holding, Writer!Write
  <2>. QED  BY <2>1 DEF Writer!Next
<1>4. ASSUME NEW p \in Proc, AddAndCommit(p)
      PROVE  Writer!Next \/ UNCHANGED Writer!vars
  <2>1. p \in Writers /\ Writers' = Writers
    BY <1>4 DEF AddAndCommit, Goto, Holding, Writers
  <2>2. CASE dirt = {}
    <3>1. commits' = commits /\ dirt' = dirt
      BY <1>4, <2>2 DEF AddAndCommit
    <3>. QED  BY <2>1, <3>1 DEF Writers, Writer!vars
  <2>3. CASE dirt # {}
    <3>. DEFINE c == [by |-> RunOf[p], of |-> dirt, token |-> token[p], held |-> Held(p)]
    <3>1. commits' = commits \cup {c} /\ dirt' = {}
      BY <1>4, <2>3 DEF AddAndCommit
    <3>2. c.by = RunOf[p] /\ c.of = dirt
      OBVIOUS
    <3>. HIDE DEF c
    <3>3. Log' = Log \cup {[by |-> RunOf[p], of |-> dirt]}
      BY <3>1, <3>2 DEF Log
    <3>4. Writer!Commit(p)
      BY <2>1, <3>1, <3>3 DEF Writers, Log, Writer!Commit
    <3>. QED  BY <3>4 DEF Writer!Next
  <2>. QED  BY <2>2, <2>3
<1>5. ASSUME NEW p \in Proc, Crash(p) PROVE Writer!Next
  <2>1. pc[p] \in Holding
    BY <1>5 DEF Crash, PC
  <2>2. Writers = {p}
    BY <2>1, OneWriter
  <2>3. Writers' = {}
    BY <1>5, <2>2 DEF Crash, Dies, Holding, Writers
  <2>4. Writer!Give(p)
    BY <1>5, <2>2, <2>3 DEF Crash, Writers, Writer!Give
  <2>. QED  BY <2>4 DEF Writer!Next
<1>6. ASSUME NEW h \in Host, Reboot(h)
      PROVE  Writer!Next \/ UNCHANGED Writer!vars
  <2>1. Writers' = {q \in Writers : HostOf[q] # h} /\ UNCHANGED <<dirt, commits>>
    BY <1>6 DEF Reboot, Dies, Holding, Writers
  <2>2. CASE Writers' = Writers
    BY <2>1, <2>2 DEF Writers, Writer!vars
  <2>3. CASE Writers' # Writers
    <3>1. PICK p \in Writers : HostOf[p] = h
      BY <2>1, <2>3
    <3>2. p \in Proc /\ Writers = {p}
      BY <3>1, OneWriter DEF Writers
    <3>3. Writers' = {}
      BY <2>1, <3>1, <3>2
    <3>4. Writer!Give(p)
      BY <2>1, <3>2, <3>3 DEF Writers, Writer!Give
    <3>. QED  BY <3>2, <3>4 DEF Writer!Next
  <2>. QED  BY <2>2, <2>3
<1>7. ASSUME NEW p \in Proc, Freeze(p) \/ GiveUp(p) \/ CheckLease(p) \/ CompareTree(p)
                             \/ SecondLook(p)
      PROVE  UNCHANGED Writer!vars
  <2>1. \A q \in Proc : pc'[q] \in Holding <=> pc[q] \in Holding
    BY <1>7 DEF Freeze, GiveUp, CheckLease, CompareTree, SecondLook, Goto, Holding
  <2>2. UNCHANGED <<dirt, commits>>
    BY <1>7 DEF Freeze, GiveUp, CheckLease, CompareTree, SecondLook
  <2>. QED  BY <2>1, <2>2 DEF Writer!vars
<1>8. ASSUME NEW p \in Proc, Restart(p) PROVE UNCHANGED Writer!vars
  <2>1. \A q \in Proc : pc'[q] \in Holding <=> pc[q] \in Holding
    BY <1>8 DEF Restart, Goto, Holding
  <2>. QED  BY <1>8, <2>1 DEF Restart, Writer!vars
<1>9. ASSUME NEW p \in Proc, OrphanWrite(p) PROVE FALSE
  BY <1>9 DEF OrphanWrite, WriterInv
<1>10. ASSUME NEW p \in Proc, NEW t \in threads[p], Renew(p, t) PROVE UNCHANGED Writer!vars
  BY <1>10 DEF Renew, Writer!vars
<1>11. CASE Tick \/ UNCHANGED vars
  BY <1>11 DEF Tick, vars, Writer!vars
<1>. QED  BY <1>1, <1>2, <1>3, <1>4, <1>5, <1>6, <1>7, <1>8, <1>9, <1>10, <1>11 DEF Next

\* On one machine, as long as no renewal comes late and no role outlives its
\* controller, the lease implements the promise of a single writer: one process in an
\* iteration at a time, admitted to no other run's uncommitted work, through crashes,
\* reboots and locks that stay busy (acquire, _admit_worktree, renew, release).
THEOREM ImplementsSingleWriter ==
    ASSUME Sheltered
    PROVE  Spec => WriterSpec
<1>1. Init => WriterInv
  BY DEF Init, WriterInv, Holding
<1>2. Init => Writer!Init
  BY DEF Init, Writer!Init, Holding
<1>3. TypeOK /\ WriterInv /\ [Next]_vars => WriterInv'
  BY WriterStep, Sheltered
<1>4. TypeOK /\ WriterInv /\ [Next]_vars => [Writer!Next]_(Writer!vars)
  BY WriterMapping, Sheltered
<1>. QED  BY <1>1, <1>2, <1>3, <1>4, LeaseTyping, PTL DEF Spec, WriterSpec, Writer!Spec

-----------------------------------------------------------------------------
(* The seal of the candidate                                               *)

-----------------------------------------------------------------------------
(* What is written is of its type                                          *)

LEMMA ProcessPc ==
    ASSUME NEW r \in SealProcess, NEW x \in Pcs
    PROVE  [r EXCEPT !.pc = x] \in SealProcess
BY SMT DEF SealProcess
LEMMA ProcessDigest ==
    ASSUME NEW r \in SealProcess, NEW x \in Digest
    PROVE  [r EXCEPT !.digest = x] \in SealProcess /\ [r EXCEPT !.witness = x] \in SealProcess
BY SMT DEF SealProcess
LEMMA ProcessFlag ==
    ASSUME NEW r \in SealProcess, NEW x \in BOOLEAN
    PROVE  [r EXCEPT !.bad = x] \in SealProcess /\ [r EXCEPT !.waiting = x] \in SealProcess
BY SMT DEF SealProcess
LEMMA ProcessKeep ==
    ASSUME NEW r \in SealProcess, NEW x \in {"no", "approval", "unclean", "interrupt"}
    PROVE  [r EXCEPT !.keep = x] \in SealProcess
BY SMT DEF SealProcess
LEMMA ProcessSet ==
    ASSUME NEW r \in SealProcess, NEW x \in SUBSET Arena
    PROVE  [r EXCEPT !.left = x] \in SealProcess /\ [r EXCEPT !.hit = x] \in SealProcess
BY SMT DEF SealProcess
LEMMA ProcessAt ==
    ASSUME NEW r \in SealProcess, NEW x \in Nat
    PROVE  [r EXCEPT !.at = x] \in SealProcess
BY SMT DEF SealProcess
LEMMA NoProcessIs == NoProcess \in SealProcess
BY SMT DEF SealProcess, NoProcess, NoDigest, Digest, Pcs
\* A process that goes on is a process.
LEMMA GoesOn ==
    ASSUME SealTypeOK, NEW x \in Pcs, GoOn(x)
    PROVE  ctrl' \in SealProcess
BY ProcessPc DEF SealTypeOK, GoOn

LEMMA RunFields ==
    ASSUME NEW r \in SealRun
    PROVE  /\ \A b \in BOOLEAN : [r EXCEPT !.active = b] \in SealRun
           /\ \A b \in BOOLEAN : [r EXCEPT !.held = b] \in SealRun
           /\ \A n \in 0 .. MaxAttempts : [r EXCEPT !.attempt = n] \in SealRun
           /\ \A s \in {"working", "checkpointed",
               "delivered"} : [r EXCEPT !.stage = s] \in SealRun
BY SMT DEF SealRun

LEMMA DigestIs == ASSUME SealTypeOK, NEW a \in Arena PROVE FrozenDigest(a) \in Digest
BY SMT DEF SealTypeOK, ArenaRecord, FrozenDigest, Digest, OtherMode

-----------------------------------------------------------------------------
(* What becomes of the arenas and of the ledger, arena by arena            *)

LEMMA ModeIsSet ==
    ASSUME SealTypeOK, NEW a \in Arena, NEW m \in Modes, arenas' = [arenas EXCEPT ![a].mode = m]
    PROVE  /\ arenas' \in [Arena -> ArenaRecord]
           /\ \A b \in Arena : /\ arenas'[b].version = arenas[b].version
                               /\ arenas'[b].mode = IF b = a THEN m ELSE arenas[b].mode
BY SMT DEF SealTypeOK, ArenaRecord

\* A line says the same of the plan, the digest and the pane that keeps it.
SameLine(b) == /\ seals'[b].planned = seals[b].planned /\ seals'[b].frozen = seals[b].frozen
               /\ seals'[b].kept = seals[b].kept
\* It may say in addition that its seal was released, or is about to be.
LedgerReleases(a) ==
    /\ seals' \in [Arena -> SealLine]
    /\ \A b \in Arena : /\ SameLine(b) /\ seals'[b].releasing = seals[b].releasing
                        /\ b # a => seals'[b] = seals[b]
                        /\ seals[b].released => seals'[b].released
LedgerIsReleasing(a) ==
    /\ seals' \in [Arena -> SealLine]
    /\ \A b \in Arena : /\ SameLine(b) /\ seals'[b].released = seals[b].released
                        /\ b # a => seals'[b] = seals[b]
                        /\ seals[b].releasing => seals'[b].releasing
\* It may say what was found in an arena that was planned.
LedgerFinds ==
    /\ seals' \in [Arena -> SealLine]
    /\ \A b \in Arena : /\ SameLine(b) /\ seals'[b].releasing = seals[b].releasing
                        /\ seals'[b].released = seals[b].released
                        /\ ~seals[b].planned => seals'[b] = seals[b]

LEMMA LineFlag ==
    ASSUME NEW l \in SealLine, NEW b \in BOOLEAN
    PROVE  /\ [l EXCEPT !.planned = b] \in SealLine /\ [l EXCEPT !.released = b] \in SealLine
           /\ [l EXCEPT !.releasing = b] \in SealLine /\ [l EXCEPT !.kept = b] \in SealLine
BY SMT DEF SealLine
LEMMA NotesReleased ==
    ASSUME SealTypeOK, NEW a \in Arena,
           seals' \in {seals, [seals EXCEPT ![a] = [seals[a] EXCEPT !.released = TRUE]]}
    PROVE  LedgerReleases(a)
<1>. DEFINE l == [seals[a] EXCEPT !.released = TRUE]
<1>0. l \in SealLine
    BY LineFlag DEF SealTypeOK
<1>1. /\ l.planned = seals[a].planned /\ l.frozen = seals[a].frozen
      /\ l.kept = seals[a].kept /\ l.releasing = seals[a].releasing /\ l.released = TRUE
    BY SMT DEF SealTypeOK, SealLine
<1>. HIDE DEF l
<1>2. CASE seals' = [seals EXCEPT ![a] = l]
    BY <1>0, <1>1, <1>2, SMT DEF SealTypeOK, LedgerReleases, SameLine
<1>3. CASE seals' = seals
    BY <1>3 DEF SealTypeOK, LedgerReleases, SameLine
<1>. QED BY <1>2, <1>3 DEF l
LEMMA NotesReleasing ==
    ASSUME SealTypeOK, NEW a \in Arena,
           seals' \in {seals, [seals EXCEPT ![a] = [seals[a] EXCEPT !.releasing = TRUE]]}
    PROVE  LedgerIsReleasing(a)
<1>. DEFINE l == [seals[a] EXCEPT !.releasing = TRUE]
<1>0. l \in SealLine
    BY LineFlag DEF SealTypeOK
<1>1. /\ l.planned = seals[a].planned /\ l.frozen = seals[a].frozen
      /\ l.kept = seals[a].kept /\ l.released = seals[a].released /\ l.releasing = TRUE
    BY SMT DEF SealTypeOK, SealLine
<1>. HIDE DEF l
<1>2. CASE seals' = [seals EXCEPT ![a] = l]
    BY <1>0, <1>1, <1>2, SMT DEF SealTypeOK, LedgerIsReleasing, SameLine
<1>3. CASE seals' = seals
    BY <1>3 DEF SealTypeOK, LedgerIsReleasing, SameLine
<1>. QED BY <1>2, <1>3 DEF l
LEMMA TouchedLine ==
    ASSUME SealTypeOK, NEW a \in Arena
    PROVE  LET l == [seals[a] EXCEPT !.touched = FrozenDigest(a)] IN
           /\ l \in SealLine /\ l.planned = seals[a].planned /\ l.frozen = seals[a].frozen
           /\ l.kept = seals[a].kept /\ l.releasing = seals[a].releasing
           /\ l.released = seals[a].released
BY DigestIs, SMT DEF SealTypeOK, SealLine
LEMMA RecordsTouched == ASSUME SealTypeOK, RecordTouched PROVE LedgerFinds
<1>1. CASE UNCHANGED seals
    BY <1>1 DEF SealTypeOK, LedgerFinds, SameLine
<1>2. CASE seals' = [a \in Arena |-> IF a \in Touched
                                     THEN [seals[a] EXCEPT !.touched = FrozenDigest(a)]
                                     ELSE seals[a]]
  <2>1. \A a \in Arena : ~seals[a].planned => a \notin Touched
      BY DEF Touched, Comparable, OpenSeals
  <2>2. ASSUME NEW b \in Arena
        PROVE  /\ seals'[b] \in SealLine
               /\ SameLine(b) /\ seals'[b].releasing = seals[b].releasing
               /\ seals'[b].released = seals[b].released
               /\ ~seals[b].planned => seals'[b] = seals[b]
    <3>1. CASE b \in Touched
        BY <1>2, <2>1, <3>1, TouchedLine, Zenon DEF SameLine
    <3>2. CASE b \notin Touched
        BY <1>2, <3>2 DEF SealTypeOK, SameLine
    <3>. QED BY <3>1, <3>2
  <2>. QED BY <1>2, <2>2 DEF LedgerFinds
<1>. QED BY <1>1, <1>2 DEF RecordTouched

\* Once a verification has begun, its arena is one.
LEMMA AttemptIs ==
    ASSUME SealInv,
           ctrl.pc \in {"check", "plan", "apply", "record",
               "rollback"} \cup Asking \cup AfterCompare
    PROVE  A \in Arena
BY SMT DEF SealInv, FreshInv, Asking, AfterCompare, Lifting

\* One line of the ledger is written.
LEMMA LineIsSet ==
    ASSUME SealTypeOK, NEW a \in Arena, NEW l \in SealLine, seals' = [seals EXCEPT ![a] = l]
    PROVE  /\ seals' \in [Arena -> SealLine] /\ seals'[a] = l
           /\ \A b \in Arena : b # a => seals'[b] = seals[b]
BY SMT DEF SealTypeOK

\* A process that goes on changes nothing else.
LEMMA GoesOnOnly ==
    ASSUME SealTypeOK, NEW x \in Pcs, GoOn(x)
    PROVE /\ ctrl' \in SealProcess /\ ctrl'.pc = x /\ ctrl'.bad = ctrl.bad
        /\ ctrl'.hit = ctrl.hit
           /\ ctrl'.left = ctrl.left /\ ctrl'.at = ctrl.at /\ ctrl'.digest = ctrl.digest
           /\ ctrl'.witness = ctrl.witness /\ ctrl'.keep = ctrl.keep
BY SMT DEF SealTypeOK, SealProcess, GoOn

\* What the comparison at a release finds is a finding of the ledger.
LEMMA CompareFinds ==
    ASSUME SealTypeOK, A \in Arena, CompareSealed, seals[A].planned
    PROVE  LedgerFinds
<1>1. CASE UNCHANGED seals
    BY <1>1 DEF SealTypeOK, LedgerFinds, SameLine
<1>2. CASE seals' = [seals EXCEPT ![A] = [seals[A] EXCEPT !.touched = FrozenDigest(A)]]
  <2>. DEFINE l == [seals[A] EXCEPT !.touched = FrozenDigest(A)]
  <2>1. /\ l \in SealLine /\ l.planned = seals[A].planned /\ l.frozen = seals[A].frozen
        /\ l.kept = seals[A].kept /\ l.releasing = seals[A].releasing
        /\ l.released = seals[A].released
      BY TouchedLine, Zenon
  <2>2. seals' = [seals EXCEPT ![A] = l]
      BY <1>2
  <2>. HIDE DEF l
  <2>. QED BY <2>1, <2>2, LineIsSet DEF LedgerFinds, SameLine
<1>. QED BY <1>1, <1>2 DEF CompareSealed, NoteLine

\* Whatever leaves the arenas and lines without a plan as they are leaves the fresh ones so.
Outside == {"off", "idle", "closing", "compareKept", "lift"} \cup Lifting
LEMMA FreshRests ==
    ASSUME SealInv, run'.attempt = run.attempt,
           ctrl'.pc \in {"check", "plan"} => ctrl.pc \in {"check", "plan"},
           ctrl'.pc \notin Outside => ctrl.pc \notin Outside,
           \A a \in Arena : \/ seals[a].planned
                            \/ a = A /\ ctrl'.pc \notin {"check", "plan"}
                            \/ seals'[a] = seals[a] /\ arenas'[a].mode = arenas[a].mode
    PROVE  FreshInv'
<1>1. A' = A
    BY DEF A
<1>2. A \in Nat /\ Arena \subseteq Nat
    BY SealAssumption, SMT DEF SealInv, SealTypeOK, SealRun, A, Arena
<1>3. ASSUME NEW a \in Arena, a > A \/ (a = A /\ ctrl'.pc \in {"check", "plan"})
      PROVE  seals'[a] = NoLine /\ arenas'[a].mode = "none"
  <2>1. seals[a] = NoLine /\ arenas[a].mode = "none"
      BY <1>3 DEF SealInv, FreshInv
  <2>2. ~seals[a].planned
      BY <2>1 DEF NoLine
  <2>3. ~(a = A /\ ctrl'.pc \notin {"check", "plan"})
      BY <1>2, <1>3, SMT
  <2>. QED BY <2>1, <2>2, <2>3
<1>4. ctrl'.pc \notin Outside => A \in Arena
    BY DEF SealInv, FreshInv, Outside
<1>. QED BY <1>1, <1>3, <1>4, Zenon DEF FreshInv, Outside


\* A hold leaves the attempt and the stage as they are.
LEMMA Holds ==
    ASSUME SealTypeOK, Hold
    PROVE /\ run' \in SealRun /\ run'.held /\ run'.attempt = run.attempt
        /\ run'.stage = run.stage
           /\ ~run'.active
<1>1. [run EXCEPT !.active = FALSE] \in SealRun
    BY RunFields DEF SealTypeOK
<1>2. run' \in SealRun
    BY <1>1, RunFields, Zenon DEF Hold
<1>. QED BY <1>2, SMT DEF SealTypeOK, SealRun, Hold
LEMMA ComparesAndHolds ==
    ASSUME SealTypeOK, CompareAndHold
    PROVE  /\ LedgerFinds /\ run' \in SealRun
           /\ run'.attempt = run.attempt /\ run'.stage = run.stage /\ (run.held => run'.held)
<1>1. LedgerFinds
    BY RecordsTouched DEF CompareAndHold
<1>2. CASE Touched # {}
    BY <1>1, <1>2, Holds DEF CompareAndHold
<1>3. CASE Touched = {}
    BY <1>1, <1>3 DEF CompareAndHold, SealTypeOK
<1>. QED BY <1>2, <1>3

\* A process that ends after its last comparison leaves nothing behind that is not held.
LEMMA EndKeeps ==
    ASSUME SealInv, LedgerFinds, UNCHANGED <<arenas, qa, hits, lost, pardoned>>,
        run' \in SealRun,
           run'.attempt = run.attempt, run'.stage = run.stage, run.held => run'.held,
           ctrl' = NoProcess, ctrl.pc \in {"compareKept", "lift", "lifting"},
           ctrl.hit # {} /\ ctrl.pc = "lifting" => run'.held
    PROVE  SealInv' 
<1>1. /\ ctrl' \in SealProcess /\ ctrl'.pc = "off" /\ ~ctrl'.bad /\ ctrl'.hit = {} /\ A' = A
      /\ Lifting = {"lifting", "liftUnseal", "liftReleased"}
    BY NoProcessIs DEF NoProcess, A, Lifting
<1>2. SealTypeOK'
    BY <1>1, Zenon DEF SealInv, SealTypeOK, LedgerFinds
<1>3. PlannedIsFirst'
    BY <1>1, SMT, SealAssumption DEF LedgerFinds, SameLine, SealInv, SealTypeOK, SealLine,
        ArenaRecord, PlannedIsFirst, FreshInv, AttemptInv, ReleasingInv, LiftInv, NoLine,
        Asking, AfterCompare, Lifting, SealProcess, A
<1>4. FreshInv'
    BY <1>1, FreshRests, SMT DEF LedgerFinds, SameLine, SealInv, Outside, Lifting, AttemptInv,
        LiftInv, Asking, AfterCompare, A
<1>5. AttemptInv'
    BY <1>1, SMT, SealAssumption DEF LedgerFinds, SameLine, SealInv, SealTypeOK, SealLine,
        ArenaRecord, SealProcess, NoProcess, FreshInv, AttemptInv, NoLine, Asking, AfterCompare,
        A
<1>6. ReleasingInv'
    BY <1>1, SMT, SealAssumption DEF LedgerFinds, SameLine, SealInv, SealTypeOK, SealLine,
        ArenaRecord, SealProcess, NoProcess, PlannedIsFirst, FreshInv, AttemptInv, ReleasingInv,
        LiftInv, NoLine, Asking, AfterCompare, Lifting, A
<1>7. LiftInv'
    BY <1>1, SMT, SealAssumption DEF LedgerFinds, SameLine, SealInv, SealTypeOK, SealLine,
        ArenaRecord, SealProcess, NoProcess, LiftInv, Lifting, A
<1>8. HitInv'
    BY <1>1, SMT, SealAssumption DEF LedgerFinds, SameLine, SealInv, SealTypeOK, SealLine,
        ArenaRecord, SealRun, SealProcess, NoProcess, Digest, NoDigest, OtherMode,
        PlannedIsFirst, FreshInv, AttemptInv, ReleasingInv, LiftInv, HitInv, FoundInv, HandInv,
        Settled, InHand, NoLine, Asking, AfterCompare, Lifting, A
<1>9. FoundInv'
    BY <1>1, SMT, SealAssumption DEF LedgerFinds, SameLine, SealInv, SealTypeOK, SealLine,
        ArenaRecord, SealProcess, NoProcess, Digest, NoDigest, OtherMode, FreshInv, AttemptInv,
        LiftInv, HitInv, FoundInv, HandInv, Settled, InHand, Asking, AfterCompare, Lifting, A
<1>10. HandInv'
    BY <1>1, SMT, SealAssumption DEF LedgerFinds, SameLine, SealInv, SealTypeOK, SealLine,
        ArenaRecord, SealRun, SealProcess, NoProcess, AttemptInv, LiftInv, HitInv, FoundInv,
        HandInv, OpenSeals, Settled, InHand, Asking, AfterCompare, Lifting, A
<1>. QED BY <1>2, <1>3, <1>4, <1>5, <1>6, <1>7, <1>8, <1>9, <1>10 DEF SealInv

LEMMA RunStartsKeeps ==
    ASSUME SealInv, RunStarts
    PROVE  SealInv'
<1>1. SealTypeOK'
  <2>1. ctrl' \in SealProcess
      BY NoProcessIs, ProcessPc DEF Pcs, RunStarts
  <2>. QED BY <2>1, Zenon DEF SealInv, SealTypeOK, NoHistory, RunStarts
<1>2. PlannedIsFirst'
    BY SMT, SealAssumption DEF SealInv, SealTypeOK, SealLine, ArenaRecord, PlannedIsFirst,
        FreshInv, AttemptInv, ReleasingInv, LiftInv, NoLine, Asking, AfterCompare, Lifting,
        SealProcess, RunStarts, A, In, Fine, NoHistory
<1>3. FreshInv'
    BY SMT, SealAssumption DEF SealInv, SealTypeOK, SealLine, ArenaRecord, SealRun, SealProcess,
        NoProcess, Arena, FreshInv, AttemptInv, ReleasingInv, LiftInv, NoLine, Asking,
        AfterCompare, Lifting, RunStarts, A, In, Fine, NoHistory
<1>4. AttemptInv'
    BY SMT, SealAssumption DEF SealInv, SealTypeOK, SealLine, ArenaRecord, SealProcess,
        NoProcess, FreshInv, AttemptInv, NoLine, Asking, AfterCompare, RunStarts, A, In, Fine,
        NoHistory
<1>5. ReleasingInv'
    BY SMT, SealAssumption DEF SealInv, SealTypeOK, SealLine, ArenaRecord, SealProcess,
        NoProcess, PlannedIsFirst, FreshInv, AttemptInv, ReleasingInv, LiftInv, NoLine, Asking,
        AfterCompare, Lifting, RunStarts, A, In, Fine, NoHistory
<1>6. LiftInv'
    BY SMT, SealAssumption DEF SealInv, SealTypeOK, SealLine, ArenaRecord, SealProcess,
        NoProcess, LiftInv, Lifting, RunStarts, A, In, Fine, NoHistory
<1>7. HitInv'
    BY SMT, SealAssumption DEF SealInv, SealTypeOK, SealLine, ArenaRecord, SealRun, SealProcess,
        NoProcess, Digest, NoDigest, OtherMode, PlannedIsFirst, FreshInv, AttemptInv,
        ReleasingInv, LiftInv, HitInv, FoundInv, HandInv, Settled, InHand, NoLine, Asking,
        AfterCompare, Lifting, RunStarts, A, In, Fine, NoHistory
<1>8. FoundInv'
    BY SMT, SealAssumption DEF SealInv, SealTypeOK, SealLine, ArenaRecord, SealProcess,
        NoProcess, Digest, NoDigest, OtherMode, FreshInv, AttemptInv, LiftInv, HitInv, FoundInv,
        HandInv, Settled, InHand, Asking, AfterCompare, Lifting, RunStarts, A, In, Fine,
        NoHistory
<1>9. HandInv'
    BY SMT, SealAssumption DEF SealInv, SealTypeOK, SealLine, ArenaRecord, SealRun, SealProcess,
        NoProcess, AttemptInv, LiftInv, HitInv, FoundInv, HandInv, OpenSeals, Settled, InHand,
        Asking, AfterCompare, Lifting, RunStarts, A, In, Fine, NoHistory
<1>. QED BY <1>1, <1>2, <1>3, <1>4, <1>5, <1>6, <1>7, <1>8, <1>9 DEF SealInv

LEMMA VerifyKeeps ==
    ASSUME SealInv, Verify
    PROVE  SealInv'
<1>1. SealTypeOK'
  <2>1. run' \in SealRun
    <3>1. run.attempt + 1 \in 0 .. MaxAttempts
        BY SealAssumption, SMT DEF SealInv, SealTypeOK, SealRun, A, Verify
    <3>. QED BY <3>1, RunFields DEF SealInv, SealTypeOK, Verify
  <2>2. ctrl' \in SealProcess
      BY ProcessPc, ProcessFlag, ProcessKeep, ProcessSet DEF SealInv, SealTypeOK, Pcs,
          OpenSeals, Verify
  <2>. QED BY <2>1, <2>2, Zenon DEF SealInv, SealTypeOK, NoHistory, Verify
<1>2. PlannedIsFirst'
    BY SMT, SealAssumption DEF SealInv, SealTypeOK, SealLine, ArenaRecord, PlannedIsFirst,
        FreshInv, AttemptInv, ReleasingInv, LiftInv, NoLine, Asking, AfterCompare, Lifting,
        SealProcess, Verify, OpenSeals, A, In, Fine, NoHistory
<1>3. FreshInv'
    BY SMT, SealAssumption DEF SealInv, SealTypeOK, SealLine, ArenaRecord, SealRun, SealProcess,
        Arena, FreshInv, AttemptInv, ReleasingInv, LiftInv, NoLine, Asking, AfterCompare,
        Lifting, Verify, OpenSeals, A, In, Fine, NoHistory
<1>4. AttemptInv'
    BY SMT, SealAssumption DEF SealInv, SealTypeOK, SealLine, ArenaRecord, SealProcess,
        FreshInv, AttemptInv, NoLine, Asking, AfterCompare, Verify, OpenSeals, A, In, Fine,
        NoHistory
<1>5. ReleasingInv'
    BY SMT, SealAssumption DEF SealInv, SealTypeOK, SealLine, ArenaRecord, SealProcess,
        PlannedIsFirst, FreshInv, AttemptInv, ReleasingInv, LiftInv, NoLine, Asking,
        AfterCompare, Lifting, OpenSeals, Verify, A, In, Fine, NoHistory
<1>6. LiftInv'
    BY SMT, SealAssumption DEF SealInv, SealTypeOK, SealLine, ArenaRecord, SealProcess, LiftInv,
        Lifting, OpenSeals, Verify, A, In, Fine, NoHistory
<1>7. HitInv'
    BY SMT, SealAssumption DEF SealInv, SealTypeOK, SealLine, ArenaRecord, SealRun, SealProcess,
        NoProcess, Digest, NoDigest, OtherMode, PlannedIsFirst, FreshInv, AttemptInv,
        ReleasingInv, LiftInv, HitInv, FoundInv, HandInv, Settled, InHand, NoLine, Asking,
        AfterCompare, Lifting, Verify, OpenSeals, A, In, Fine, NoHistory
<1>8. FoundInv'
    BY SMT, SealAssumption DEF SealInv, SealTypeOK, SealLine, ArenaRecord, SealProcess,
        NoProcess, Digest, NoDigest, OtherMode, FreshInv, AttemptInv, LiftInv, HitInv, FoundInv,
        HandInv, Settled, InHand, Asking, AfterCompare, Lifting, Verify, OpenSeals, A, In, Fine,
        NoHistory
<1>9. HandInv'
    BY SMT, SealAssumption DEF SealInv, SealTypeOK, SealLine, ArenaRecord, SealRun, SealProcess,
        NoProcess, AttemptInv, LiftInv, HitInv, FoundInv, HandInv, OpenSeals, Settled, InHand,
        Asking, AfterCompare, Lifting, Verify, A, In, Fine, NoHistory
<1>. QED BY <1>1, <1>2, <1>3, <1>4, <1>5, <1>6, <1>7, <1>8, <1>9 DEF SealInv

LEMMA FinishReleaseKeeps ==
    ASSUME SealInv, NEW a \in Arena, FinishRelease(a)
    PROVE  SealInv'
<1>1. LedgerReleases(a)
    BY NotesReleased, Zenon DEF SealInv, NoteLine, FinishRelease
<1>2. \E m \in {"open", "part"} : arenas' = [arenas EXCEPT ![a].mode = m]
    BY DEF FinishRelease
<1>3. /\ arenas' \in [Arena -> ArenaRecord]
      /\ \A b \in Arena : /\ arenas'[b].version = arenas[b].version
                          /\ b # a => arenas'[b].mode = arenas[b].mode
                          /\ b = a => arenas'[b].mode \in {"open", "part"}
    BY <1>2, <1>1, <1>2, ModeIsSet DEF SealInv, Modes
<1>4. SealTypeOK'
  <2>1. ctrl' \in SealProcess
      BY ProcessSet DEF SealInv, SealTypeOK, SealProcess, FinishRelease
  <2>. QED BY <1>1, <1>2, <1>3, <2>1, Zenon DEF SealInv, SealTypeOK, LedgerReleases, NoHistory,
      FinishRelease
<1>5. PlannedIsFirst'
    BY <1>1, <1>2, <1>3, SMT, SealAssumption DEF SameLine, LedgerReleases, SealInv, SealTypeOK,
        SealLine, ArenaRecord, PlannedIsFirst, FreshInv, AttemptInv, ReleasingInv, LiftInv,
        NoLine, Asking, AfterCompare, Lifting, SealProcess, FinishRelease, A, In, Mishap,
        NoHistory
<1>6. FreshInv'
    BY <1>1, <1>2, <1>3, SMT, SealAssumption DEF SameLine, LedgerReleases, SealInv, SealTypeOK,
        SealLine, ArenaRecord, SealRun, SealProcess, Arena, FreshInv, AttemptInv, ReleasingInv,
        LiftInv, NoLine, Asking, AfterCompare, Lifting, FinishRelease, A, In, Mishap, NoHistory
<1>7. AttemptInv'
    BY <1>1, <1>2, <1>3, SMT, SealAssumption DEF SameLine, LedgerReleases, SealInv, SealTypeOK,
        SealLine, ArenaRecord, SealProcess, FreshInv, AttemptInv, NoLine, Asking, AfterCompare,
        FinishRelease, A, In, Mishap, NoHistory
<1>8. ReleasingInv'
    BY <1>1, <1>2, <1>3, SMT, SealAssumption DEF SameLine, LedgerReleases, SealInv, SealTypeOK,
        SealLine, ArenaRecord, SealProcess, PlannedIsFirst, FreshInv, AttemptInv, ReleasingInv,
        LiftInv, NoLine, Asking, AfterCompare, Lifting, FinishRelease, A, In, Mishap, NoHistory
<1>9. LiftInv'
    BY <1>1, <1>2, <1>3, SMT, SealAssumption DEF SameLine, LedgerReleases, SealInv, SealTypeOK,
        SealLine, ArenaRecord, SealProcess, LiftInv, Lifting, FinishRelease, A, In, Mishap,
        NoHistory
<1>10. HitInv'
    BY <1>1, <1>2, <1>3, SMT, SealAssumption DEF SameLine, LedgerReleases, SealInv, SealTypeOK,
        SealLine, ArenaRecord, SealRun, SealProcess, NoProcess, Digest, NoDigest, OtherMode,
        PlannedIsFirst, FreshInv, AttemptInv, ReleasingInv, LiftInv, HitInv, FoundInv, HandInv,
        Settled, InHand, NoLine, Asking, AfterCompare, Lifting, FinishRelease, A, In, Mishap,
        NoHistory
<1>11. FoundInv'
    BY <1>1, <1>2, <1>3, SMT, SealAssumption DEF SameLine, LedgerReleases, SealInv, SealTypeOK,
        SealLine, ArenaRecord, SealProcess, NoProcess, Digest, NoDigest, OtherMode, FreshInv,
        AttemptInv, LiftInv, HitInv, FoundInv, HandInv, Settled, InHand, Asking, AfterCompare,
        Lifting, FinishRelease, A, In, Mishap, NoHistory
<1>12. HandInv'
    BY <1>1, <1>2, <1>3, SMT, SealAssumption DEF SameLine, LedgerReleases, SealInv, SealTypeOK,
        SealLine, ArenaRecord, SealRun, SealProcess, NoProcess, AttemptInv, LiftInv, HitInv,
        FoundInv, HandInv, OpenSeals, Settled, InHand, Asking, AfterCompare, Lifting,
        FinishRelease, A, In, Mishap, NoHistory
<1>. QED BY <1>4, <1>5, <1>6, <1>7, <1>8, <1>9, <1>10, <1>11, <1>12 DEF SealInv

LEMMA CheckOpenSealsKeeps ==
    ASSUME SealInv, CheckOpenSeals
    PROVE  SealInv'
<1>1. LedgerFinds
    BY RecordsTouched DEF SealInv, CheckOpenSeals
<1>2. SealTypeOK'
  <2>1. ctrl' \in SealProcess
      BY GoesOn, Zenon DEF SealInv, Pcs, CheckOpenSeals
  <2>. QED BY <1>1, <2>1, Zenon DEF SealInv, SealTypeOK, LedgerFinds, NoHistory, CheckOpenSeals
<1>3. PlannedIsFirst'
    BY <1>1, SMT, SealAssumption DEF SameLine, LedgerFinds, SealInv, SealTypeOK, SealLine,
        ArenaRecord, PlannedIsFirst, FreshInv, AttemptInv, ReleasingInv, LiftInv, NoLine,
        Asking, AfterCompare, Lifting, SealProcess, CheckOpenSeals, Touched, Comparable,
        OpenSeals, A, In, GoOn, NoHistory
<1>4. FreshInv'
    BY <1>1, SMT, SealAssumption DEF SameLine, LedgerFinds, SealInv, SealTypeOK, SealLine,
        ArenaRecord, SealRun, SealProcess, Arena, FreshInv, AttemptInv, ReleasingInv, LiftInv,
        NoLine, Asking, AfterCompare, Lifting, CheckOpenSeals, Touched, Comparable, OpenSeals,
        A, In, GoOn, NoHistory
<1>5. AttemptInv'
    BY <1>1, SMT, SealAssumption DEF SameLine, LedgerFinds, SealInv, SealTypeOK, SealLine,
        ArenaRecord, SealProcess, FreshInv, AttemptInv, NoLine, Asking, AfterCompare,
        CheckOpenSeals, Touched, Comparable, OpenSeals, A, In, GoOn, NoHistory
<1>6. ReleasingInv'
    BY <1>1, SMT, SealAssumption DEF SameLine, LedgerFinds, SealInv, SealTypeOK, SealLine,
        ArenaRecord, SealProcess, PlannedIsFirst, FreshInv, AttemptInv, ReleasingInv, LiftInv,
        NoLine, Asking, AfterCompare, Lifting, OpenSeals, CheckOpenSeals, Touched, Comparable,
        A, In, GoOn, NoHistory
<1>7. LiftInv'
    BY <1>1, SMT, SealAssumption DEF SameLine, LedgerFinds, SealInv, SealTypeOK, SealLine,
        ArenaRecord, SealProcess, LiftInv, Lifting, OpenSeals, CheckOpenSeals, Touched,
        Comparable, A, In, GoOn, NoHistory
<1>8. HitInv'
    BY <1>1, SMT, SealAssumption DEF SameLine, LedgerFinds, SealInv, SealTypeOK, SealLine,
        ArenaRecord, SealRun, SealProcess, NoProcess, Digest, NoDigest, OtherMode,
        PlannedIsFirst, FreshInv, AttemptInv, ReleasingInv, LiftInv, HitInv, FoundInv, HandInv,
        Settled, InHand, NoLine, Asking, AfterCompare, Lifting, CheckOpenSeals, Touched,
        Comparable, OpenSeals, A, In, GoOn, NoHistory
<1>9. FoundInv'
    BY <1>1, SMT, SealAssumption DEF SameLine, LedgerFinds, SealInv, SealTypeOK, SealLine,
        ArenaRecord, SealProcess, NoProcess, Digest, NoDigest, OtherMode, FreshInv, AttemptInv,
        LiftInv, HitInv, FoundInv, HandInv, Settled, InHand, Asking, AfterCompare, Lifting,
        CheckOpenSeals, Touched, Comparable, OpenSeals, A, In, GoOn, NoHistory
<1>10. HandInv'
    BY <1>1, SMT, SealAssumption DEF SameLine, LedgerFinds, SealInv, SealTypeOK, SealLine,
        ArenaRecord, SealRun, SealProcess, NoProcess, AttemptInv, LiftInv, HitInv, FoundInv,
        HandInv, OpenSeals, Settled, InHand, Asking, AfterCompare, Lifting, CheckOpenSeals,
        Touched, Comparable, A, In, GoOn, NoHistory
<1>. QED BY <1>2, <1>3, <1>4, <1>5, <1>6, <1>7, <1>8, <1>9, <1>10 DEF SealInv

LEMMA PlanSealKeeps ==
    ASSUME SealInv, PlanSeal
    PROVE  SealInv'
<1>1. A \in Arena
    BY AttemptIs DEF In, Asking, AfterCompare, PlanSeal
<1>2. \E m \in {"open"} : arenas' = [arenas EXCEPT ![A].mode = m]
    BY DEF PlanSeal
<1>3. /\ arenas' \in [Arena -> ArenaRecord]
      /\ \A b \in Arena : /\ arenas'[b].version = arenas[b].version
                          /\ b # A => arenas'[b].mode = arenas[b].mode
                          /\ b = A => arenas'[b].mode \in {"open"}
    BY ZenonT(60), <1>1, <1>2, ModeIsSet DEF SealInv, Modes
<1>4. SealTypeOK'
  <2>1. seals' \in [Arena -> SealLine]
    <3>1. [seals[A] EXCEPT !.planned = TRUE] \in SealLine
        BY <1>1, LineFlag DEF SealInv, SealTypeOK
    <3>. QED BY <1>1, <3>1, LineIsSet DEF SealInv, SealTypeOK, PlanSeal
  <2>2. ctrl' \in SealProcess
      BY GoesOn DEF SealInv, Pcs, Asking, AfterCompare, Lifting, PlanSeal
  <2>. QED BY <1>1, <1>2, <1>3, <2>1, <2>2, Zenon DEF SealInv, SealTypeOK, NoHistory, PlanSeal
<1>5. PlannedIsFirst'
    BY <1>1, <1>2, <1>3, SMT, SealAssumption DEF SealInv, SealTypeOK, SealLine, ArenaRecord,
        PlannedIsFirst, FreshInv, AttemptInv, ReleasingInv, LiftInv, NoLine, Asking,
        AfterCompare, Lifting, SealProcess, PlanSeal, A, In, GoOn, Mishap, Fine, NoHistory
<1>6. FreshInv'
    BY <1>1, <1>2, <1>3, FreshRests, SMT DEF SealInv, SealTypeOK, SealProcess, SealRun,
        SealLine, ArenaRecord, Outside, Lifting, PlanSeal, A, In, GoOn, Fine, NoHistory
<1>7. AttemptInv'
    BY <1>1, <1>2, <1>3, SMT, SealAssumption DEF SealInv, SealTypeOK, SealLine, ArenaRecord,
        SealProcess, FreshInv, AttemptInv, NoLine, Asking, AfterCompare, PlanSeal, A, In, GoOn,
        Mishap, Fine, NoHistory
<1>8. ReleasingInv'
    BY <1>1, <1>2, <1>3, SMT, SealAssumption DEF SealInv, SealTypeOK, SealLine, ArenaRecord,
        SealProcess, PlannedIsFirst, FreshInv, AttemptInv, ReleasingInv, LiftInv, NoLine,
        Asking, AfterCompare, Lifting, PlanSeal, A, In, GoOn, Mishap, Fine, NoHistory
<1>9. LiftInv'
    BY <1>1, <1>2, <1>3, SMT, SealAssumption DEF SealInv, SealTypeOK, SealLine, ArenaRecord,
        SealProcess, LiftInv, Lifting, PlanSeal, A, In, GoOn, Mishap, Fine, NoHistory
<1>10. HitInv'
    BY <1>1, <1>2, <1>3, SMT, SealAssumption DEF SealInv, SealTypeOK, SealLine, ArenaRecord,
        SealRun, SealProcess, NoProcess, Digest, NoDigest, OtherMode, PlannedIsFirst, FreshInv,
        AttemptInv, ReleasingInv, LiftInv, HitInv, FoundInv, HandInv, Settled, InHand, NoLine,
        Asking, AfterCompare, Lifting, PlanSeal, A, In, GoOn, Mishap, Fine, NoHistory
<1>11. FoundInv'
    BY <1>1, <1>2, <1>3, SMT, SealAssumption DEF SealInv, SealTypeOK, SealLine, ArenaRecord,
        SealProcess, NoProcess, Digest, NoDigest, OtherMode, FreshInv, AttemptInv, LiftInv,
        HitInv, FoundInv, HandInv, Settled, InHand, Asking, AfterCompare, Lifting, PlanSeal, A,
        In, GoOn, Mishap, Fine, NoHistory
<1>12. HandInv'
    BY <1>1, <1>2, <1>3, SMT, SealAssumption DEF SealInv, SealTypeOK, SealLine, ArenaRecord,
        SealRun, SealProcess, NoProcess, AttemptInv, LiftInv, HitInv, FoundInv, HandInv,
        OpenSeals, Settled, InHand, Asking, AfterCompare, Lifting, PlanSeal, A, In, GoOn,
        Mishap, Fine, NoHistory
<1>. QED BY <1>4, <1>5, <1>6, <1>7, <1>8, <1>9, <1>10, <1>11, <1>12 DEF SealInv

LEMMA ApplySealKeeps ==
    ASSUME SealInv, ApplySeal
    PROVE  SealInv'
<1>1. A \in Arena
    BY AttemptIs DEF In, Asking, AfterCompare, ApplySeal
<1>2. \E m \in {"sealed", "part"} : arenas' = [arenas EXCEPT ![A].mode = m]
    BY DEF ApplySeal
<1>3. /\ arenas' \in [Arena -> ArenaRecord]
      /\ \A b \in Arena : /\ arenas'[b].version = arenas[b].version
                          /\ b # A => arenas'[b].mode = arenas[b].mode
                          /\ b = A => arenas'[b].mode \in {"sealed", "part"}
    BY <1>2, <1>1, <1>2, ModeIsSet DEF SealInv, Modes
<1>4. SealTypeOK'
  <2>1. ctrl' \in SealProcess
      BY GoesOn DEF SealInv, Pcs, Asking, AfterCompare, Lifting, ApplySeal
  <2>. QED BY <1>1, <1>2, <1>3, <2>1, Zenon DEF SealInv, SealTypeOK, NoHistory, ApplySeal
<1>5. PlannedIsFirst'
    BY <1>1, <1>2, <1>3, SMT, SealAssumption DEF SealInv, SealTypeOK, SealLine, ArenaRecord,
        PlannedIsFirst, FreshInv, AttemptInv, ReleasingInv, LiftInv, NoLine, Asking,
        AfterCompare, Lifting, SealProcess, ApplySeal, A, In, GoOn, Mishap, Fine, NoHistory
<1>6. FreshInv'
    BY <1>1, <1>2, <1>3, SMT, SealAssumption DEF SealInv, SealTypeOK, SealLine, ArenaRecord,
        SealRun, SealProcess, Arena, FreshInv, AttemptInv, ReleasingInv, LiftInv, NoLine,
        Asking, AfterCompare, Lifting, ApplySeal, A, In, GoOn, Mishap, Fine, NoHistory
<1>7. AttemptInv'
    BY <1>1, <1>2, <1>3, SMT, SealAssumption DEF SealInv, SealTypeOK, SealLine, ArenaRecord,
        SealProcess, FreshInv, AttemptInv, NoLine, Asking, AfterCompare, ApplySeal, A, In, GoOn,
        Mishap, Fine, NoHistory
<1>8. ReleasingInv'
    BY <1>1, <1>2, <1>3, SMT, SealAssumption DEF SealInv, SealTypeOK, SealLine, ArenaRecord,
        SealProcess, PlannedIsFirst, FreshInv, AttemptInv, ReleasingInv, LiftInv, NoLine,
        Asking, AfterCompare, Lifting, ApplySeal, A, In, GoOn, Mishap, Fine, NoHistory
<1>9. LiftInv'
    BY <1>1, <1>2, <1>3, SMT, SealAssumption DEF SealInv, SealTypeOK, SealLine, ArenaRecord,
        SealProcess, LiftInv, Lifting, ApplySeal, A, In, GoOn, Mishap, Fine, NoHistory
<1>10. HitInv'
    BY <1>1, <1>2, <1>3, SMT, SealAssumption DEF SealInv, SealTypeOK, SealLine, ArenaRecord,
        SealRun, SealProcess, NoProcess, Digest, NoDigest, OtherMode, PlannedIsFirst, FreshInv,
        AttemptInv, ReleasingInv, LiftInv, HitInv, FoundInv, HandInv, Settled, InHand, NoLine,
        Asking, AfterCompare, Lifting, ApplySeal, A, In, GoOn, Mishap, Fine, NoHistory
<1>11. FoundInv'
    BY <1>1, <1>2, <1>3, SMT, SealAssumption DEF SealInv, SealTypeOK, SealLine, ArenaRecord,
        SealProcess, NoProcess, Digest, NoDigest, OtherMode, FreshInv, AttemptInv, LiftInv,
        HitInv, FoundInv, HandInv, Settled, InHand, Asking, AfterCompare, Lifting, ApplySeal, A,
        In, GoOn, Mishap, Fine, NoHistory
<1>12. HandInv'
    BY <1>1, <1>2, <1>3, SMT, SealAssumption DEF SealInv, SealTypeOK, SealLine, ArenaRecord,
        SealRun, SealProcess, NoProcess, AttemptInv, LiftInv, HitInv, FoundInv, HandInv,
        OpenSeals, Settled, InHand, Asking, AfterCompare, Lifting, ApplySeal, A, In, GoOn,
        Mishap, Fine, NoHistory
<1>. QED BY <1>4, <1>5, <1>6, <1>7, <1>8, <1>9, <1>10, <1>11, <1>12 DEF SealInv

LEMMA RecordSealedKeeps ==
    ASSUME SealInv, RecordSealed
    PROVE  SealInv'
<1>1. A \in Arena
    BY AttemptIs DEF In, Asking, AfterCompare, RecordSealed
<1>2. arenas[A].mode = "sealed" /\ seals[A].planned
    BY <1>1, SMT DEF SealInv, AttemptInv, RecordSealed, In
<1>3. FrozenDigest(A) = arenas[A].version /\ arenas[A].version \in Nat
    BY <1>1, <1>2, SMT DEF SealInv, SealTypeOK, ArenaRecord, FrozenDigest
<1>. DEFINE d == arenas[A].version
            l == [seals[A] EXCEPT !.frozen = d]
<1>4. /\ l \in SealLine /\ l.frozen = d /\ l.planned = seals[A].planned
    /\ l.kept = seals[A].kept
      /\ l.releasing = seals[A].releasing /\ l.released = seals[A].released
    BY <1>1, <1>3, SMT DEF SealInv, SealTypeOK, SealLine, Digest
<1>5. seals' \in {seals, [seals EXCEPT ![A] = l]}
    BY <1>3 DEF RecordSealed
<1>. HIDE DEF l
<1>6. /\ seals' \in [Arena -> SealLine]
      /\ \A b \in Arena : /\ b # A => seals'[b] = seals[b]
                          /\ seals'[b].planned = seals[b].planned
                              /\ seals'[b].kept = seals[b].kept
                          /\ seals'[b].releasing = seals[b].releasing
                          /\ seals'[b].released = seals[b].released
    BY <1>1, <1>4, <1>5, SMT DEF SealInv, SealTypeOK
<1>7. \/ seals'[A].frozen = d /\ ctrl' = [ctrl EXCEPT !.pc = "ask", !.digest = d]
      \/ seals' = seals /\ GoOn("rollback")
  <2>1. CASE /\ seals' = [seals EXCEPT ![A].frozen = FrozenDigest(A)]
             /\ ctrl' = [ctrl EXCEPT !.pc = "ask", !.digest = FrozenDigest(A)]
    <3>1. seals' = [seals EXCEPT ![A] = l]
        BY <1>3, <2>1, Zenon DEF l
    <3>. QED BY <1>1, <1>3, <1>4, <2>1, <3>1, LineIsSet DEF SealInv
  <2>2. CASE UNCHANGED seals /\ GoOn("rollback")
      BY <2>2
  <2>. QED BY <2>1, <2>2 DEF RecordSealed
<1>8. /\ ctrl' \in SealProcess /\ ctrl'.bad = ctrl.bad /\ ctrl'.hit = ctrl.hit
      /\ \/ ctrl'.pc = "ask" /\ ctrl'.digest = d /\ seals'[A].frozen = d
         \/ ctrl'.pc = "rollback" /\ seals' = seals
  <2>1. CASE seals'[A].frozen = d /\ ctrl' = [ctrl EXCEPT !.pc = "ask", !.digest = d]
    <3>1. [ctrl EXCEPT !.pc = "ask"] \in SealProcess
        BY ProcessPc DEF SealInv, SealTypeOK, Pcs, Asking
    <3>2. ctrl' \in SealProcess
        BY <1>3, <2>1, <3>1, ProcessDigest, Zenon DEF Digest
    <3>. QED BY <2>1, <3>2, SMT DEF SealInv, SealTypeOK, SealProcess
  <2>2. CASE seals' = seals /\ GoOn("rollback")
    <3>1. ctrl' \in SealProcess
        BY <2>2, GoesOn DEF SealInv, Pcs
    <3>. QED BY <2>2, <3>1, SMT DEF SealInv, SealTypeOK, SealProcess, GoOn
  <2>. QED BY <1>7, <2>1, <2>2
<1>9. In("record") /\ UNCHANGED <<arenas, run, qa, hits, lost, pardoned>>
    BY DEF RecordSealed, NoHistory
<1>10. SealTypeOK'
    BY <1>6, <1>8, <1>9, Zenon DEF SealInv, SealTypeOK
<1>11. PlannedIsFirst'
    BY <1>1, <1>2, <1>3, <1>4, <1>5, <1>6, <1>7, <1>8, <1>9, SMT, SealAssumption DEF SealInv,
        SealTypeOK, SealLine, ArenaRecord, PlannedIsFirst, FreshInv, AttemptInv, ReleasingInv,
        LiftInv, NoLine, Asking, AfterCompare, Lifting, SealProcess, A, In
<1>12. FreshInv'
    BY <1>1, <1>2, <1>3, <1>4, <1>5, <1>6, <1>7, <1>8, <1>9, FreshRests, SMT DEF SealInv,
        Outside, Lifting, AttemptInv, LiftInv, Asking, AfterCompare, In, A
<1>13. AttemptInv'
    BY <1>1, <1>2, <1>3, <1>4, <1>5, <1>6, <1>7, <1>8, <1>9, SMT, SealAssumption DEF SealInv,
        SealTypeOK, SealLine, ArenaRecord, SealProcess, FreshInv, AttemptInv, NoLine, Asking,
        AfterCompare, A, In
<1>14. ReleasingInv'
    BY <1>1, <1>2, <1>3, <1>4, <1>5, <1>6, <1>7, <1>8, <1>9, SMT, SealAssumption DEF SealInv,
        SealTypeOK, SealLine, ArenaRecord, SealProcess, PlannedIsFirst, FreshInv, AttemptInv,
        ReleasingInv, LiftInv, NoLine, Asking, AfterCompare, Lifting, A, In
<1>15. LiftInv'
    BY <1>1, <1>2, <1>3, <1>4, <1>5, <1>6, <1>7, <1>8, <1>9, SMT, SealAssumption DEF SealInv,
        SealTypeOK, SealLine, ArenaRecord, SealProcess, LiftInv, Lifting, A, In
<1>16. HitInv'
    BY <1>1, <1>2, <1>3, <1>4, <1>5, <1>6, <1>7, <1>8, <1>9, SMT, SealAssumption DEF SealInv,
        SealTypeOK, SealLine, ArenaRecord, SealRun, SealProcess, NoProcess, Digest, NoDigest,
        OtherMode, PlannedIsFirst, FreshInv, AttemptInv, ReleasingInv, LiftInv, HitInv,
        FoundInv, HandInv, Settled, InHand, NoLine, Asking, AfterCompare, Lifting, A, In
<1>17. FoundInv'
    BY <1>1, <1>2, <1>3, <1>4, <1>5, <1>6, <1>7, <1>8, <1>9, SMT, SealAssumption DEF SealInv,
        SealTypeOK, SealLine, ArenaRecord, SealProcess, NoProcess, Digest, NoDigest, OtherMode,
        FreshInv, AttemptInv, LiftInv, HitInv, FoundInv, HandInv, Settled, InHand, Asking,
        AfterCompare, Lifting, A, In
<1>18. HandInv'
    BY <1>1, <1>2, <1>3, <1>4, <1>5, <1>6, <1>7, <1>8, <1>9, SMT, SealAssumption DEF SealInv,
        SealTypeOK, SealLine, ArenaRecord, SealRun, SealProcess, NoProcess, AttemptInv, LiftInv,
        HitInv, FoundInv, HandInv, OpenSeals, Settled, InHand, Asking, AfterCompare, Lifting, A,
        In
<1>. QED BY <1>10, <1>11, <1>12, <1>13, <1>14, <1>15, <1>16, <1>17, <1>18 DEF SealInv

LEMMA RollBackKeeps ==
    ASSUME SealInv, RollBack
    PROVE  SealInv'
<1>1. A \in Arena
    BY AttemptIs DEF In, Asking, AfterCompare, RollBack
<1>2. LedgerReleases(A)
    BY <1>1, NotesReleased DEF SealInv, NoteLine, RollBack
<1>3. \E m \in {"open"} : arenas' = [arenas EXCEPT ![A].mode = m]
    BY DEF RollBack
<1>4. /\ arenas' \in [Arena -> ArenaRecord]
      /\ \A b \in Arena : /\ arenas'[b].version = arenas[b].version
                          /\ b # A => arenas'[b].mode = arenas[b].mode
                          /\ b = A => arenas'[b].mode \in {"open"}
    BY ZenonT(60), <1>1, <1>2, <1>3, ModeIsSet DEF SealInv, Modes
<1>5. SealTypeOK'
  <2>1. ctrl' \in SealProcess
      BY GoesOn DEF SealInv, Pcs, Asking, AfterCompare, Lifting, RollBack
  <2>. QED BY <1>1, <1>2, <1>3, <1>4, <2>1, Zenon DEF SealInv, SealTypeOK, LedgerReleases,
      NoHistory, RollBack
<1>6. PlannedIsFirst'
    BY <1>1, <1>2, <1>3, <1>4, SMT, SealAssumption DEF SameLine, LedgerReleases, SealInv,
        SealTypeOK, SealLine, ArenaRecord, PlannedIsFirst, FreshInv, AttemptInv, ReleasingInv,
        LiftInv, NoLine, Asking, AfterCompare, Lifting, SealProcess, RollBack, A, In, GoOn,
        NoHistory
<1>7. FreshInv'
    BY <1>1, <1>2, <1>3, <1>4, SMT, SealAssumption DEF SameLine, LedgerReleases, SealInv,
        SealTypeOK, SealLine, ArenaRecord, SealRun, SealProcess, Arena, FreshInv, AttemptInv,
        ReleasingInv, LiftInv, NoLine, Asking, AfterCompare, Lifting, RollBack, A, In, GoOn,
        NoHistory
<1>8. AttemptInv'
    BY <1>1, <1>2, <1>3, <1>4, SMT, SealAssumption DEF SameLine, LedgerReleases, SealInv,
        SealTypeOK, SealLine, ArenaRecord, SealProcess, FreshInv, AttemptInv, NoLine, Asking,
        AfterCompare, RollBack, A, In, GoOn, NoHistory
<1>9. ReleasingInv'
    BY <1>1, <1>2, <1>3, <1>4, SMT, SealAssumption DEF SameLine, LedgerReleases, SealInv,
        SealTypeOK, SealLine, ArenaRecord, SealProcess, PlannedIsFirst, FreshInv, AttemptInv,
        ReleasingInv, LiftInv, NoLine, Asking, AfterCompare, Lifting, RollBack, A, In, GoOn,
        NoHistory
<1>10. LiftInv'
    BY <1>1, <1>2, <1>3, <1>4, SMT, SealAssumption DEF SameLine, LedgerReleases, SealInv,
        SealTypeOK, SealLine, ArenaRecord, SealProcess, LiftInv, Lifting, RollBack, A, In, GoOn,
        NoHistory
<1>11. HitInv'
    BY <1>1, <1>2, <1>3, <1>4, SMT, SealAssumption DEF SameLine, LedgerReleases, SealInv,
        SealTypeOK, SealLine, ArenaRecord, SealRun, SealProcess, NoProcess, Digest, NoDigest,
        OtherMode, PlannedIsFirst, FreshInv, AttemptInv, ReleasingInv, LiftInv, HitInv,
        FoundInv, HandInv, Settled, InHand, NoLine, Asking, AfterCompare, Lifting, RollBack, A,
        In, GoOn, NoHistory
<1>12. FoundInv'
    BY <1>1, <1>2, <1>3, <1>4, SMT, SealAssumption DEF SameLine, LedgerReleases, SealInv,
        SealTypeOK, SealLine, ArenaRecord, SealProcess, NoProcess, Digest, NoDigest, OtherMode,
        FreshInv, AttemptInv, LiftInv, HitInv, FoundInv, HandInv, Settled, InHand, Asking,
        AfterCompare, Lifting, RollBack, A, In, GoOn, NoHistory
<1>13. HandInv'
    BY <1>1, <1>2, <1>3, <1>4, SMT, SealAssumption DEF SameLine, LedgerReleases, SealInv,
        SealTypeOK, SealLine, ArenaRecord, SealRun, SealProcess, NoProcess, AttemptInv, LiftInv,
        HitInv, FoundInv, HandInv, OpenSeals, Settled, InHand, Asking, AfterCompare, Lifting,
        RollBack, A, In, GoOn, NoHistory
<1>. QED BY <1>5, <1>6, <1>7, <1>8, <1>9, <1>10, <1>11, <1>12, <1>13 DEF SealInv

LEMMA SealFailedKeeps ==
    ASSUME SealInv, SealFailed
    PROVE  SealInv'
<1>1. SealTypeOK'
  <2>1. run' \in SealRun
      BY RunFields DEF SealInv, SealTypeOK, SealFailed
  <2>2. ctrl' \in SealProcess
      BY GoesOn DEF SealInv, Pcs, Asking, AfterCompare, Lifting, SealFailed
  <2>. QED BY <2>1, <2>2, Zenon DEF SealInv, SealTypeOK, NoHistory, SealFailed
<1>2. PlannedIsFirst'
    BY SMT, SealAssumption DEF SealInv, SealTypeOK, SealLine, ArenaRecord, PlannedIsFirst,
        FreshInv, AttemptInv, ReleasingInv, LiftInv, NoLine, Asking, AfterCompare, Lifting,
        SealProcess, SealFailed, A, In, GoOn, Fine, NoHistory
<1>3. FreshInv'
    BY SMT, SealAssumption DEF SealInv, SealTypeOK, SealLine, ArenaRecord, SealRun, SealProcess,
        Arena, FreshInv, AttemptInv, ReleasingInv, LiftInv, NoLine, Asking, AfterCompare,
        Lifting, SealFailed, A, In, GoOn, Fine, NoHistory
<1>4. AttemptInv'
    BY SMT, SealAssumption DEF SealInv, SealTypeOK, SealLine, ArenaRecord, SealProcess,
        FreshInv, AttemptInv, NoLine, Asking, AfterCompare, SealFailed, A, In, GoOn, Fine,
        NoHistory
<1>5. ReleasingInv'
    BY SMT, SealAssumption DEF SealInv, SealTypeOK, SealLine, ArenaRecord, SealProcess,
        PlannedIsFirst, FreshInv, AttemptInv, ReleasingInv, LiftInv, NoLine, Asking,
        AfterCompare, Lifting, SealFailed, A, In, GoOn, Fine, NoHistory
<1>6. LiftInv'
    BY SMT, SealAssumption DEF SealInv, SealTypeOK, SealLine, ArenaRecord, SealProcess, LiftInv,
        Lifting, SealFailed, A, In, GoOn, Fine, NoHistory
<1>7. HitInv'
    BY SMT, SealAssumption DEF SealInv, SealTypeOK, SealLine, ArenaRecord, SealRun, SealProcess,
        NoProcess, Digest, NoDigest, OtherMode, PlannedIsFirst, FreshInv, AttemptInv,
        ReleasingInv, LiftInv, HitInv, FoundInv, HandInv, Settled, InHand, NoLine, Asking,
        AfterCompare, Lifting, SealFailed, A, In, GoOn, Fine, NoHistory
<1>8. FoundInv'
    BY SMT, SealAssumption DEF SealInv, SealTypeOK, SealLine, ArenaRecord, SealProcess,
        NoProcess, Digest, NoDigest, OtherMode, FreshInv, AttemptInv, LiftInv, HitInv, FoundInv,
        HandInv, Settled, InHand, Asking, AfterCompare, Lifting, SealFailed, A, In, GoOn, Fine,
        NoHistory
<1>9. HandInv'
    BY SMT, SealAssumption DEF SealInv, SealTypeOK, SealLine, ArenaRecord, SealRun, SealProcess,
        NoProcess, AttemptInv, LiftInv, HitInv, FoundInv, HandInv, OpenSeals, Settled, InHand,
        Asking, AfterCompare, Lifting, SealFailed, A, In, GoOn, Fine, NoHistory
<1>. QED BY <1>1, <1>2, <1>3, <1>4, <1>5, <1>6, <1>7, <1>8, <1>9 DEF SealInv

LEMMA AskQAKeeps ==
    ASSUME SealInv, AskQA
    PROVE  SealInv'
<1>1. SealTypeOK'
  <2>1. ctrl' \in SealProcess
    <3>1. [ctrl EXCEPT !.pc = "asked"] \in SealProcess
        BY ProcessPc DEF SealInv, SealTypeOK, Pcs, Asking
    <3>2. A \in Arena
        BY AttemptIs DEF In, Asking, AskQA
    <3>3. FrozenDigest(A) \in Digest
        BY <3>2, DigestIs DEF SealInv
    <3>. QED BY <3>1, <3>3, ProcessDigest, Zenon DEF AskQA
  <2>. QED BY <2>1, Zenon DEF SealInv, SealTypeOK, NoHistory, AskQA
<1>2. PlannedIsFirst'
    BY SMT, SealAssumption DEF SealInv, SealTypeOK, SealLine, ArenaRecord, PlannedIsFirst,
        FreshInv, AttemptInv, ReleasingInv, LiftInv, NoLine, Asking, AfterCompare, Lifting,
        SealProcess, AskQA, FrozenDigest, A, In, Fine, NoHistory
<1>3. FreshInv'
    BY SMT, SealAssumption DEF SealInv, SealTypeOK, SealLine, ArenaRecord, SealRun, SealProcess,
        Arena, FreshInv, AttemptInv, ReleasingInv, LiftInv, NoLine, Asking, AfterCompare,
        Lifting, AskQA, FrozenDigest, A, In, Fine, NoHistory
<1>4. AttemptInv'
    BY SMT, SealAssumption DEF SealInv, SealTypeOK, SealLine, ArenaRecord, SealProcess,
        FreshInv, AttemptInv, NoLine, Asking, AfterCompare, AskQA, FrozenDigest, A, In, Fine,
        NoHistory
<1>5. ReleasingInv'
    BY SMT, SealAssumption DEF SealInv, SealTypeOK, SealLine, ArenaRecord, SealProcess,
        PlannedIsFirst, FreshInv, AttemptInv, ReleasingInv, LiftInv, NoLine, Asking,
        AfterCompare, Lifting, AskQA, FrozenDigest, A, In, Fine, NoHistory
<1>6. LiftInv'
    BY SMT, SealAssumption DEF SealInv, SealTypeOK, SealLine, ArenaRecord, SealProcess, LiftInv,
        Lifting, AskQA, FrozenDigest, A, In, Fine, NoHistory
<1>7. HitInv'
    BY SMT, SealAssumption DEF SealInv, SealTypeOK, SealLine, ArenaRecord, SealRun, SealProcess,
        NoProcess, Digest, NoDigest, OtherMode, PlannedIsFirst, FreshInv, AttemptInv,
        ReleasingInv, LiftInv, HitInv, FoundInv, HandInv, Settled, InHand, NoLine, Asking,
        AfterCompare, Lifting, AskQA, FrozenDigest, A, In, Fine, NoHistory
<1>8. FoundInv'
    BY SMT, SealAssumption DEF SealInv, SealTypeOK, SealLine, ArenaRecord, SealProcess,
        NoProcess, Digest, NoDigest, OtherMode, FreshInv, AttemptInv, LiftInv, HitInv, FoundInv,
        HandInv, Settled, InHand, Asking, AfterCompare, Lifting, AskQA, FrozenDigest, A, In,
        Fine, NoHistory
<1>9. HandInv'
    BY SMT, SealAssumption DEF SealInv, SealTypeOK, SealLine, ArenaRecord, SealRun, SealProcess,
        NoProcess, AttemptInv, LiftInv, HitInv, FoundInv, HandInv, OpenSeals, Settled, InHand,
        Asking, AfterCompare, Lifting, AskQA, FrozenDigest, A, In, Fine, NoHistory
<1>. QED BY <1>1, <1>2, <1>3, <1>4, <1>5, <1>6, <1>7, <1>8, <1>9 DEF SealInv

LEMMA QAReturnsKeeps ==
    ASSUME SealInv, NEW how \in {"answer", "error", "approval", "unclean", "interrupt"},
        QAReturns(how)
    PROVE  SealInv'
<1>1. SealTypeOK'
  <2>1. ctrl' \in SealProcess
    <3>. DEFINE seen == how # "interrupt" /\ FrozenDigest(A) # ctrl.witness
                keep == IF seen \/ how \in {"answer", "error"} THEN "no" ELSE how
                at == IF seen \/ how \in {"answer", "error"} THEN "compare" ELSE "keep"
                waiting == ctrl.waiting \/ (how = "approval" /\ ~seen)
                c1 == [ctrl EXCEPT !.bad = seen]
                c2 == [c1 EXCEPT !.keep = keep]
                c3 == [c2 EXCEPT !.pc = at]
    <3>1. ctrl' = [ctrl EXCEPT !.bad = seen, !.keep = keep, !.pc = at, !.waiting = waiting]
        BY Zenon DEF QAReturns
    <3>2. /\ seen \in BOOLEAN /\ keep \in {"no", "approval", "unclean", "interrupt"}
        /\ at \in Pcs
          /\ waiting \in BOOLEAN
        BY SMT DEF SealInv, SealTypeOK, SealProcess, Pcs, Asking
    <3>. HIDE DEF seen, keep, at, waiting
    <3>3. c1 \in SealProcess
        BY <3>2, ProcessFlag DEF SealInv, SealTypeOK
    <3>. HIDE DEF c1
    <3>4. c2 \in SealProcess
        BY <3>2, <3>3, ProcessKeep
    <3>. HIDE DEF c2
    <3>5. c3 \in SealProcess
        BY <3>2, <3>4, ProcessPc
    <3>. HIDE DEF c3
    <3>6. ctrl' = [c3 EXCEPT !.waiting = waiting]
        BY <3>1, Zenon DEF c1, c2, c3
    <3>. QED BY <3>2, <3>5, <3>6, ProcessFlag, Zenon
  <2>. QED BY <2>1, Zenon DEF SealInv, SealTypeOK, NoHistory, QAReturns
<1>2. PlannedIsFirst'
    BY SMT, SealAssumption DEF SealInv, SealTypeOK, SealLine, ArenaRecord, PlannedIsFirst,
        FreshInv, AttemptInv, ReleasingInv, LiftInv, NoLine, Asking, AfterCompare, Lifting,
        SealProcess, QAReturns, FrozenDigest, A, In, Fine, NoHistory
<1>3. FreshInv'
    BY SMT, SealAssumption DEF SealInv, SealTypeOK, SealLine, ArenaRecord, SealRun, SealProcess,
        Arena, FreshInv, AttemptInv, ReleasingInv, LiftInv, NoLine, Asking, AfterCompare,
        Lifting, QAReturns, FrozenDigest, A, In, Fine, NoHistory
<1>4. AttemptInv'
    BY SMT, SealAssumption DEF SealInv, SealTypeOK, SealLine, ArenaRecord, SealProcess,
        FreshInv, AttemptInv, NoLine, Asking, AfterCompare, QAReturns, FrozenDigest, A, In,
        Fine, NoHistory
<1>5. ReleasingInv'
    BY SMT, SealAssumption DEF SealInv, SealTypeOK, SealLine, ArenaRecord, SealProcess,
        PlannedIsFirst, FreshInv, AttemptInv, ReleasingInv, LiftInv, NoLine, Asking,
        AfterCompare, Lifting, QAReturns, FrozenDigest, A, In, Fine, NoHistory
<1>6. LiftInv'
    BY SMT, SealAssumption DEF SealInv, SealTypeOK, SealLine, ArenaRecord, SealProcess, LiftInv,
        Lifting, QAReturns, FrozenDigest, A, In, Fine, NoHistory
<1>7. HitInv'
    BY SMT, SealAssumption DEF SealInv, SealTypeOK, SealLine, ArenaRecord, SealRun, SealProcess,
        NoProcess, Digest, NoDigest, OtherMode, PlannedIsFirst, FreshInv, AttemptInv,
        ReleasingInv, LiftInv, HitInv, FoundInv, HandInv, Settled, InHand, NoLine, Asking,
        AfterCompare, Lifting, QAReturns, FrozenDigest, A, In, Fine, NoHistory
<1>8. FoundInv'
    BY SMT, SealAssumption DEF SealInv, SealTypeOK, SealLine, ArenaRecord, SealProcess,
        NoProcess, Digest, NoDigest, OtherMode, FreshInv, AttemptInv, LiftInv, HitInv, FoundInv,
        HandInv, Settled, InHand, Asking, AfterCompare, Lifting, QAReturns, FrozenDigest, A, In,
        Fine, NoHistory
<1>9. HandInv'
    BY SMT, SealAssumption DEF SealInv, SealTypeOK, SealLine, ArenaRecord, SealRun, SealProcess,
        NoProcess, AttemptInv, LiftInv, HitInv, FoundInv, HandInv, OpenSeals, Settled, InHand,
        Asking, AfterCompare, Lifting, QAReturns, FrozenDigest, A, In, Fine, NoHistory
<1>. QED BY <1>1, <1>2, <1>3, <1>4, <1>5, <1>6, <1>7, <1>8, <1>9 DEF SealInv

LEMMA KeepSealKeeps ==
    ASSUME SealInv, KeepSeal
    PROVE  SealInv'
<1>1. A \in Arena
    BY AttemptIs DEF In, Asking, AfterCompare, KeepSeal
<1>2. SealTypeOK'
  <2>1. seals' \in [Arena -> SealLine]
    <3>1. [seals[A] EXCEPT !.kept = TRUE] \in SealLine
        BY <1>1, LineFlag DEF SealInv, SealTypeOK
    <3>. QED BY <1>1, <3>1, LineIsSet DEF SealInv, SealTypeOK, KeepSeal
  <2>2. run' \in SealRun
      BY RunFields DEF SealInv, SealTypeOK, KeepSeal
  <2>3. ctrl' \in SealProcess
      BY NoProcessIs, ProcessPc, ProcessFlag DEF SealInv, SealTypeOK, Pcs, KeepSeal
  <2>. QED BY <1>1, <2>1, <2>2, <2>3, Zenon DEF SealInv, SealTypeOK, NoHistory, KeepSeal
<1>3. PlannedIsFirst'
    BY <1>1, SMT, SealAssumption DEF SealInv, SealTypeOK, SealLine, ArenaRecord, PlannedIsFirst,
        FreshInv, AttemptInv, ReleasingInv, LiftInv, NoLine, Asking, AfterCompare, Lifting,
        SealProcess, KeepSeal, A, In, Fine, NoHistory
<1>4. FreshInv'
  <2>1. ctrl'.pc \in {"off", "idle", "closing"}
      BY SMT DEF SealInv, SealTypeOK, SealProcess, KeepSeal, NoProcess
  <2>2. run'.attempt = run.attempt /\ arenas' = arenas /\ seals[A].planned
      BY SMT DEF SealInv, SealTypeOK, SealRun, AttemptInv, Asking, KeepSeal, In
  <2>3. \A b \in Arena : b # A => seals'[b] = seals[b]
      BY SMT DEF SealInv, SealTypeOK, KeepSeal
  <2>. QED BY <1>1, <2>1, <2>2, <2>3, FreshRests, SMT DEF Outside
<1>5. AttemptInv'
    BY <1>1, SMT, SealAssumption DEF SealInv, SealTypeOK, SealLine, ArenaRecord, SealProcess,
        NoProcess, FreshInv, AttemptInv, NoLine, Asking, AfterCompare, KeepSeal, A, In, Fine,
        NoHistory
<1>6. ReleasingInv'
    BY <1>1, SMT, SealAssumption DEF SealInv, SealTypeOK, SealLine, ArenaRecord, SealProcess,
        NoProcess, PlannedIsFirst, FreshInv, AttemptInv, ReleasingInv, LiftInv, NoLine, Asking,
        AfterCompare, Lifting, KeepSeal, A, In, Fine, NoHistory
<1>7. LiftInv'
    BY <1>1, SMT, SealAssumption DEF SealInv, SealTypeOK, SealLine, ArenaRecord, SealProcess,
        NoProcess, LiftInv, Lifting, KeepSeal, A, In, Fine, NoHistory
<1>8. HitInv'
    BY <1>1, SMT, SealAssumption DEF SealInv, SealTypeOK, SealLine, ArenaRecord, SealRun,
        SealProcess, NoProcess, Digest, NoDigest, OtherMode, PlannedIsFirst, FreshInv,
        AttemptInv, ReleasingInv, LiftInv, HitInv, FoundInv, HandInv, Settled, InHand, NoLine,
        Asking, AfterCompare, Lifting, KeepSeal, A, In, Fine, NoHistory
<1>9. FoundInv'
    BY <1>1, SMT, SealAssumption DEF SealInv, SealTypeOK, SealLine, ArenaRecord, SealProcess,
        NoProcess, Digest, NoDigest, OtherMode, FreshInv, AttemptInv, LiftInv, HitInv, FoundInv,
        HandInv, Settled, InHand, Asking, AfterCompare, Lifting, KeepSeal, A, In, Fine,
        NoHistory
<1>10. HandInv'
    BY <1>1, SMT, SealAssumption DEF SealInv, SealTypeOK, SealLine, ArenaRecord, SealRun,
        SealProcess, NoProcess, AttemptInv, LiftInv, HitInv, FoundInv, HandInv, OpenSeals,
        Settled, InHand, Asking, AfterCompare, Lifting, KeepSeal, A, In, Fine, NoHistory
<1>. QED BY <1>2, <1>3, <1>4, <1>5, <1>6, <1>7, <1>8, <1>9, <1>10 DEF SealInv

LEMMA CompareSealedKeeps ==
    ASSUME SealInv, CompareSealed
    PROVE  SealInv'
<1>1. A \in Arena
    BY AttemptIs DEF In, Asking, AfterCompare, CompareSealed
<1>2. LedgerFinds
    BY <1>1, CompareFinds DEF SealInv, AttemptInv, AfterCompare, Asking, In, CompareSealed
<1>3. SealTypeOK'
  <2>1. ctrl' \in SealProcess
    <3>. DEFINE hit == ~ctrl.bad /\ FrozenDigest(A) # ctrl.digest
                bad == ctrl.bad \/ hit
                c1 == [ctrl EXCEPT !.bad = bad]
                c2 == [c1 EXCEPT !.pc = "releasing"]
    <3>1. ctrl' = [ctrl EXCEPT !.bad = bad, !.pc = "releasing", !.digest = NoDigest]
        BY Zenon DEF CompareSealed
    <3>2. bad \in BOOLEAN /\ "releasing" \in Pcs /\ NoDigest \in Digest
        BY SMT DEF SealInv, SealTypeOK, SealProcess, Pcs, AfterCompare, Digest
    <3>. HIDE DEF bad
    <3>3. c1 \in SealProcess
        BY <3>2, ProcessFlag DEF SealInv, SealTypeOK
    <3>. HIDE DEF c1
    <3>4. c2 \in SealProcess
        BY <3>2, <3>3, ProcessPc
    <3>. HIDE DEF c2
    <3>5. ctrl' = [c2 EXCEPT !.digest = NoDigest]
        BY <3>1, Zenon DEF c1, c2
    <3>. QED BY <3>2, <3>4, <3>5, ProcessDigest, Zenon
  <2>. QED BY <1>1, <1>2, <2>1, Zenon DEF SealInv, SealTypeOK, LedgerFinds, NoHistory,
      CompareSealed
<1>4. PlannedIsFirst'
    BY <1>1, <1>2, SMT, SealAssumption DEF SameLine, LedgerFinds, SealInv, SealTypeOK, SealLine,
        ArenaRecord, PlannedIsFirst, FreshInv, AttemptInv, ReleasingInv, LiftInv, NoLine,
        Asking, AfterCompare, Lifting, SealProcess, CompareSealed, FrozenDigest, A, In, Fine,
        NoHistory
<1>5. FreshInv'
    BY <1>1, <1>2, SMT, SealAssumption DEF SameLine, LedgerFinds, SealInv, SealTypeOK, SealLine,
        ArenaRecord, SealRun, SealProcess, Arena, FreshInv, AttemptInv, ReleasingInv, LiftInv,
        NoLine, Asking, AfterCompare, Lifting, CompareSealed, FrozenDigest, A, In, Fine,
        NoHistory
<1>6. AttemptInv'
    BY <1>1, <1>2, SMT, SealAssumption DEF SameLine, LedgerFinds, SealInv, SealTypeOK, SealLine,
        ArenaRecord, SealProcess, FreshInv, AttemptInv, NoLine, Asking, AfterCompare,
        CompareSealed, FrozenDigest, A, In, Fine, NoHistory
<1>7. ReleasingInv'
    BY <1>1, <1>2, SMT, SealAssumption DEF SameLine, LedgerFinds, SealInv, SealTypeOK, SealLine,
        ArenaRecord, SealProcess, PlannedIsFirst, FreshInv, AttemptInv, ReleasingInv, LiftInv,
        NoLine, Asking, AfterCompare, Lifting, CompareSealed, FrozenDigest, A, In, Fine,
        NoHistory
<1>8. LiftInv'
    BY <1>1, <1>2, SMT, SealAssumption DEF SameLine, LedgerFinds, SealInv, SealTypeOK, SealLine,
        ArenaRecord, SealProcess, LiftInv, Lifting, CompareSealed, FrozenDigest, A, In, Fine,
        NoHistory
<1>9. HitInv'
    BY <1>1, <1>2, SMT, SealAssumption DEF SameLine, LedgerFinds, SealInv, SealTypeOK, SealLine,
        ArenaRecord, SealRun, SealProcess, NoProcess, Digest, NoDigest, OtherMode,
        PlannedIsFirst, FreshInv, AttemptInv, ReleasingInv, LiftInv, HitInv, FoundInv, HandInv,
        Settled, InHand, NoLine, Asking, AfterCompare, Lifting, CompareSealed, FrozenDigest, A,
        In, Fine, NoHistory
<1>10. FoundInv'
    BY <1>1, <1>2, SMT, SealAssumption DEF SameLine, LedgerFinds, SealInv, SealTypeOK, SealLine,
        ArenaRecord, SealProcess, NoProcess, Digest, NoDigest, OtherMode, FreshInv, AttemptInv,
        LiftInv, HitInv, FoundInv, HandInv, Settled, InHand, Asking, AfterCompare, Lifting,
        CompareSealed, FrozenDigest, A, In, Fine, NoHistory
<1>11. HandInv'
    BY <1>1, <1>2, SMT, SealAssumption DEF SameLine, LedgerFinds, SealInv, SealTypeOK, SealLine,
        ArenaRecord, SealRun, SealProcess, NoProcess, AttemptInv, LiftInv, HitInv, FoundInv,
        HandInv, OpenSeals, Settled, InHand, Asking, AfterCompare, Lifting, CompareSealed,
        FrozenDigest, A, In, Fine, NoHistory
<1>. QED BY <1>3, <1>4, <1>5, <1>6, <1>7, <1>8, <1>9, <1>10, <1>11 DEF SealInv

LEMMA ReleasingKeeps ==
    ASSUME SealInv, Releasing
    PROVE  SealInv'
<1>1. A \in Arena
    BY AttemptIs DEF In, Asking, AfterCompare, Releasing
<1>2. LedgerIsReleasing(A)
    BY <1>1, NotesReleasing DEF SealInv, NoteLine, Releasing
<1>3. SealTypeOK'
  <2>1. ctrl' \in SealProcess
      BY GoesOn DEF SealInv, Pcs, Asking, AfterCompare, Lifting, Releasing
  <2>. QED BY <1>1, <1>2, <2>1, Zenon DEF SealInv, SealTypeOK, LedgerIsReleasing, NoHistory,
      Releasing
<1>4. PlannedIsFirst'
    BY <1>1, <1>2, SMT, SealAssumption DEF SameLine, LedgerIsReleasing, SealInv, SealTypeOK,
        SealLine, ArenaRecord, PlannedIsFirst, FreshInv, AttemptInv, ReleasingInv, LiftInv,
        NoLine, Asking, AfterCompare, Lifting, SealProcess, Releasing, A, In, GoOn, NoHistory
<1>5. FreshInv'
    BY <1>1, <1>2, SMT, SealAssumption DEF SameLine, LedgerIsReleasing, SealInv, SealTypeOK,
        SealLine, ArenaRecord, SealRun, SealProcess, Arena, FreshInv, AttemptInv, ReleasingInv,
        LiftInv, NoLine, Asking, AfterCompare, Lifting, Releasing, A, In, GoOn, NoHistory
<1>6. AttemptInv'
    BY <1>1, <1>2, SMT, SealAssumption DEF SameLine, LedgerIsReleasing, SealInv, SealTypeOK,
        SealLine, ArenaRecord, SealProcess, FreshInv, AttemptInv, NoLine, Asking, AfterCompare,
        Releasing, A, In, GoOn, NoHistory
<1>7. ReleasingInv'
    BY <1>1, <1>2, SMTT(60), SealAssumption DEF SameLine, LedgerIsReleasing, SealInv, SealTypeOK,
        SealLine, ArenaRecord, SealProcess, PlannedIsFirst, FreshInv, AttemptInv, ReleasingInv,
        LiftInv, NoLine, Asking, AfterCompare, Lifting, Releasing, A, In, GoOn, NoHistory
<1>8. LiftInv'
    BY <1>1, <1>2, SMT, SealAssumption DEF SameLine, LedgerIsReleasing, SealInv, SealTypeOK,
        SealLine, ArenaRecord, SealProcess, LiftInv, Lifting, Releasing, A, In, GoOn, NoHistory
<1>9. HitInv'
    BY <1>1, <1>2, SMT, SealAssumption DEF SameLine, LedgerIsReleasing, SealInv, SealTypeOK,
        SealLine, ArenaRecord, SealRun, SealProcess, NoProcess, Digest, NoDigest, OtherMode,
        PlannedIsFirst, FreshInv, AttemptInv, ReleasingInv, LiftInv, HitInv, FoundInv, HandInv,
        Settled, InHand, NoLine, Asking, AfterCompare, Lifting, Releasing, A, In, GoOn,
        NoHistory
<1>10. FoundInv'
    BY <1>1, <1>2, SMT, SealAssumption DEF SameLine, LedgerIsReleasing, SealInv, SealTypeOK,
        SealLine, ArenaRecord, SealProcess, NoProcess, Digest, NoDigest, OtherMode, FreshInv,
        AttemptInv, LiftInv, HitInv, FoundInv, HandInv, Settled, InHand, Asking, AfterCompare,
        Lifting, Releasing, A, In, GoOn, NoHistory
<1>11. HandInv'
    BY <1>1, <1>2, SMT, SealAssumption DEF SameLine, LedgerIsReleasing, SealInv, SealTypeOK,
        SealLine, ArenaRecord, SealRun, SealProcess, NoProcess, AttemptInv, LiftInv, HitInv,
        FoundInv, HandInv, OpenSeals, Settled, InHand, Asking, AfterCompare, Lifting, Releasing,
        A, In, GoOn, NoHistory
<1>. QED BY <1>3, <1>4, <1>5, <1>6, <1>7, <1>8, <1>9, <1>10, <1>11 DEF SealInv

LEMMA UnsealArenaKeeps ==
    ASSUME SealInv, UnsealArena
    PROVE  SealInv'
<1>1. A \in Arena
    BY AttemptIs DEF In, Asking, AfterCompare, UnsealArena
<1>2. \E m \in {"open", "part"} : arenas' = [arenas EXCEPT ![A].mode = m]
    BY DEF Unseal, UnsealArena
<1>3. /\ arenas' \in [Arena -> ArenaRecord]
      /\ \A b \in Arena : /\ arenas'[b].version = arenas[b].version
                          /\ b # A => arenas'[b].mode = arenas[b].mode
                          /\ b = A => arenas'[b].mode \in {"open", "part"}
    BY <1>2, <1>1, <1>2, ModeIsSet DEF SealInv, Modes
<1>4. SealTypeOK'
  <2>1. ctrl' \in SealProcess
      BY GoesOn DEF SealInv, Pcs, Asking, AfterCompare, Lifting, UnsealArena
  <2>. QED BY <1>1, <1>2, <1>3, <2>1, Zenon DEF SealInv, SealTypeOK, NoHistory, UnsealArena
<1>5. PlannedIsFirst'
    BY <1>1, <1>2, <1>3, SMT, SealAssumption DEF SealInv, SealTypeOK, SealLine, ArenaRecord,
        PlannedIsFirst, FreshInv, AttemptInv, ReleasingInv, LiftInv, NoLine, Asking,
        AfterCompare, Lifting, SealProcess, UnsealArena, Unseal, A, In, GoOn, Mishap, Fine,
        NoHistory
<1>6. FreshInv'
    BY <1>1, <1>2, <1>3, SMT, SealAssumption DEF SealInv, SealTypeOK, SealLine, ArenaRecord,
        SealRun, SealProcess, Arena, FreshInv, AttemptInv, ReleasingInv, LiftInv, NoLine,
        Asking, AfterCompare, Lifting, UnsealArena, Unseal, A, In, GoOn, Mishap, Fine, NoHistory
<1>7. AttemptInv'
    BY <1>1, <1>2, <1>3, SMT, SealAssumption DEF SealInv, SealTypeOK, SealLine, ArenaRecord,
        SealProcess, FreshInv, AttemptInv, NoLine, Asking, AfterCompare, UnsealArena, Unseal, A,
        In, GoOn, Mishap, Fine, NoHistory
<1>8. ReleasingInv'
    BY <1>1, <1>2, <1>3, SMT, SealAssumption DEF SealInv, SealTypeOK, SealLine, ArenaRecord,
        SealProcess, PlannedIsFirst, FreshInv, AttemptInv, ReleasingInv, LiftInv, NoLine,
        Asking, AfterCompare, Lifting, UnsealArena, Unseal, A, In, GoOn, Mishap, Fine, NoHistory
<1>9. LiftInv'
    BY <1>1, <1>2, <1>3, SMT, SealAssumption DEF SealInv, SealTypeOK, SealLine, ArenaRecord,
        SealProcess, LiftInv, Lifting, UnsealArena, Unseal, A, In, GoOn, Mishap, Fine, NoHistory
<1>10. HitInv'
    BY <1>1, <1>2, <1>3, SMT, SealAssumption DEF SealInv, SealTypeOK, SealLine, ArenaRecord,
        SealRun, SealProcess, NoProcess, Digest, NoDigest, OtherMode, PlannedIsFirst, FreshInv,
        AttemptInv, ReleasingInv, LiftInv, HitInv, FoundInv, HandInv, Settled, InHand, NoLine,
        Asking, AfterCompare, Lifting, UnsealArena, Unseal, A, In, GoOn, Mishap, Fine, NoHistory
<1>11. FoundInv'
    BY <1>1, <1>2, <1>3, SMT, SealAssumption DEF SealInv, SealTypeOK, SealLine, ArenaRecord,
        SealProcess, NoProcess, Digest, NoDigest, OtherMode, FreshInv, AttemptInv, LiftInv,
        HitInv, FoundInv, HandInv, Settled, InHand, Asking, AfterCompare, Lifting, UnsealArena,
        Unseal, A, In, GoOn, Mishap, Fine, NoHistory
<1>12. HandInv'
    BY <1>1, <1>2, <1>3, SMT, SealAssumption DEF SealInv, SealTypeOK, SealLine, ArenaRecord,
        SealRun, SealProcess, NoProcess, AttemptInv, LiftInv, HitInv, FoundInv, HandInv,
        OpenSeals, Settled, InHand, Asking, AfterCompare, Lifting, UnsealArena, Unseal, A, In,
        GoOn, Mishap, Fine, NoHistory
<1>. QED BY <1>4, <1>5, <1>6, <1>7, <1>8, <1>9, <1>10, <1>11, <1>12 DEF SealInv

LEMMA SealReleasedKeeps ==
    ASSUME SealInv, SealReleased
    PROVE  SealInv'
<1>1. A \in Arena
    BY AttemptIs DEF In, Asking, AfterCompare, SealReleased
<1>2. LedgerReleases(A)
    BY <1>1, NotesReleased DEF SealInv, NoteLine, SealReleased
<1>3. SealTypeOK'
  <2>1. ctrl' \in SealProcess
      BY GoesOn DEF SealInv, Pcs, Asking, AfterCompare, Lifting, SealReleased
  <2>. QED BY <1>1, <1>2, <2>1, Zenon DEF SealInv, SealTypeOK, LedgerReleases, NoHistory,
      SealReleased
<1>4. PlannedIsFirst'
    BY <1>1, <1>2, SMT, SealAssumption DEF SameLine, LedgerReleases, SealInv, SealTypeOK,
        SealLine, ArenaRecord, PlannedIsFirst, FreshInv, AttemptInv, ReleasingInv, LiftInv,
        NoLine, Asking, AfterCompare, Lifting, SealProcess, SealReleased, A, In, GoOn, NoHistory
<1>5. FreshInv'
    BY <1>1, <1>2, SMTT(60), SealAssumption DEF SameLine, LedgerReleases, SealInv, SealTypeOK,
        SealLine, ArenaRecord, SealRun, SealProcess, Arena, FreshInv, AttemptInv, ReleasingInv,
        LiftInv, NoLine, Asking, AfterCompare, Lifting, SealReleased, A, In, GoOn, NoHistory
<1>6. AttemptInv'
    BY <1>1, <1>2, SMT, SealAssumption DEF SameLine, LedgerReleases, SealInv, SealTypeOK,
        SealLine, ArenaRecord, SealProcess, FreshInv, AttemptInv, NoLine, Asking, AfterCompare,
        SealReleased, A, In, GoOn, NoHistory
<1>7. ReleasingInv'
    BY <1>1, <1>2, SMT, SealAssumption DEF SameLine, LedgerReleases, SealInv, SealTypeOK,
        SealLine, ArenaRecord, SealProcess, PlannedIsFirst, FreshInv, AttemptInv, ReleasingInv,
        LiftInv, NoLine, Asking, AfterCompare, Lifting, SealReleased, A, In, GoOn, NoHistory
<1>8. LiftInv'
    BY <1>1, <1>2, SMT, SealAssumption DEF SameLine, LedgerReleases, SealInv, SealTypeOK,
        SealLine, ArenaRecord, SealProcess, LiftInv, Lifting, SealReleased, A, In, GoOn,
        NoHistory
<1>9. HitInv'
    BY <1>1, <1>2, SMT, SealAssumption DEF SameLine, LedgerReleases, SealInv, SealTypeOK,
        SealLine, ArenaRecord, SealRun, SealProcess, NoProcess, Digest, NoDigest, OtherMode,
        PlannedIsFirst, FreshInv, AttemptInv, ReleasingInv, LiftInv, HitInv, FoundInv, HandInv,
        Settled, InHand, NoLine, Asking, AfterCompare, Lifting, SealReleased, A, In, GoOn,
        NoHistory
<1>10. FoundInv'
    BY <1>1, <1>2, SMT, SealAssumption DEF SameLine, LedgerReleases, SealInv, SealTypeOK,
        SealLine, ArenaRecord, SealProcess, NoProcess, Digest, NoDigest, OtherMode, FreshInv,
        AttemptInv, LiftInv, HitInv, FoundInv, HandInv, Settled, InHand, Asking, AfterCompare,
        Lifting, SealReleased, A, In, GoOn, NoHistory
<1>11. HandInv'
    BY <1>1, <1>2, SMT, SealAssumption DEF SameLine, LedgerReleases, SealInv, SealTypeOK,
        SealLine, ArenaRecord, SealRun, SealProcess, NoProcess, AttemptInv, LiftInv, HitInv,
        FoundInv, HandInv, OpenSeals, Settled, InHand, Asking, AfterCompare, Lifting,
        SealReleased, A, In, GoOn, NoHistory
<1>. QED BY <1>3, <1>4, <1>5, <1>6, <1>7, <1>8, <1>9, <1>10, <1>11 DEF SealInv

LEMMA ViolationKeeps ==
    ASSUME SealInv, Violation
    PROVE  SealInv'
<1>1. SealTypeOK'
  <2>1. run' \in SealRun
      BY RunFields DEF SealInv, SealTypeOK, Hold, Violation
  <2>2. ctrl' \in SealProcess
      BY GoesOn DEF SealInv, Pcs, Asking, AfterCompare, Lifting, Violation
  <2>. QED BY <2>1, <2>2, Zenon DEF SealInv, SealTypeOK, NoHistory, Violation
<1>2. PlannedIsFirst'
    BY SMT, SealAssumption DEF SealInv, SealTypeOK, SealLine, ArenaRecord, PlannedIsFirst,
        FreshInv, AttemptInv, ReleasingInv, LiftInv, NoLine, Asking, AfterCompare, Lifting,
        SealProcess, Violation, Hold, A, In, GoOn, Fine, NoHistory
<1>3. FreshInv'
    BY SMT, SealAssumption DEF SealInv, SealTypeOK, SealLine, ArenaRecord, SealRun, SealProcess,
        Arena, FreshInv, AttemptInv, ReleasingInv, LiftInv, NoLine, Asking, AfterCompare,
        Lifting, Violation, Hold, A, In, GoOn, Fine, NoHistory
<1>4. AttemptInv'
    BY SMT, SealAssumption DEF SealInv, SealTypeOK, SealLine, ArenaRecord, SealProcess,
        FreshInv, AttemptInv, NoLine, Asking, AfterCompare, Violation, Hold, A, In, GoOn, Fine,
        NoHistory
<1>5. ReleasingInv'
    BY SMT, SealAssumption DEF SealInv, SealTypeOK, SealLine, ArenaRecord, SealProcess,
        PlannedIsFirst, FreshInv, AttemptInv, ReleasingInv, LiftInv, NoLine, Asking,
        AfterCompare, Lifting, Violation, Hold, A, In, GoOn, Fine, NoHistory
<1>6. LiftInv'
    BY SMT, SealAssumption DEF SealInv, SealTypeOK, SealLine, ArenaRecord, SealProcess, LiftInv,
        Lifting, Violation, Hold, A, In, GoOn, Fine, NoHistory
<1>7. HitInv'
    BY SMT, SealAssumption DEF SealInv, SealTypeOK, SealLine, ArenaRecord, SealRun, SealProcess,
        NoProcess, Digest, NoDigest, OtherMode, PlannedIsFirst, FreshInv, AttemptInv,
        ReleasingInv, LiftInv, HitInv, FoundInv, HandInv, Settled, InHand, NoLine, Asking,
        AfterCompare, Lifting, Violation, Hold, A, In, GoOn, Fine, NoHistory
<1>8. FoundInv'
    BY SMT, SealAssumption DEF SealInv, SealTypeOK, SealLine, ArenaRecord, SealProcess,
        NoProcess, Digest, NoDigest, OtherMode, FreshInv, AttemptInv, LiftInv, HitInv, FoundInv,
        HandInv, Settled, InHand, Asking, AfterCompare, Lifting, Violation, Hold, A, In, GoOn,
        Fine, NoHistory
<1>9. HandInv'
    BY SMT, SealAssumption DEF SealInv, SealTypeOK, SealLine, ArenaRecord, SealRun, SealProcess,
        NoProcess, AttemptInv, LiftInv, HitInv, FoundInv, HandInv, OpenSeals, Settled, InHand,
        Asking, AfterCompare, Lifting, Violation, Hold, A, In, GoOn, Fine, NoHistory
<1>. QED BY <1>1, <1>2, <1>3, <1>4, <1>5, <1>6, <1>7, <1>8, <1>9 DEF SealInv

LEMMA VerdictKeeps ==
    ASSUME SealInv, Verdict
    PROVE  SealInv'
<1>1. SealTypeOK'
  <2>1. run' \in SealRun
    <3>1. run.stage \in {"working", "checkpointed", "delivered"}
        BY SMT DEF SealInv, SealTypeOK, SealRun
    <3>. QED BY <3>1, RunFields, Zenon DEF SealInv, SealTypeOK, Verdict
  <2>2. ctrl' \in SealProcess
      BY GoesOn DEF SealInv, Pcs, Asking, AfterCompare, Lifting, Verdict
  <2>. QED BY <2>1, <2>2, Zenon DEF SealInv, SealTypeOK, NoHistory, Verdict
<1>2. PlannedIsFirst'
    BY SMT, SealAssumption DEF SealInv, SealTypeOK, SealLine, ArenaRecord, PlannedIsFirst,
        FreshInv, AttemptInv, ReleasingInv, LiftInv, NoLine, Asking, AfterCompare, Lifting,
        SealProcess, Verdict, A, In, GoOn, Fine, NoHistory
<1>3. FreshInv'
    BY SMT, SealAssumption DEF SealInv, SealTypeOK, SealLine, ArenaRecord, SealRun, SealProcess,
        Arena, FreshInv, AttemptInv, ReleasingInv, LiftInv, NoLine, Asking, AfterCompare,
        Lifting, Verdict, A, In, GoOn, Fine, NoHistory
<1>4. AttemptInv'
    BY SMT, SealAssumption DEF SealInv, SealTypeOK, SealLine, ArenaRecord, SealProcess,
        FreshInv, AttemptInv, NoLine, Asking, AfterCompare, Verdict, A, In, GoOn, Fine,
        NoHistory
<1>5. ReleasingInv'
    BY SMT, SealAssumption DEF SealInv, SealTypeOK, SealLine, ArenaRecord, SealProcess,
        PlannedIsFirst, FreshInv, AttemptInv, ReleasingInv, LiftInv, NoLine, Asking,
        AfterCompare, Lifting, Verdict, A, In, GoOn, Fine, NoHistory
<1>6. LiftInv'
    BY SMT, SealAssumption DEF SealInv, SealTypeOK, SealLine, ArenaRecord, SealProcess, LiftInv,
        Lifting, Verdict, A, In, GoOn, Fine, NoHistory
<1>7. HitInv'
    BY SMT, SealAssumption DEF SealInv, SealTypeOK, SealLine, ArenaRecord, SealRun, SealProcess,
        NoProcess, Digest, NoDigest, OtherMode, PlannedIsFirst, FreshInv, AttemptInv,
        ReleasingInv, LiftInv, HitInv, FoundInv, HandInv, Settled, InHand, NoLine, Asking,
        AfterCompare, Lifting, Verdict, A, In, GoOn, Fine, NoHistory
<1>8. FoundInv'
    BY SMT, SealAssumption DEF SealInv, SealTypeOK, SealLine, ArenaRecord, SealProcess,
        NoProcess, Digest, NoDigest, OtherMode, FreshInv, AttemptInv, LiftInv, HitInv, FoundInv,
        HandInv, Settled, InHand, Asking, AfterCompare, Lifting, Verdict, A, In, GoOn, Fine,
        NoHistory
<1>9. HandInv'
    BY SMT, SealAssumption DEF SealInv, SealTypeOK, SealLine, ArenaRecord, SealRun, SealProcess,
        NoProcess, AttemptInv, LiftInv, HitInv, FoundInv, HandInv, OpenSeals, Settled, InHand,
        Asking, AfterCompare, Lifting, Verdict, A, In, GoOn, Fine, NoHistory
<1>. QED BY <1>1, <1>2, <1>3, <1>4, <1>5, <1>6, <1>7, <1>8, <1>9 DEF SealInv

LEMMA LastIterationKeeps ==
    ASSUME SealInv, LastIteration
    PROVE  SealInv'
<1>1. SealTypeOK'
  <2>1. ctrl' \in SealProcess
      BY GoesOn DEF SealInv, Pcs, Asking, AfterCompare, Lifting, LastIteration
  <2>. QED BY <2>1, Zenon DEF SealInv, SealTypeOK, NoHistory, LastIteration
<1>2. PlannedIsFirst'
    BY SMT, SealAssumption DEF SealInv, SealTypeOK, SealLine, ArenaRecord, PlannedIsFirst,
        FreshInv, AttemptInv, ReleasingInv, LiftInv, NoLine, Asking, AfterCompare, Lifting,
        SealProcess, LastIteration, A, In, GoOn, Fine, NoHistory
<1>3. FreshInv'
    BY SMT, SealAssumption DEF SealInv, SealTypeOK, SealLine, ArenaRecord, SealRun, SealProcess,
        Arena, FreshInv, AttemptInv, ReleasingInv, LiftInv, NoLine, Asking, AfterCompare,
        Lifting, LastIteration, A, In, GoOn, Fine, NoHistory
<1>4. AttemptInv'
    BY SMT, SealAssumption DEF SealInv, SealTypeOK, SealLine, ArenaRecord, SealProcess,
        FreshInv, AttemptInv, NoLine, Asking, AfterCompare, LastIteration, A, In, GoOn, Fine,
        NoHistory
<1>5. ReleasingInv'
    BY SMT, SealAssumption DEF SealInv, SealTypeOK, SealLine, ArenaRecord, SealProcess,
        PlannedIsFirst, FreshInv, AttemptInv, ReleasingInv, LiftInv, NoLine, Asking,
        AfterCompare, Lifting, LastIteration, A, In, GoOn, Fine, NoHistory
<1>6. LiftInv'
    BY SMT, SealAssumption DEF SealInv, SealTypeOK, SealLine, ArenaRecord, SealProcess, LiftInv,
        Lifting, LastIteration, A, In, GoOn, Fine, NoHistory
<1>7. HitInv'
    BY SMT, SealAssumption DEF SealInv, SealTypeOK, SealLine, ArenaRecord, SealRun, SealProcess,
        NoProcess, Digest, NoDigest, OtherMode, PlannedIsFirst, FreshInv, AttemptInv,
        ReleasingInv, LiftInv, HitInv, FoundInv, HandInv, Settled, InHand, NoLine, Asking,
        AfterCompare, Lifting, LastIteration, A, In, GoOn, Fine, NoHistory
<1>8. FoundInv'
    BY SMT, SealAssumption DEF SealInv, SealTypeOK, SealLine, ArenaRecord, SealProcess,
        NoProcess, Digest, NoDigest, OtherMode, FreshInv, AttemptInv, LiftInv, HitInv, FoundInv,
        HandInv, Settled, InHand, Asking, AfterCompare, Lifting, LastIteration, A, In, GoOn,
        Fine, NoHistory
<1>9. HandInv'
    BY SMT, SealAssumption DEF SealInv, SealTypeOK, SealLine, ArenaRecord, SealRun, SealProcess,
        NoProcess, AttemptInv, LiftInv, HitInv, FoundInv, HandInv, OpenSeals, Settled, InHand,
        Asking, AfterCompare, Lifting, LastIteration, A, In, GoOn, Fine, NoHistory
<1>. QED BY <1>1, <1>2, <1>3, <1>4, <1>5, <1>6, <1>7, <1>8, <1>9 DEF SealInv

LEMMA CloseTabsKeeps ==
    ASSUME SealInv, CloseTabs
    PROVE  SealInv' 
<1>1. UNCHANGED <<arenas, seals, run, hits, lost, pardoned>> /\ qa' \in {qa, FALSE}
    /\ qa' \in BOOLEAN
    BY Zenon DEF SealInv, SealTypeOK, CloseTabs, NoHistory
<1>2. \E x \in {"compareKept", "lift"} : GoOn(x)
    BY DEF CloseTabs
<1>3. /\ ctrl' \in SealProcess /\ ctrl'.pc \in {"compareKept", "lift"} /\ ctrl'.bad = ctrl.bad
      /\ ctrl'.hit = ctrl.hit
    BY <1>2, GoesOnOnly DEF SealInv, Pcs
<1>4. ctrl.pc = "closing" /\ A' = A
    BY <1>1 DEF In, A, CloseTabs
<1>5. qa' => qa
    BY <1>1, Zenon
<1>6. SealTypeOK'
    BY <1>1, <1>3, Zenon DEF SealInv, SealTypeOK
<1>7. PlannedIsFirst'
    BY <1>1, <1>2, <1>3, <1>4, <1>5, SMT, SealAssumption DEF SealInv, SealTypeOK, SealLine,
        ArenaRecord, PlannedIsFirst, FreshInv, AttemptInv, ReleasingInv, LiftInv, NoLine,
        Asking, AfterCompare, Lifting, SealProcess, A
<1>8. FreshInv'
    BY <1>1, <1>2, <1>3, <1>4, <1>5, FreshRests, SMT DEF SealInv, Outside, Lifting, AttemptInv,
        LiftInv, Asking, AfterCompare, A
<1>9. AttemptInv'
    BY <1>1, <1>2, <1>3, <1>4, <1>5, SMT, SealAssumption DEF SealInv, SealTypeOK, SealLine,
        ArenaRecord, SealProcess, FreshInv, AttemptInv, NoLine, Asking, AfterCompare, A
<1>10. ReleasingInv'
    BY <1>1, <1>2, <1>3, <1>4, <1>5, SMT, SealAssumption DEF SealInv, SealTypeOK, SealLine,
        ArenaRecord, SealProcess, PlannedIsFirst, FreshInv, AttemptInv, ReleasingInv, LiftInv,
        NoLine, Asking, AfterCompare, Lifting, A
<1>11. LiftInv'
    BY <1>1, <1>2, <1>3, <1>4, <1>5, SMT, SealAssumption DEF SealInv, SealTypeOK, SealLine,
        ArenaRecord, SealProcess, LiftInv, Lifting, A
<1>12. HitInv'
    BY <1>1, <1>2, <1>3, <1>4, <1>5, SMT, SealAssumption DEF SealInv, SealTypeOK, SealLine,
        ArenaRecord, SealRun, SealProcess, NoProcess, Digest, NoDigest, OtherMode,
        PlannedIsFirst, FreshInv, AttemptInv, ReleasingInv, LiftInv, HitInv, FoundInv, HandInv,
        Settled, InHand, NoLine, Asking, AfterCompare, Lifting, A
<1>13. FoundInv'
    BY <1>1, <1>2, <1>3, <1>4, <1>5, SMT, SealAssumption DEF SealInv, SealTypeOK, SealLine,
        ArenaRecord, SealProcess, NoProcess, Digest, NoDigest, OtherMode, FreshInv, AttemptInv,
        LiftInv, HitInv, FoundInv, HandInv, Settled, InHand, Asking, AfterCompare, Lifting, A
<1>14. HandInv'
    BY <1>1, <1>2, <1>3, <1>4, <1>5, SMT, SealAssumption DEF SealInv, SealTypeOK, SealLine,
        ArenaRecord, SealRun, SealProcess, NoProcess, AttemptInv, LiftInv, HitInv, FoundInv,
        HandInv, OpenSeals, Settled, InHand, Asking, AfterCompare, Lifting, A
<1>. QED BY <1>6, <1>7, <1>8, <1>9, <1>10, <1>11, <1>12, <1>13, <1>14 DEF SealInv

LEMMA CompareKeptKeeps ==
    ASSUME SealInv, CompareKept
    PROVE  SealInv'
BY ComparesAndHolds, EndKeeps DEF SealInv, CompareKept, In, NoHistory

LEMMA LiftBeginsKeeps ==
    ASSUME SealInv, In("lift"), ~qa, ctrl' = [ctrl EXCEPT !.pc = "lifting", !.left = OpenSeals],
           UNCHANGED <<arenas, seals, run, qa, hits, lost, pardoned>>
    PROVE  SealInv' 
<1>1. ctrl' \in SealProcess
  <2>1. [ctrl EXCEPT !.pc = "lifting"] \in SealProcess
      BY ProcessPc DEF SealInv, SealTypeOK, Pcs, Lifting
  <2>2. OpenSeals \in SUBSET Arena
      BY DEF OpenSeals
  <2>. QED BY <2>1, <2>2, ProcessSet, Zenon
<1>2. ctrl'.pc = "lifting" /\ ctrl'.left = OpenSeals /\ ctrl'.bad = ctrl.bad
    /\ ctrl'.hit = ctrl.hit
    BY SMT DEF SealInv, SealTypeOK, SealProcess
<1>3. ctrl.pc = "lift" /\ A' = A /\ ctrl.hit = {} /\ Lifting = {"lifting", "liftUnseal",
    "liftReleased"}
    BY SMT DEF In, A, SealInv, HandInv, Lifting
<1>4. ~qa' /\ OpenSeals' = OpenSeals /\ \A a \in OpenSeals : a \in Arena /\ seals'[a].planned
    BY Zenon DEF OpenSeals
<1>5. SealTypeOK'
    BY <1>1, Zenon DEF SealInv, SealTypeOK
<1>6. PlannedIsFirst'
    BY <1>1, <1>2, <1>3, <1>4, SMT, SealAssumption DEF SealInv, SealTypeOK, SealLine,
        ArenaRecord, PlannedIsFirst, FreshInv, AttemptInv, ReleasingInv, LiftInv, NoLine,
        Asking, AfterCompare, Lifting, SealProcess, A, In
<1>7. FreshInv'
    BY <1>1, <1>2, <1>3, <1>4, FreshRests, SMT DEF SealInv, Outside, Lifting, AttemptInv,
        LiftInv, Asking, AfterCompare, In, A
<1>8. AttemptInv'
    BY <1>1, <1>2, <1>3, <1>4, SMT, SealAssumption DEF SealInv, SealTypeOK, SealLine,
        ArenaRecord, SealProcess, FreshInv, AttemptInv, NoLine, Asking, AfterCompare, A, In
<1>9. ReleasingInv'
    BY <1>1, <1>2, <1>3, <1>4, SMT DEF ReleasingInv
<1>10. LiftInv'
    BY <1>1, <1>2, <1>3, <1>4, Zenon DEF LiftInv
<1>11. HitInv'
    BY <1>1, <1>2, <1>3, <1>4, SMT, SealAssumption DEF SealInv, SealTypeOK, SealLine,
        ArenaRecord, SealRun, SealProcess, NoProcess, Digest, NoDigest, OtherMode,
        PlannedIsFirst, FreshInv, AttemptInv, ReleasingInv, LiftInv, HitInv, FoundInv, HandInv,
        Settled, InHand, NoLine, Asking, AfterCompare, Lifting, A, In
<1>12. FoundInv'
    BY <1>1, <1>2, <1>3, <1>4, SMT, SealAssumption DEF SealInv, SealTypeOK, SealLine,
        ArenaRecord, SealProcess, NoProcess, Digest, NoDigest, OtherMode, FreshInv, AttemptInv,
        LiftInv, HitInv, FoundInv, HandInv, Settled, InHand, Asking, AfterCompare, Lifting, A,
        In
<1>13. HandInv'
    BY <1>1, <1>2, <1>3, <1>4, SMT DEF SealInv, HandInv, NoProcess, Lifting, AfterCompare
<1>. QED BY <1>5, <1>6, <1>7, <1>8, <1>9, <1>10, <1>11, <1>12, <1>13 DEF SealInv

LEMMA LiftOrKeepKeeps ==
    ASSUME SealInv, LiftOrKeep
    PROVE  SealInv'
<1>1. CASE qa /\ CompareAndHold /\ ctrl' = NoProcess
    BY <1>1, ComparesAndHolds, EndKeeps DEF SealInv, LiftOrKeep, In, NoHistory
<1>2. CASE ~qa /\ ctrl' = [ctrl EXCEPT !.pc = "lifting", !.left = OpenSeals]
    /\ UNCHANGED <<seals, run>>
    BY <1>2, LiftBeginsKeeps DEF LiftOrKeep, NoHistory
<1>. QED BY <1>1, <1>2 DEF LiftOrKeep

LEMMA LiftReleasingKeeps ==
    ASSUME SealInv, NEW a \in Arena, LiftReleasing(a)
    PROVE  SealInv'
<1>1. LedgerIsReleasing(a)
    BY NotesReleasing DEF SealInv, NoteLine, LiftReleasing
<1>2. SealTypeOK'
  <2>1. ctrl' \in SealProcess
    <3>. DEFINE hit == IF a \in Touched THEN ctrl.hit \cup {a} ELSE ctrl.hit
                c1 == [ctrl EXCEPT !.pc = "liftUnseal"]
                c2 == [c1 EXCEPT !.at = a]
    <3>1. ctrl' = [ctrl EXCEPT !.pc = "liftUnseal", !.at = a, !.hit = hit]
        BY Zenon DEF LiftReleasing
    <3>2. hit \in SUBSET Arena /\ "liftUnseal" \in Pcs /\ a \in Nat
        BY SMT DEF SealInv, SealTypeOK, SealProcess, Pcs, Lifting, Arena
    <3>. HIDE DEF hit
    <3>3. c1 \in SealProcess
        BY <3>2, ProcessPc DEF SealInv, SealTypeOK
    <3>. HIDE DEF c1
    <3>4. c2 \in SealProcess
        BY <3>2, <3>3, ProcessAt
    <3>. HIDE DEF c2
    <3>5. ctrl' = [c2 EXCEPT !.hit = hit]
        BY <3>1, Zenon DEF c1, c2
    <3>. QED BY <3>2, <3>4, <3>5, ProcessSet, Zenon
  <2>. QED BY <1>1, <2>1, Zenon DEF SealInv, SealTypeOK, LedgerIsReleasing, NoHistory,
      LiftReleasing
<1>a. /\ UNCHANGED <<arenas, run, hits, lost, pardoned>> /\ A' = A /\ ctrl'.bad = ctrl.bad
      /\ ctrl'.hit = IF a \in Touched THEN ctrl.hit \cup {a} ELSE ctrl.hit
      /\ ctrl'.pc = "liftUnseal" /\ ctrl'.at = a /\ ctrl.pc = "lifting"
    BY SMT DEF SealInv, SealTypeOK, SealProcess, LiftReleasing, NoHistory, A, In
<1>b. ASSUME NEW b \in Arena, b \in hits
      PROVE  /\ seals[b].planned /\ seals[b].frozen # NoDigest
             /\ seals[b].frozen < arenas[b].version
             /\ Settled(b) \/ run.held \/ b \in ctrl.hit \/ (~seals[b].releasing
                 /\ ~seals[b].released)
    BY <1>a, <1>b, SMT DEF SealInv, HitInv, HandInv, InHand, AfterCompare
<1>c. ASSUME a \in hits, ~seals[a].releasing, ~seals[a].released
      PROVE  a \in Touched
  <2>1. a \in Comparable
      BY <1>b, <1>c DEF Comparable, OpenSeals
  <2>2. FrozenDigest(a) # seals[a].frozen
      BY <1>b, <1>c, SMT DEF SealInv, SealTypeOK, ArenaRecord, HitInv, FrozenDigest, OtherMode
  <2>. QED BY <2>1, <2>2 DEF Touched
<1>d. /\ a \in hits => Settled(a) \/ run.held \/ a \in ctrl'.hit
      /\ ctrl.hit \subseteq ctrl'.hit
    BY <1>a, <1>b, <1>c
<1>3. PlannedIsFirst'
    BY <1>1, SMT, SealAssumption DEF SameLine, LedgerIsReleasing, SealInv, SealTypeOK, SealLine,
        ArenaRecord, PlannedIsFirst, FreshInv, AttemptInv, ReleasingInv, LiftInv, NoLine,
        Asking, AfterCompare, Lifting, SealProcess, LiftReleasing, Touched, Comparable,
        FrozenDigest, A, In, NoHistory
<1>4. FreshInv'
    BY <1>1, FreshRests, SMT DEF SameLine, LedgerIsReleasing, SealInv, SealTypeOK, SealProcess,
        SealRun, Outside, Lifting, LiftReleasing, LiftInv, A, In
<1>5. AttemptInv'
    BY <1>1, SMT, SealAssumption DEF SameLine, LedgerIsReleasing, SealInv, SealTypeOK, SealLine,
        ArenaRecord, SealProcess, FreshInv, AttemptInv, NoLine, Asking, AfterCompare,
        LiftReleasing, Touched, Comparable, FrozenDigest, A, In, NoHistory
<1>6. ReleasingInv'
    BY <1>1, SMT, SealAssumption DEF SameLine, LedgerIsReleasing, SealInv, SealTypeOK, SealLine,
        ArenaRecord, SealProcess, PlannedIsFirst, FreshInv, AttemptInv, ReleasingInv, LiftInv,
        NoLine, Asking, AfterCompare, Lifting, OpenSeals, LiftReleasing, Touched, Comparable,
        FrozenDigest, A, In, NoHistory
<1>7. LiftInv'
    BY <1>1, SMT, SealAssumption DEF SameLine, LedgerIsReleasing, SealInv, SealTypeOK, SealLine,
        ArenaRecord, SealProcess, LiftInv, Lifting, OpenSeals, LiftReleasing, Touched,
        Comparable, FrozenDigest, A, In, NoHistory
<1>8. HitInv'
  <2>1. \A b \in Arena : /\ seals'[b].frozen = seals[b].frozen
                         /\ seals'[b].planned = seals[b].planned
                         /\ seals'[b].released = seals[b].released
                         /\ b # a => seals'[b].releasing = seals[b].releasing
      BY <1>1, Zenon DEF LedgerIsReleasing, SameLine
  <2>2. \A b \in Arena : b \in ctrl'.hit => InHand(b)'
      BY DEF InHand
  <2>3. Settled(a)' = Settled(a) /\ \A b \in Arena : Settled(b)' = Settled(b)
      BY <1>a, Zenon DEF Settled
  <2>4. ASSUME NEW b \in Arena, b \in hits
        PROVE  Settled(b)' \/ run'.held \/ InHand(b)' \/ (~seals'[b].releasing
            /\ ~seals'[b].released)
    <3>1. CASE b = a
        BY <1>a, <1>d, <2>2, <2>3, <2>4, <3>1, Zenon
    <3>2. CASE b # a
        BY <1>a, <1>b, <1>d, <2>1, <2>2, <2>3, <2>4, <3>2, Zenon
    <3>. QED BY <3>1, <3>2
  <2>. QED BY <1>a, <1>b, <2>1, <2>4, ZenonT(60) DEF SealInv, HitInv
<1>9. FoundInv'
    BY <1>a, <1>d, Zenon DEF FoundInv, AfterCompare, Settled
<1>10. HandInv'
    BY <1>1, SMT, SealAssumption DEF SameLine, LedgerIsReleasing, SealInv, SealTypeOK, SealLine,
        ArenaRecord, SealRun, SealProcess, NoProcess, AttemptInv, LiftInv, HitInv, FoundInv,
        HandInv, OpenSeals, Settled, InHand, Asking, AfterCompare, Lifting, LiftReleasing,
        Touched, Comparable, FrozenDigest, A, In, NoHistory
<1>. QED BY <1>2, <1>3, <1>4, <1>5, <1>6, <1>7, <1>8, <1>9, <1>10 DEF SealInv

LEMMA LiftUnsealKeeps ==
    ASSUME SealInv, LiftUnseal
    PROVE  SealInv'
<1>1. ctrl.at \in Arena
    BY SMT DEF SealInv, SealTypeOK, SealProcess, LiftInv, In, LiftUnseal
<1>2. \E m \in {"open", "part"} : arenas' = [arenas EXCEPT ![ctrl.at].mode = m]
    BY DEF Unseal, LiftUnseal
<1>3. /\ arenas' \in [Arena -> ArenaRecord]
      /\ \A b \in Arena : /\ arenas'[b].version = arenas[b].version
                          /\ b # ctrl.at => arenas'[b].mode = arenas[b].mode
                          /\ b = ctrl.at => arenas'[b].mode \in {"open", "part"}
    BY <1>2, <1>1, <1>2, ModeIsSet DEF SealInv, Modes
<1>4. SealTypeOK'
  <2>1. ctrl' \in SealProcess
      BY GoesOn DEF SealInv, Pcs, Asking, AfterCompare, Lifting, LiftUnseal
  <2>. QED BY <1>1, <1>2, <1>3, <2>1, Zenon DEF SealInv, SealTypeOK, NoHistory, LiftUnseal
<1>5. PlannedIsFirst'
    BY <1>1, <1>2, <1>3, SMT, SealAssumption DEF SealInv, SealTypeOK, SealLine, ArenaRecord,
        PlannedIsFirst, FreshInv, AttemptInv, ReleasingInv, LiftInv, NoLine, Asking,
        AfterCompare, Lifting, SealProcess, LiftUnseal, Unseal, A, In, GoOn, Mishap, Fine,
        NoHistory
<1>6. FreshInv'
    BY <1>1, <1>2, <1>3, SMT, SealAssumption DEF SealInv, SealTypeOK, SealLine, ArenaRecord,
        SealRun, SealProcess, Arena, FreshInv, AttemptInv, ReleasingInv, LiftInv, NoLine,
        Asking, AfterCompare, Lifting, LiftUnseal, Unseal, A, In, GoOn, Mishap, Fine, NoHistory
<1>7. AttemptInv'
    BY <1>1, <1>2, <1>3, SMT, SealAssumption DEF SealInv, SealTypeOK, SealLine, ArenaRecord,
        SealProcess, FreshInv, AttemptInv, NoLine, Asking, AfterCompare, LiftUnseal, Unseal, A,
        In, GoOn, Mishap, Fine, NoHistory
<1>8. ReleasingInv'
    BY <1>1, <1>2, <1>3, SMT, SealAssumption DEF SealInv, SealTypeOK, SealLine, ArenaRecord,
        SealProcess, PlannedIsFirst, FreshInv, AttemptInv, ReleasingInv, LiftInv, NoLine,
        Asking, AfterCompare, Lifting, LiftUnseal, Unseal, A, In, GoOn, Mishap, Fine, NoHistory
<1>9. LiftInv'
    BY <1>1, <1>2, <1>3, SMT, SealAssumption DEF SealInv, SealTypeOK, SealLine, ArenaRecord,
        SealProcess, LiftInv, Lifting, LiftUnseal, Unseal, A, In, GoOn, Mishap, Fine, NoHistory
<1>10. HitInv'
    BY <1>1, <1>2, <1>3, SMT, SealAssumption DEF SealInv, SealTypeOK, SealLine, ArenaRecord,
        SealRun, SealProcess, NoProcess, Digest, NoDigest, OtherMode, PlannedIsFirst, FreshInv,
        AttemptInv, ReleasingInv, LiftInv, HitInv, FoundInv, HandInv, Settled, InHand, NoLine,
        Asking, AfterCompare, Lifting, LiftUnseal, Unseal, A, In, GoOn, Mishap, Fine, NoHistory
<1>11. FoundInv'
    BY <1>1, <1>2, <1>3, SMT, SealAssumption DEF SealInv, SealTypeOK, SealLine, ArenaRecord,
        SealProcess, NoProcess, Digest, NoDigest, OtherMode, FreshInv, AttemptInv, LiftInv,
        HitInv, FoundInv, HandInv, Settled, InHand, Asking, AfterCompare, Lifting, LiftUnseal,
        Unseal, A, In, GoOn, Mishap, Fine, NoHistory
<1>12. HandInv'
    BY <1>1, <1>2, <1>3, SMT, SealAssumption DEF SealInv, SealTypeOK, SealLine, ArenaRecord,
        SealRun, SealProcess, NoProcess, AttemptInv, LiftInv, HitInv, FoundInv, HandInv,
        OpenSeals, Settled, InHand, Asking, AfterCompare, Lifting, LiftUnseal, Unseal, A, In,
        GoOn, Mishap, Fine, NoHistory
<1>. QED BY <1>4, <1>5, <1>6, <1>7, <1>8, <1>9, <1>10, <1>11, <1>12 DEF SealInv

LEMMA LiftReleasedKeeps ==
    ASSUME SealInv, LiftReleased
    PROVE  SealInv'
<1>1. ctrl.at \in Arena
    BY SMT DEF SealInv, SealTypeOK, SealProcess, LiftInv, In, LiftReleased
<1>2. LedgerReleases(ctrl.at)
    BY <1>1, NotesReleased DEF SealInv, NoteLine, LiftReleased
<1>3. SealTypeOK'
  <2>1. ctrl' \in SealProcess
      BY ProcessPc, ProcessSet DEF SealInv, SealTypeOK, SealProcess, Pcs, Asking, AfterCompare,
          Lifting, LiftReleased
  <2>. QED BY <1>1, <1>2, <2>1, Zenon DEF SealInv, SealTypeOK, LedgerReleases, NoHistory,
      LiftReleased
<1>4. PlannedIsFirst'
    BY <1>1, <1>2, SMT, SealAssumption DEF SameLine, LedgerReleases, SealInv, SealTypeOK,
        SealLine, ArenaRecord, PlannedIsFirst, FreshInv, AttemptInv, ReleasingInv, LiftInv,
        NoLine, Asking, AfterCompare, Lifting, SealProcess, LiftReleased, A, In, NoHistory
<1>5. FreshInv'
    BY <1>1, <1>2, FreshRests, SMT DEF SameLine, LedgerReleases, SealInv, SealTypeOK,
        SealProcess, SealRun, Outside, Lifting, LiftReleased, LiftInv, A, In
<1>6. AttemptInv'
    BY <1>1, <1>2, SMT, SealAssumption DEF SameLine, LedgerReleases, SealInv, SealTypeOK,
        SealLine, ArenaRecord, SealProcess, FreshInv, AttemptInv, NoLine, Asking, AfterCompare,
        LiftReleased, A, In, NoHistory
<1>7. ReleasingInv'
    BY <1>1, <1>2, SMT, SealAssumption DEF SameLine, LedgerReleases, SealInv, SealTypeOK,
        SealLine, ArenaRecord, SealProcess, PlannedIsFirst, FreshInv, AttemptInv, ReleasingInv,
        LiftInv, NoLine, Asking, AfterCompare, Lifting, LiftReleased, A, In, NoHistory
<1>8. LiftInv'
    BY <1>1, <1>2, SMT, SealAssumption DEF SameLine, LedgerReleases, SealInv, SealTypeOK,
        SealLine, ArenaRecord, SealProcess, LiftInv, Lifting, LiftReleased, A, In, NoHistory
<1>9. HitInv'
    BY <1>1, <1>2, SMT, SealAssumption DEF SameLine, LedgerReleases, SealInv, SealTypeOK,
        SealLine, ArenaRecord, SealRun, SealProcess, NoProcess, Digest, NoDigest, OtherMode,
        PlannedIsFirst, FreshInv, AttemptInv, ReleasingInv, LiftInv, HitInv, FoundInv, HandInv,
        Settled, InHand, NoLine, Asking, AfterCompare, Lifting, LiftReleased, A, In, NoHistory
<1>10. FoundInv'
    BY <1>1, <1>2, SMT, SealAssumption DEF SameLine, LedgerReleases, SealInv, SealTypeOK,
        SealLine, ArenaRecord, SealProcess, NoProcess, Digest, NoDigest, OtherMode, FreshInv,
        AttemptInv, LiftInv, HitInv, FoundInv, HandInv, Settled, InHand, Asking, AfterCompare,
        Lifting, LiftReleased, A, In, NoHistory
<1>11. HandInv'
    BY <1>1, <1>2, SMT, SealAssumption DEF SameLine, LedgerReleases, SealInv, SealTypeOK,
        SealLine, ArenaRecord, SealRun, SealProcess, NoProcess, AttemptInv, LiftInv, HitInv,
        FoundInv, HandInv, OpenSeals, Settled, InHand, Asking, AfterCompare, Lifting,
        LiftReleased, A, In, NoHistory
<1>. QED BY <1>3, <1>4, <1>5, <1>6, <1>7, <1>8, <1>9, <1>10, <1>11 DEF SealInv

LEMMA LiftDoneKeeps ==
    ASSUME SealInv, LiftDone
    PROVE  SealInv'
<1>1. LedgerFinds
    BY DEF SealInv, SealTypeOK, LedgerFinds, SameLine, LiftDone
<1>2. /\ run' \in SealRun /\ run'.attempt = run.attempt /\ run'.stage = run.stage
      /\ (run.held => run'.held) /\ (ctrl.hit # {} => run'.held)
  <2>1. CASE ctrl.hit # {}
      BY <2>1, Holds DEF SealInv, LiftDone
  <2>2. CASE ctrl.hit = {}
      BY <2>2 DEF SealInv, SealTypeOK, LiftDone
  <2>. QED BY <2>1, <2>2
<1>. QED BY <1>1, <1>2, EndKeeps DEF LiftDone, In, NoHistory

LEMMA LiftFailsKeeps ==
    ASSUME SealInv, LiftFails
    PROVE  SealInv'
<1>1. SealTypeOK'
  <2>1. ctrl' \in SealProcess
      BY GoesOn DEF SealInv, Pcs, Asking, AfterCompare, Lifting, LiftFails
  <2>. QED BY <2>1, Zenon DEF SealInv, SealTypeOK, LiftFails, Forgotten
<1>2. PlannedIsFirst'
    BY SMT, SealAssumption DEF SealInv, SealTypeOK, SealLine, ArenaRecord, PlannedIsFirst,
        FreshInv, AttemptInv, ReleasingInv, LiftInv, NoLine, Asking, AfterCompare, Lifting,
        SealProcess, LiftFails, Forgotten, A, In, GoOn, Mishap
<1>3. FreshInv'
    BY SMT, SealAssumption DEF SealInv, SealTypeOK, SealLine, ArenaRecord, SealRun, SealProcess,
        Arena, FreshInv, AttemptInv, ReleasingInv, LiftInv, NoLine, Asking, AfterCompare,
        Lifting, LiftFails, Forgotten, A, In, GoOn, Mishap
<1>4. AttemptInv'
    BY SMT, SealAssumption DEF SealInv, SealTypeOK, SealLine, ArenaRecord, SealProcess,
        FreshInv, AttemptInv, NoLine, Asking, AfterCompare, LiftFails, Forgotten, A, In, GoOn,
        Mishap
<1>5. ReleasingInv'
    BY SMT, SealAssumption DEF SealInv, SealTypeOK, SealLine, ArenaRecord, SealProcess,
        PlannedIsFirst, FreshInv, AttemptInv, ReleasingInv, LiftInv, NoLine, Asking,
        AfterCompare, Lifting, LiftFails, Forgotten, A, In, GoOn, Mishap
<1>6. LiftInv'
    BY SMT, SealAssumption DEF SealInv, SealTypeOK, SealLine, ArenaRecord, SealProcess, LiftInv,
        Lifting, LiftFails, Forgotten, A, In, GoOn, Mishap
<1>7. HitInv'
    BY SMT, SealAssumption DEF SealInv, SealTypeOK, SealLine, ArenaRecord, SealRun, SealProcess,
        NoProcess, Digest, NoDigest, OtherMode, PlannedIsFirst, FreshInv, AttemptInv,
        ReleasingInv, LiftInv, HitInv, FoundInv, HandInv, Settled, InHand, NoLine, Asking,
        AfterCompare, Lifting, LiftFails, Forgotten, A, In, GoOn, Mishap
<1>8. FoundInv'
    BY SMT, SealAssumption DEF SealInv, SealTypeOK, SealLine, ArenaRecord, SealProcess,
        NoProcess, Digest, NoDigest, OtherMode, FreshInv, AttemptInv, LiftInv, HitInv, FoundInv,
        HandInv, Settled, InHand, Asking, AfterCompare, Lifting, LiftFails, Forgotten, A, In,
        GoOn, Mishap
<1>9. HandInv'
    BY SMT, SealAssumption DEF SealInv, SealTypeOK, SealLine, ArenaRecord, SealRun, SealProcess,
        NoProcess, AttemptInv, LiftInv, HitInv, FoundInv, HandInv, OpenSeals, Settled, InHand,
        Asking, AfterCompare, Lifting, LiftFails, Forgotten, A, In, GoOn, Mishap
<1>. QED BY <1>1, <1>2, <1>3, <1>4, <1>5, <1>6, <1>7, <1>8, <1>9 DEF SealInv

LEMMA ProcessDiesKeeps ==
    ASSUME SealInv, ProcessDies
    PROVE  SealInv'
<1>1. SealTypeOK'
  <2>1. ctrl' \in SealProcess
      BY NoProcessIs DEF ProcessDies
  <2>. QED BY <2>1, Zenon DEF SealInv, SealTypeOK, ProcessDies, Forgotten
<1>2. PlannedIsFirst'
    BY SMT, SealAssumption DEF SealInv, SealTypeOK, SealLine, ArenaRecord, PlannedIsFirst,
        FreshInv, AttemptInv, ReleasingInv, LiftInv, NoLine, Asking, AfterCompare, Lifting,
        SealProcess, ProcessDies, Forgotten, A, In, Mishap
<1>3. FreshInv'
    BY SMT, SealAssumption DEF SealInv, SealTypeOK, SealLine, ArenaRecord, SealRun, SealProcess,
        NoProcess, Arena, FreshInv, AttemptInv, ReleasingInv, LiftInv, NoLine, Asking,
        AfterCompare, Lifting, ProcessDies, Forgotten, A, In, Mishap
<1>4. AttemptInv'
    BY SMT, SealAssumption DEF SealInv, SealTypeOK, SealLine, ArenaRecord, SealProcess,
        NoProcess, FreshInv, AttemptInv, NoLine, Asking, AfterCompare, ProcessDies, Forgotten,
        A, In, Mishap
<1>5. ReleasingInv'
    BY SMT, SealAssumption DEF SealInv, SealTypeOK, SealLine, ArenaRecord, SealProcess,
        NoProcess, PlannedIsFirst, FreshInv, AttemptInv, ReleasingInv, LiftInv, NoLine, Asking,
        AfterCompare, Lifting, ProcessDies, Forgotten, A, In, Mishap
<1>6. LiftInv'
    BY SMT, SealAssumption DEF SealInv, SealTypeOK, SealLine, ArenaRecord, SealProcess,
        NoProcess, LiftInv, Lifting, ProcessDies, Forgotten, A, In, Mishap
<1>7. HitInv'
    BY SMT, SealAssumption DEF SealInv, SealTypeOK, SealLine, ArenaRecord, SealRun, SealProcess,
        NoProcess, Digest, NoDigest, OtherMode, PlannedIsFirst, FreshInv, AttemptInv,
        ReleasingInv, LiftInv, HitInv, FoundInv, HandInv, Settled, InHand, NoLine, Asking,
        AfterCompare, Lifting, ProcessDies, Forgotten, A, In, Mishap
<1>8. FoundInv'
    BY SMT, SealAssumption DEF SealInv, SealTypeOK, SealLine, ArenaRecord, SealProcess,
        NoProcess, Digest, NoDigest, OtherMode, FreshInv, AttemptInv, LiftInv, HitInv, FoundInv,
        HandInv, Settled, InHand, Asking, AfterCompare, Lifting, ProcessDies, Forgotten, A, In,
        Mishap
<1>9. HandInv'
    BY SMT, SealAssumption DEF SealInv, SealTypeOK, SealLine, ArenaRecord, SealRun, SealProcess,
        NoProcess, AttemptInv, LiftInv, HitInv, FoundInv, HandInv, OpenSeals, Settled, InHand,
        Asking, AfterCompare, Lifting, ProcessDies, Forgotten, A, In, Mishap
<1>. QED BY <1>1, <1>2, <1>3, <1>4, <1>5, <1>6, <1>7, <1>8, <1>9 DEF SealInv

LEMMA AgentTouchesKeeps ==
    ASSUME SealInv, NEW a \in Arena, AgentTouches(a)
    PROVE  SealInv'
<1>1. SealTypeOK'
  <2>1. arenas' \in [Arena -> ArenaRecord]
      BY SMT DEF SealInv, SealTypeOK, ArenaRecord, AgentTouches
  <2>. QED BY <2>1, Zenon DEF SealInv, SealTypeOK, NoHistory, AgentTouches
<1>2. PlannedIsFirst'
    BY SMT, SealAssumption DEF SealInv, SealTypeOK, SealLine, ArenaRecord, PlannedIsFirst,
        FreshInv, AttemptInv, ReleasingInv, LiftInv, NoLine, Asking, AfterCompare, Lifting,
        SealProcess, AgentTouches, Compared, A, Fine, NoHistory
<1>3. FreshInv'
    BY FreshRests, SMT DEF SealInv, SealTypeOK, SealProcess, SealRun, SealLine, ArenaRecord,
        Outside, Lifting, AgentTouches, A, Fine, NoHistory
<1>4. AttemptInv'
    BY SMT, SealAssumption DEF SealInv, SealTypeOK, SealLine, ArenaRecord, SealProcess,
        FreshInv, AttemptInv, NoLine, Asking, AfterCompare, AgentTouches, Compared, A, Fine,
        NoHistory
<1>5. ReleasingInv'
    BY SMT, SealAssumption DEF SealInv, SealTypeOK, SealLine, ArenaRecord, SealProcess,
        PlannedIsFirst, FreshInv, AttemptInv, ReleasingInv, LiftInv, NoLine, Asking,
        AfterCompare, Lifting, AgentTouches, Compared, A, Fine, NoHistory
<1>6. LiftInv'
    BY SMT, SealAssumption DEF SealInv, SealTypeOK, SealLine, ArenaRecord, SealProcess, LiftInv,
        Lifting, AgentTouches, Compared, A, Fine, NoHistory
<1>7. HitInv'
    BY SMT, SealAssumption DEF SealInv, SealTypeOK, SealLine, ArenaRecord, SealRun, SealProcess,
        NoProcess, Digest, NoDigest, OtherMode, PlannedIsFirst, FreshInv, AttemptInv,
        ReleasingInv, LiftInv, HitInv, FoundInv, HandInv, Settled, InHand, NoLine, Asking,
        AfterCompare, Lifting, AgentTouches, Compared, A, Fine, NoHistory
<1>8. FoundInv'
    BY SMT, SealAssumption DEF SealInv, SealTypeOK, SealLine, ArenaRecord, SealProcess,
        NoProcess, Digest, NoDigest, OtherMode, FreshInv, AttemptInv, LiftInv, HitInv, FoundInv,
        HandInv, Settled, InHand, Asking, AfterCompare, Lifting, AgentTouches, Compared, A,
        Fine, NoHistory
<1>9. HandInv'
    BY SMT, SealAssumption DEF SealInv, SealTypeOK, SealLine, SealProcess, NoDigest,
        PlannedIsFirst, AttemptInv, LiftInv, HitInv, HandInv, OpenSeals, Settled, Asking,
        AfterCompare, Lifting, AgentTouches, Compared, NoHistory
<1>. QED BY <1>1, <1>2, <1>3, <1>4, <1>5, <1>6, <1>7, <1>8, <1>9 DEF SealInv

LEMMA AgentLeavesKeeps ==
    ASSUME SealInv, AgentLeaves
    PROVE  SealInv'
<1>1. SealTypeOK'
    BY Zenon DEF SealInv, SealTypeOK, NoHistory, AgentLeaves
<1>2. PlannedIsFirst'
    BY SMT, SealAssumption DEF SealInv, SealTypeOK, SealLine, ArenaRecord, PlannedIsFirst,
        FreshInv, AttemptInv, ReleasingInv, LiftInv, NoLine, Asking, AfterCompare, Lifting,
        SealProcess, AgentLeaves, A, Fine, NoHistory
<1>3. FreshInv'
    BY SMT, SealAssumption DEF SealInv, SealTypeOK, SealLine, ArenaRecord, SealRun, SealProcess,
        Arena, FreshInv, AttemptInv, ReleasingInv, LiftInv, NoLine, Asking, AfterCompare,
        Lifting, AgentLeaves, A, Fine, NoHistory
<1>4. AttemptInv'
    BY SMT, SealAssumption DEF SealInv, SealTypeOK, SealLine, ArenaRecord, SealProcess,
        FreshInv, AttemptInv, NoLine, Asking, AfterCompare, AgentLeaves, A, Fine, NoHistory
<1>5. ReleasingInv'
    BY SMT, SealAssumption DEF SealInv, SealTypeOK, SealLine, ArenaRecord, SealProcess,
        PlannedIsFirst, FreshInv, AttemptInv, ReleasingInv, LiftInv, NoLine, Asking,
        AfterCompare, Lifting, AgentLeaves, A, Fine, NoHistory
<1>6. LiftInv'
    BY SMT, SealAssumption DEF SealInv, SealTypeOK, SealLine, ArenaRecord, SealProcess, LiftInv,
        Lifting, AgentLeaves, A, Fine, NoHistory
<1>7. HitInv'
    BY SMT, SealAssumption DEF SealInv, SealTypeOK, SealLine, ArenaRecord, SealRun, SealProcess,
        NoProcess, Digest, NoDigest, OtherMode, PlannedIsFirst, FreshInv, AttemptInv,
        ReleasingInv, LiftInv, HitInv, FoundInv, HandInv, Settled, InHand, NoLine, Asking,
        AfterCompare, Lifting, AgentLeaves, A, Fine, NoHistory
<1>8. FoundInv'
    BY SMT, SealAssumption DEF SealInv, SealTypeOK, SealLine, ArenaRecord, SealProcess,
        NoProcess, Digest, NoDigest, OtherMode, FreshInv, AttemptInv, LiftInv, HitInv, FoundInv,
        HandInv, Settled, InHand, Asking, AfterCompare, Lifting, AgentLeaves, A, Fine, NoHistory
<1>9. HandInv'
    BY SMT, SealAssumption DEF SealInv, SealTypeOK, SealLine, ArenaRecord, SealRun, SealProcess,
        NoProcess, AttemptInv, LiftInv, HitInv, FoundInv, HandInv, OpenSeals, Settled, InHand,
        Asking, AfterCompare, Lifting, AgentLeaves, A, Fine, NoHistory
<1>. QED BY <1>1, <1>2, <1>3, <1>4, <1>5, <1>6, <1>7, <1>8, <1>9 DEF SealInv

LEMMA UnblockRunKeeps ==
    ASSUME SealInv, UnblockRun
    PROVE  SealInv'
<1>1. SealTypeOK'
  <2>1. run' \in SealRun
      BY RunFields DEF SealInv, SealTypeOK, UnblockRun
  <2>. QED BY <2>1, Zenon DEF SealInv, SealTypeOK, UnblockRun
<1>2. PlannedIsFirst'
    BY SMT, SealAssumption DEF SealInv, SealTypeOK, SealLine, ArenaRecord, PlannedIsFirst,
        FreshInv, AttemptInv, ReleasingInv, LiftInv, NoLine, Asking, AfterCompare, Lifting,
        SealProcess, UnblockRun, A, In, Fine
<1>3. FreshInv'
    BY SMT, SealAssumption DEF SealInv, SealTypeOK, SealLine, ArenaRecord, SealRun, SealProcess,
        Arena, FreshInv, AttemptInv, ReleasingInv, LiftInv, NoLine, Asking, AfterCompare,
        Lifting, UnblockRun, A, In, Fine
<1>4. AttemptInv'
    BY SMT, SealAssumption DEF SealInv, SealTypeOK, SealLine, ArenaRecord, SealProcess,
        FreshInv, AttemptInv, NoLine, Asking, AfterCompare, UnblockRun, A, In, Fine
<1>5. ReleasingInv'
    BY SMT, SealAssumption DEF SealInv, SealTypeOK, SealLine, ArenaRecord, SealProcess,
        PlannedIsFirst, FreshInv, AttemptInv, ReleasingInv, LiftInv, NoLine, Asking,
        AfterCompare, Lifting, UnblockRun, A, In, Fine
<1>6. LiftInv'
    BY SMT, SealAssumption DEF SealInv, SealTypeOK, SealLine, ArenaRecord, SealProcess, LiftInv,
        Lifting, UnblockRun, A, In, Fine
<1>7. HitInv'
    BY SMT, SealAssumption DEF SealInv, SealTypeOK, SealLine, ArenaRecord, SealRun, SealProcess,
        NoProcess, Digest, NoDigest, OtherMode, PlannedIsFirst, FreshInv, AttemptInv,
        ReleasingInv, LiftInv, HitInv, FoundInv, HandInv, Settled, InHand, NoLine, Asking,
        AfterCompare, Lifting, UnblockRun, A, In, Fine
<1>8. FoundInv'
    BY SMT, SealAssumption DEF SealInv, SealTypeOK, SealLine, ArenaRecord, SealProcess,
        NoProcess, Digest, NoDigest, OtherMode, FreshInv, AttemptInv, LiftInv, HitInv, FoundInv,
        HandInv, Settled, InHand, Asking, AfterCompare, Lifting, UnblockRun, A, In, Fine
<1>9. HandInv'
    BY SMT, SealAssumption DEF SealInv, SealTypeOK, SealLine, ArenaRecord, SealRun, SealProcess,
        NoProcess, AttemptInv, LiftInv, HitInv, FoundInv, HandInv, OpenSeals, Settled, InHand,
        Asking, AfterCompare, Lifting, UnblockRun, A, In, Fine
<1>. QED BY <1>1, <1>2, <1>3, <1>4, <1>5, <1>6, <1>7, <1>8, <1>9 DEF SealInv

LEMMA GoesOutKeeps ==
    ASSUME SealInv, GoesOut
    PROVE  SealInv'
<1>1. SealTypeOK'
  <2>1. run' \in SealRun
      BY RunFields DEF SealInv, SealTypeOK, GoesOut
  <2>. QED BY <2>1, Zenon DEF SealInv, SealTypeOK, NoHistory, GoesOut
<1>2. PlannedIsFirst'
    BY SMT, SealAssumption DEF SealInv, SealTypeOK, SealLine, ArenaRecord, PlannedIsFirst,
        FreshInv, AttemptInv, ReleasingInv, LiftInv, NoLine, Asking, AfterCompare, Lifting,
        SealProcess, GoesOut, MayGoOut, A, In, Fine, NoHistory
<1>3. FreshInv'
    BY SMT, SealAssumption DEF SealInv, SealTypeOK, SealLine, ArenaRecord, SealRun, SealProcess,
        Arena, FreshInv, AttemptInv, ReleasingInv, LiftInv, NoLine, Asking, AfterCompare,
        Lifting, GoesOut, MayGoOut, A, In, Fine, NoHistory
<1>4. AttemptInv'
    BY SMT, SealAssumption DEF SealInv, SealTypeOK, SealLine, ArenaRecord, SealProcess,
        FreshInv, AttemptInv, NoLine, Asking, AfterCompare, GoesOut, MayGoOut, A, In, Fine,
        NoHistory
<1>5. ReleasingInv'
    BY SMT, SealAssumption DEF SealInv, SealTypeOK, SealLine, ArenaRecord, SealProcess,
        PlannedIsFirst, FreshInv, AttemptInv, ReleasingInv, LiftInv, NoLine, Asking,
        AfterCompare, Lifting, OpenSeals, GoesOut, MayGoOut, A, In, Fine, NoHistory
<1>6. LiftInv'
    BY SMT, SealAssumption DEF SealInv, SealTypeOK, SealLine, ArenaRecord, SealProcess, LiftInv,
        Lifting, OpenSeals, GoesOut, MayGoOut, A, In, Fine, NoHistory
<1>7. HitInv'
    BY SMT, SealAssumption DEF SealInv, SealTypeOK, SealLine, ArenaRecord, SealRun, SealProcess,
        NoProcess, Digest, NoDigest, OtherMode, PlannedIsFirst, FreshInv, AttemptInv,
        ReleasingInv, LiftInv, HitInv, FoundInv, HandInv, Settled, InHand, NoLine, Asking,
        AfterCompare, Lifting, GoesOut, MayGoOut, A, In, Fine, NoHistory
<1>8. FoundInv'
    BY SMT, SealAssumption DEF SealInv, SealTypeOK, SealLine, ArenaRecord, SealProcess,
        NoProcess, Digest, NoDigest, OtherMode, FreshInv, AttemptInv, LiftInv, HitInv, FoundInv,
        HandInv, Settled, InHand, Asking, AfterCompare, Lifting, GoesOut, MayGoOut, A, In, Fine,
        NoHistory
<1>9. HandInv'
    BY SMT, SealAssumption DEF SealInv, SealTypeOK, SealLine, ArenaRecord, SealRun, SealProcess,
        NoProcess, AttemptInv, LiftInv, HitInv, FoundInv, HandInv, OpenSeals, Settled, InHand,
        Asking, AfterCompare, Lifting, GoesOut, MayGoOut, A, In, Fine, NoHistory
<1>. QED BY <1>1, <1>2, <1>3, <1>4, <1>5, <1>6, <1>7, <1>8, <1>9 DEF SealInv

LEMMA InitIs ==
    ASSUME SealInit
    PROVE  SealInv
<1>1. Digest = Nat \cup {-1, -2} /\ 0 .. MaxAttempts \subseteq Int /\ 0 \in 0 .. MaxAttempts
    BY SealAssumption, SMT DEF Digest, NoDigest, OtherMode
<1>2. NoLine \in SealLine /\ NoProcess \in SealProcess
    BY <1>1, NoProcessIs, SMT DEF NoLine, SealLine, NoDigest
<1>3. run \in SealRun /\ run.attempt = 0 /\ run.stage = "working"
    BY <1>1, SMT DEF SealInit, SealRun
<1>4. \A a \in Arena : arenas[a] \in ArenaRecord /\ arenas[a].mode = "none" /\ seals[a] = NoLine
    BY SMT DEF SealInit, ArenaRecord, Modes
<1>5. SealTypeOK
    BY <1>2, <1>3, <1>4, Zenon DEF SealInit, SealTypeOK
<1>6. /\ ctrl.pc = "off" /\ ~ctrl.bad /\ ctrl.hit = {} /\ ctrl = NoProcess /\ hits = {}
    BY DEF SealInit, NoProcess
<1>7. PlannedIsFirst /\ FreshInv /\ ReleasingInv
  <2>1. \A a \in Arena : ~seals[a].releasing /\ arenas[a].mode = "none"
      BY <1>4, SMT DEF NoLine
  <2>2. PlannedIsFirst
      BY <2>1, SMT DEF PlannedIsFirst
  <2>3. FreshInv
      BY <1>4, <1>6, SMT DEF FreshInv, Lifting
  <2>. QED BY <1>6, <2>1, <2>2, <2>3, SMT DEF ReleasingInv
<1>8. AttemptInv /\ LiftInv /\ FoundInv
    BY <1>6, SMT DEF AttemptInv, LiftInv, FoundInv, Asking, AfterCompare, Lifting
<1>9. HitInv /\ HandInv
    BY <1>3, <1>4, <1>6, SMT DEF HitInv, HandInv, NoLine
<1>. QED BY <1>5, <1>7, <1>8, <1>9 DEF SealInv

LEMMA StutterKeeps ==
    ASSUME SealInv, UNCHANGED sealVars
    PROVE  SealInv'
<1>1. /\ arenas' = arenas /\ seals' = seals /\ run' = run /\ ctrl' = ctrl /\ qa' = qa
      /\ hits' = hits /\ lost' = lost /\ pardoned' = pardoned
    BY Zenon DEF sealVars
<1>2. SealTypeOK' /\ PlannedIsFirst'
    BY <1>1, Zenon DEF SealInv, SealTypeOK, PlannedIsFirst
<1>3. FreshInv' /\ AttemptInv' /\ ReleasingInv' /\ LiftInv'
    BY <1>1, ZenonT(60) DEF SealInv, FreshInv, AttemptInv, ReleasingInv, LiftInv, A
<1>4. HitInv' /\ FoundInv' /\ HandInv'
    BY <1>1, Zenon DEF SealInv, HitInv, FoundInv, HandInv, Settled, InHand, OpenSeals, A
<1>. QED BY <1>2, <1>3, <1>4 DEF SealInv

LEMMA NextKeeps ==
    ASSUME SealInv, [SealNext]_sealVars
    PROVE  SealInv'
<1>1. CASE UNCHANGED sealVars
    BY <1>1, StutterKeeps
<1>2. CASE RunStarts
    BY <1>2, RunStartsKeeps
<1>3. CASE Verify
    BY <1>3, VerifyKeeps
<1>4. ASSUME NEW a \in Arena, FinishRelease(a) PROVE SealInv'
    BY <1>4, FinishReleaseKeeps
<1>5. CASE CheckOpenSeals
    BY <1>5, CheckOpenSealsKeeps
<1>6. CASE PlanSeal
    BY <1>6, PlanSealKeeps
<1>7. CASE ApplySeal
    BY <1>7, ApplySealKeeps
<1>8. CASE RecordSealed
    BY <1>8, RecordSealedKeeps
<1>9. CASE RollBack
    BY <1>9, RollBackKeeps
<1>10. CASE SealFailed
    BY <1>10, SealFailedKeeps
<1>11. CASE AskQA
    BY <1>11, AskQAKeeps
<1>12. ASSUME NEW how \in {"answer", "error", "approval", "unclean", "interrupt"},
    QAReturns(how) PROVE SealInv'
    BY <1>12, QAReturnsKeeps
<1>13. CASE KeepSeal
    BY <1>13, KeepSealKeeps
<1>14. CASE CompareSealed
    BY <1>14, CompareSealedKeeps
<1>15. CASE Releasing
    BY <1>15, ReleasingKeeps
<1>16. CASE UnsealArena
    BY <1>16, UnsealArenaKeeps
<1>17. CASE SealReleased
    BY <1>17, SealReleasedKeeps
<1>18. CASE Violation
    BY <1>18, ViolationKeeps
<1>19. CASE Verdict
    BY <1>19, VerdictKeeps
<1>20. CASE LastIteration
    BY <1>20, LastIterationKeeps
<1>21. CASE CloseTabs
    BY <1>21, CloseTabsKeeps
<1>22. CASE CompareKept
    BY <1>22, CompareKeptKeeps
<1>23. CASE LiftOrKeep
    BY <1>23, LiftOrKeepKeeps
<1>24. ASSUME NEW a \in Arena, LiftReleasing(a) PROVE SealInv'
    BY <1>24, LiftReleasingKeeps
<1>25. CASE LiftUnseal
    BY <1>25, LiftUnsealKeeps
<1>26. CASE LiftReleased
    BY <1>26, LiftReleasedKeeps
<1>27. CASE LiftDone
    BY <1>27, LiftDoneKeeps
<1>28. CASE LiftFails
    BY <1>28, LiftFailsKeeps
<1>29. CASE ProcessDies
    BY <1>29, ProcessDiesKeeps
<1>30. ASSUME NEW a \in Arena, AgentTouches(a) PROVE SealInv'
    BY <1>30, AgentTouchesKeeps
<1>31. CASE AgentLeaves
    BY <1>31, AgentLeavesKeeps
<1>32. CASE UnblockRun
    BY <1>32, UnblockRunKeeps
<1>33. CASE GoesOut
    BY <1>33, GoesOutKeeps
<1>. QED BY <1>1, <1>2, <1>3, <1>4, <1>5, <1>6, <1>7, <1>8, <1>9, <1>10, <1>11, <1>12, <1>13,
    <1>14, <1>15, <1>16, <1>17, <1>18, <1>19, <1>20, <1>21, <1>22, <1>23, <1>24, <1>25, <1>26,
    <1>27, <1>28, <1>29, <1>30, <1>31, <1>32, <1>33 DEF SealNext

-----------------------------------------------------------------------------
(* The theorems                                                            *)

\* The state is what the code can leave there, and the invariant that says why a change is seen
\* holds in every state of every run (_seal_candidate to release_open_seals).
THEOREM SealIsSound == SealSpec => []SealInv
<1>1. SealInit => SealInv
    BY InitIs
<1>2. SealInv /\ [SealNext]_sealVars => SealInv'
    BY NextKeeps
<1>. QED BY <1>1, <1>2, PTL DEF SealSpec

LEMMA SealInvTells ==
    ASSUME SealInv
    PROVE  SealsTell
<1>1. ASSUME NEW a \in hits, ~Settled(a)
      PROVE  run.stage # "delivered" /\ (a \in OpenSeals \/ run.held \/ InHand(a))
  <2>1. a \in Arena
      BY <1>1 DEF SealInv, SealTypeOK
  <2>2. seals[a].planned
      BY <1>1, <2>1 DEF SealInv, HitInv
  <2>3. run.held \/ InHand(a) \/ ~seals[a].released
      BY <1>1, <2>1 DEF SealInv, HitInv
  <2>4. run.stage # "delivered"
      BY <1>1 DEF SealInv, HandInv
  <2>. QED BY <2>1, <2>2, <2>3, <2>4 DEF OpenSeals
<1>. QED BY <1>1 DEF SealsTell, TouchIsSeen, SealInv

\* A change QA makes to the arena it judges holds the run before the seal is off the ledger, and
\* no write bit is cleared that the ledger does not know of.
THEOREM SealsAlwaysTell == SealSpec => []SealsTell
BY SealIsSound, SealInvTells, PTL

\* The arenas whose seal an action lifts: those of a release under way, and those of the end of
\* the run once QA's agent is gone.
LEMMA KeptStaysSealed ==
    ASSUME SealInv, [SealNext]_sealVars
    PROVE  [\A a \in Arena : seals[a].kept /\ arenas[a].mode = "sealed"
               /\ arenas'[a].mode # "sealed" => ~qa]_sealVars
<1>1. SUFFICES ASSUME NEW b \in Arena, seals[b].kept, arenas[b].mode = "sealed",
                      arenas'[b].mode # "sealed"
               PROVE  ~qa
    OBVIOUS
<1>2. CASE UNCHANGED arenas
    BY <1>1, <1>2
<1>3. ASSUME NEW a \in Arena, FinishRelease(a) PROVE ~qa
  <2>1. \E m \in {"open", "part"} : arenas' = [arenas EXCEPT ![a].mode = m]
      BY <1>3 DEF FinishRelease
  <2>2. b = a
      BY <1>1, <2>1, ModeIsSet DEF SealInv, Modes
  <2>3. seals[b].releasing
      BY <1>3, <2>2 DEF SealInv, ReleasingInv, FinishRelease, In
  <2>. QED BY <1>1, <2>3 DEF SealInv, ReleasingInv
<1>4. CASE PlanSeal \/ ApplySeal \/ RollBack
  <2>1. ctrl.pc \in {"plan", "apply", "rollback"}
      BY <1>4 DEF PlanSeal, ApplySeal, RollBack, In
  <2>2. A \in Arena
      BY <2>1, AttemptIs
  <2>3. \E m \in Modes : arenas' = [arenas EXCEPT ![A].mode = m]
      BY <1>4 DEF PlanSeal, ApplySeal, RollBack, Modes
  <2>4. b = A
      BY <1>1, <2>2, <2>3, ModeIsSet DEF SealInv
  <2>5. ~seals[A].kept
      BY <2>1, <2>2, SMT DEF SealInv, FreshInv, AttemptInv, NoLine
  <2>. QED BY <1>1, <2>4, <2>5
<1>5. CASE UnsealArena
  <2>1. A \in Arena /\ ~seals[A].kept
      BY <1>5, AttemptIs DEF UnsealArena, In, AfterCompare, SealInv, AttemptInv
  <2>2. \E m \in Modes : arenas' = [arenas EXCEPT ![A].mode = m]
      BY <1>5 DEF UnsealArena, Unseal, Modes
  <2>3. b = A
      BY <1>1, <2>1, <2>2, ModeIsSet DEF SealInv
  <2>. QED BY <1>1, <2>1, <2>3
<1>6. CASE LiftUnseal
    BY <1>6 DEF LiftUnseal, In, SealInv, LiftInv, Lifting
<1>7. ASSUME NEW a \in Arena, AgentTouches(a) PROVE ~qa
    BY <1>1, <1>7, SMT DEF SealInv, SealTypeOK, ArenaRecord, AgentTouches
<1>. QED
  BY <1>2, <1>3, <1>4, <1>5, <1>6, <1>7, Zenon
  DEF sealVars, SealNext, RunStarts, Verify, CheckOpenSeals, RecordSealed, SealFailed, AskQA,
      QAReturns, KeepSeal, CompareSealed, Releasing, SealReleased, Violation, Verdict,
      LastIteration, CloseTabs, CompareKept, LiftOrKeep, LiftReleasing, LiftReleased, LiftDone,
      LiftFails, ProcessDies, AgentLeaves, UnblockRun, GoesOut

\* Under a pane that was kept open, or after an interrupt, the seal is lifted only when QA's agent
\* is gone (docs/LIMITATIONS.md, limit 12d).
THEOREM KeptIsAlwaysSealed == SealSpec => KeptIsSealed
<1>1. SealInv /\ [SealNext]_sealVars
      => [\A a \in Arena : seals[a].kept /\ arenas[a].mode = "sealed"
             /\ arenas'[a].mode # "sealed" => ~qa]_sealVars
    BY KeptStaysSealed
<1>. QED BY <1>1, SealIsSound, PTL DEF SealSpec, KeptIsSealed


-----------------------------------------------------------------------------
(* The end of a turn: who is below whom                                    *)

LEMMA ProcsNumbered ==
    /\ Shell \in Procs /\ Server \notin Procs /\ Orphaned \notin Procs
    /\ Rounds \in Nat \ {0} /\ MaxFailures \in Nat
BY QuietAssumption, SMT DEF Shell, Server, Orphaned

\* What is below a set holds it, and every set that has it and its own children.
LEMMA BelowIs ==
    ASSUME NEW t, NEW S \in SUBSET Procs
    PROVE  /\ Below(t, S) \in SUBSET Procs /\ S \subseteq Below(t, S)
           /\ HasItsChildren(t, Below(t, S))
           /\ \A T \in SUBSET Procs :
                 S \subseteq T /\ HasItsChildren(t, T) => Below(t, S) \subseteq T
<1>1. Below(t, S) \in SUBSET Procs /\ S \subseteq Below(t, S)
    BY Zenon DEF Below
<1>2. \A T \in SUBSET Procs :
         S \subseteq T /\ HasItsChildren(t, T) => Below(t, S) \subseteq T
    BY Zenon DEF Below
<1>3. ASSUME NEW p \in LiveIn(t), t[p].parent \in Below(t, S) PROVE p \in Below(t, S)
  <2>1. ASSUME NEW T \in SUBSET Procs, S \subseteq T, HasItsChildren(t, T) PROVE p \in T
      BY <1>2, <1>3, <2>1, Zenon DEF HasItsChildren
  <2>2. p \in Procs
      BY DEF LiveIn
  <2>. QED BY <2>1, <2>2, Zenon DEF Below
<1>. QED BY <1>1, <1>2, <1>3, Zenon DEF HasItsChildren

\* In a table whose session and whose children of the anchored are anchored, the tree and the
\* members are.
LEMMA AllAnchored ==
    ASSUME NEW t, anchored \in SUBSET Procs, ender.members \in SUBSET Procs,
           SessionIn(t) \subseteq anchored, HasItsChildren(t, anchored)
    PROVE  /\ TreeIn(t) \in SUBSET Procs /\ TreeIn(t) \subseteq anchored
           /\ SessionIn(t) \subseteq TreeIn(t) /\ MembersIn(t) \in SUBSET Procs
           /\ ender.members \cap LiveIn(t) \subseteq MembersIn(t)
           /\ ender.members \subseteq anchored => MembersIn(t) \subseteq anchored
<1>1. SessionIn(t) \in SUBSET Procs
    BY DEF SessionIn, LiveIn
<1>. PICK B : B = (ender.members \cap LiveIn(t)) \cup (MarkedIn(t) \cap SessionIn(t))
    OBVIOUS
<1>2. /\ B \in SUBSET Procs /\ ender.members \cap LiveIn(t) \subseteq B
      /\ ender.members \subseteq anchored => B \subseteq anchored
    BY <1>1
<1>3. MembersIn(t) = Below(t, B)
    BY Zenon DEF MembersIn
<1>4. /\ TreeIn(t) \in SUBSET Procs /\ TreeIn(t) \subseteq anchored
      /\ SessionIn(t) \subseteq TreeIn(t)
    BY <1>1, BelowIs, Zenon DEF TreeIn
<1>5. /\ MembersIn(t) \in SUBSET Procs /\ B \subseteq MembersIn(t)
      /\ B \subseteq anchored => MembersIn(t) \subseteq anchored
  <2>1. Below(t, B) \in SUBSET Procs /\ B \subseteq Below(t, B)
      BY <1>2, BelowIs
  <2>2. \A T \in SUBSET Procs :
           B \subseteq T /\ HasItsChildren(t, T) => Below(t, B) \subseteq T
      BY <1>2, BelowIs
  <2>3. B \subseteq anchored => Below(t, B) \subseteq anchored
      BY <2>2
  <2>. QED BY <1>3, <2>1, <2>3
<1>6. ender.members \cap LiveIn(t) \subseteq MembersIn(t)
    BY <1>2, <1>5
<1>7. ender.members \subseteq anchored => MembersIn(t) \subseteq anchored
    BY <1>2, <1>5
<1>. QED BY <1>4, <1>5, <1>6, <1>7

\* The processes that live, their marks and who is in the session only become fewer.
Dwindles ==
    \A p \in Procs : /\ table'[p].alive => table[p].alive
                     /\ table'[p].mark => table[p].mark
                     /\ table'[p].session = Shell => table[p].session = Shell
                     /\ table'[p].parent \in {table[p].parent, Orphaned}
                     /\ table'[p].born = table[p].born
LEMMA FewerOfAll ==
    ASSUME Dwindles
    PROVE  /\ LiveProcs' \subseteq LiveProcs /\ Marked' \subseteq Marked
           /\ SessionIn(table)' \subseteq SessionIn(table)
<1>1. LiveProcs' \subseteq LiveProcs
    BY Zenon DEF Dwindles, LiveProcs, LiveIn
<1>2. Marked' \subseteq Marked
    BY <1>1, Zenon DEF Dwindles, LiveProcs, LiveIn, Marked, MarkedIn
<1>3. SessionIn(table)' \subseteq SessionIn(table)
    BY <1>1, Zenon DEF Dwindles, LiveProcs, LiveIn, SessionIn
<1>. QED BY <1>1, <1>2, <1>3

LEMMA RowFields ==
    ASSUME NEW r \in ProcRecord
    PROVE  /\ \A b \in BOOLEAN : /\ [r EXCEPT !.alive = b] \in ProcRecord
                                 /\ [r EXCEPT !.mark = b] \in ProcRecord
           /\ \A x \in Procs \cup {Server, Orphaned} : [r EXCEPT !.parent = x] \in ProcRecord
           /\ \A x \in Procs \cup {0} : [r EXCEPT !.session = x] \in ProcRecord
BY SMT DEF ProcRecord

\* What is left of the table keeps its form.
LEMMA RowsLeft ==
    ASSUME TableInv, ender' \in EnderRecord, table' \in [Procs -> ProcRecord], Dwindles,
           table'[Shell].session = table[Shell].session
    PROVE  TableInv'
<1>1. table'[Shell].session = Shell /\ table'[Shell].born
    BY ProcsNumbered, Zenon DEF TableInv, Dwindles
<1>2. ASSUME NEW p \in Procs
      PROVE  /\ table'[p].alive => table'[p].born
             /\ table'[p].parent \in Procs => table'[table'[p].parent].born
  <2>1. /\ table[p].alive => table[p].born
        /\ table[p].parent \in Procs => table[table[p].parent].born
        /\ table'[p].alive => table[p].alive
        /\ table'[p].parent \in {table[p].parent, Orphaned}
        /\ \A q \in Procs : table'[q].born = table[q].born
      BY Zenon DEF TableInv, Dwindles
  <2>. QED BY <2>1, ProcsNumbered, Zenon
<1>. QED BY <1>1, <1>2, Zenon DEF TableInv

LEMMA WithoutAre ==
    ASSUME TableInv, NEW S, table' = WithoutProcs(S)
    PROVE  /\ table' \in [Procs -> ProcRecord] /\ Dwindles
           /\ \A p \in Procs : table'[p].session = table[p].session
<1>1. ASSUME NEW p \in Procs
      PROVE  /\ table'[p] \in ProcRecord /\ table'[p].born = table[p].born
             /\ table'[p].session = table[p].session /\ (table'[p].mark => table[p].mark)
             /\ (table'[p].alive => table[p].alive)
             /\ table'[p].parent \in {table[p].parent, Orphaned}
  <2>. PICK r : r = table[p]
      OBVIOUS
  <2>. PICK a, x : /\ a = (r.alive /\ p \notin S)
                   /\ x = IF r.parent \in S THEN Orphaned ELSE r.parent
      OBVIOUS
  <2>. DEFINE r1 == [r EXCEPT !.alive = a]
              r2 == [r1 EXCEPT !.parent = x]
  <2>1. r \in ProcRecord
      BY DEF TableInv
  <2>2. a \in BOOLEAN /\ (a => r.alive)
      BY Zenon
  <2>3. x \in Procs \cup {Server, Orphaned} /\ x \in {r.parent, Orphaned}
      BY <2>1, SMT DEF ProcRecord
  <2>4. table'[p] = r2
    <3>1. table'[p] = [r EXCEPT !.alive = r.alive /\ p \notin S,
                                !.parent = IF r.parent \in S THEN Orphaned ELSE r.parent]
        BY Zenon DEF WithoutProcs
    <3>. QED BY <3>1, Zenon
  <2>5. r1 \in ProcRecord
      BY <2>1, <2>2, RowFields, Zenon
  <2>6. r1.born = r.born /\ r1.session = r.session /\ r1.mark = r.mark /\ (r1.alive = a)
      BY <2>1, SMT DEF ProcRecord
  <2>. HIDE DEF r1
  <2>7. r2 \in ProcRecord
      BY <2>3, <2>5, RowFields, Zenon
  <2>8. /\ r2.born = r.born /\ r2.session = r.session /\ r2.mark = r.mark /\ (r2.alive = a)
        /\ r2.parent = x
      BY <2>5, <2>6, SMT DEF ProcRecord
  <2>. HIDE DEF r2
  <2>. QED BY <2>2, <2>3, <2>4, <2>7, <2>8, Zenon
<1>2. table' = [p \in Procs |-> table'[p]]
    BY DEF WithoutProcs
<1>3. table' \in [Procs -> ProcRecord]
    BY <1>1, <1>2, Zenon
<1>. QED BY <1>1, <1>3, Zenon DEF Dwindles

\* The controller's place changes, and what it knows.
LEMMA EnderFields ==
    ASSUME NEW e \in EnderRecord
    PROVE  /\ \A x \in EnderPcs : [e EXCEPT !.pc = x] \in EnderRecord
           /\ \A S \in SUBSET Procs : /\ [e EXCEPT !.members = S] \in EnderRecord
                                      /\ [e EXCEPT !.escaped = S] \in EnderRecord
                                      /\ [e EXCEPT !.told = S] \in EnderRecord
                                      /\ [e EXCEPT !.killed = S] \in EnderRecord
           /\ \A b \in BOOLEAN : [e EXCEPT !.problem = b] \in EnderRecord
           /\ \A n \in 0..Rounds : [e EXCEPT !.round = n] \in EnderRecord
BY SMT DEF EnderRecord

LEMMA PcIs ==
    ASSUME NEW e \in EnderRecord, NEW x \in EnderPcs
    PROVE  /\ [e EXCEPT !.pc = x] \in EnderRecord /\ [e EXCEPT !.pc = x].pc = x
           /\ [e EXCEPT !.pc = x].members = e.members /\ [e EXCEPT !.pc = x].problem = e.problem
           /\ [e EXCEPT !.pc = x].round = e.round
<1>1. [e EXCEPT !.pc = x] \in EnderRecord
    BY EnderFields, Zenon
<1>. QED BY <1>1, SMT DEF EnderRecord

-----------------------------------------------------------------------------
(* What each part of the invariant asks of a step                          *)

LEMMA Kinds ==
    ASSUME QuietInv
    PROVE  /\ table \in [Procs -> ProcRecord] /\ ender \in EnderRecord
           /\ anchored \in SUBSET Procs /\ listed \in SUBSET Procs /\ unread \in SUBSET Procs
           /\ ender.members \in SUBSET Procs /\ ender.told \in SUBSET Procs
           /\ ender.killed \in SUBSET Procs /\ ender.escaped \in SUBSET Procs
           /\ view \in [Procs -> ProcRecord]
<1>1. ender \in EnderRecord /\ table \in [Procs -> ProcRecord]
    BY DEF QuietInv, TableInv
<1>2. /\ ender.members \in SUBSET Procs /\ ender.told \in SUBSET Procs
      /\ ender.killed \in SUBSET Procs /\ ender.escaped \in SUBSET Procs
    BY <1>1, SMT DEF EnderRecord
<1>. QED BY <1>1, <1>2, Zenon DEF QuietInv, ViewInv, AnchorInv

LEMMA NothingIs ==
    Nothing \in [Procs -> ProcRecord] /\ \A p \in Procs : ~Nothing[p].alive
<1>1. Unborn \in ProcRecord /\ ~Unborn.alive
    BY SMT DEF Unborn, ProcRecord
<1>. QED BY <1>1, Zenon DEF Nothing

\* The look stays as it is while the processes become fewer.
LEMMA ViewKept ==
    ASSUME ViewInv, Dwindles, UNCHANGED <<lookVars, anchored>>,
           ender'.members = ender.members
    PROVE  ViewInv'
<1>1. /\ looking' = looking /\ listed' = listed /\ unread' = unread /\ view' = view
      /\ anchored' = anchored
    BY DEF lookVars
<1>2. LiveProcs' \subseteq LiveProcs
    BY FewerOfAll
<1>3. view' \in [Procs -> ProcRecord] /\ unread' \subseteq listed' /\ listed' \subseteq Procs
    BY <1>1, Zenon DEF ViewInv
<1>4. ~looking' => view' = Nothing /\ unread' = {}
    BY <1>1, Zenon DEF ViewInv, Nothing
<1>5. \A p \in listed' : table'[p].born
    BY <1>1, Zenon DEF ViewInv, Dwindles
<1>6. ASSUME NEW p \in Procs PROVE SeenAs(p)'
  <2>1. SeenAs(p)
      BY DEF ViewInv
  <2>. QED BY <1>1, <2>1, Zenon DEF SeenAs, Dwindles
<1>7. looking' => ender'.members \cap LiveProcs' \subseteq listed'
    BY <1>1, <1>2, Zenon DEF ViewInv
<1>8. view'[Shell].alive => view'[Shell].session = Shell
    BY <1>1, Zenon DEF ViewInv
<1>9. ~looking' => view' = Nothing'
    BY <1>4, Zenon DEF Nothing
<1>. QED BY <1>3, <1>4, <1>5, <1>6, <1>7, <1>8, <1>9, Zenon DEF ViewInv

\* A look is over, and what it read is forgotten.
LEMMA ViewForgotten ==
    ASSUME ViewInv, Dwindles, ~looking', view' = Nothing, unread = {},
           UNCHANGED <<listed, unread>>
    PROVE  ViewInv'
<1>1. view' \in [Procs -> ProcRecord] /\ \A p \in Procs : ~view'[p].alive
    BY NothingIs, Zenon
<1>2. \A p \in listed' : table'[p].born
    BY Zenon DEF ViewInv, Dwindles
<1>3. unread' \subseteq listed' /\ listed' \subseteq Procs /\ unread' = {}
    BY Zenon DEF ViewInv
<1>4. view' = Nothing'
    BY Zenon DEF Nothing
<1>5. ASSUME NEW p \in Procs PROVE SeenAs(p)'
    BY <1>1, Zenon DEF SeenAs
<1>. QED BY <1>1, <1>2, <1>3, <1>4, <1>5, ProcsNumbered, Zenon DEF ViewInv

LEMMA AnchorKept ==
    ASSUME QuietInv, Dwindles, anchored' = anchored, ended' \subseteq anchored,
           Surveyed' => Surveyed /\ ender'.members \subseteq anchored
    PROVE  AnchorInv'
<1>1. anchored \in SUBSET Procs /\ AnchorInv
    BY Kinds DEF QuietInv
<1>2. anchored' \subseteq {p \in Procs : table'[p].born}
    BY <1>1, Zenon DEF AnchorInv, Dwindles
<1>3. ASSUME Surveyed PROVE SessionIn(table)' \subseteq anchored
    BY <1>1, <1>3, FewerOfAll DEF AnchorInv
<1>4. ASSUME Surveyed PROVE HasItsChildren(table, anchored)'
  <2>1. ASSUME NEW p \in LiveProcs', table'[p].parent \in anchored PROVE p \in anchored
    <3>1. p \in LiveProcs /\ p \in Procs
        BY FewerOfAll DEF LiveProcs, LiveIn
    <3>2. table'[p].parent = table[p].parent
        BY <1>1, <2>1, <3>1, ProcsNumbered, Zenon DEF Dwindles
    <3>. QED BY <1>1, <1>4, <2>1, <3>1, <3>2, Zenon DEF HasItsChildren, AnchorInv, LiveProcs
  <2>. QED BY <2>1, Zenon DEF HasItsChildren, LiveProcs
<1>. QED BY <1>2, <1>3, <1>4, Zenon DEF AnchorInv, SignalsItsOwn

LEMMA ViewAnchored ==
    ASSUME QuietInv, looking, unread = {}
    PROVE  /\ TreeIn(view) \in SUBSET Procs /\ TreeIn(view) \subseteq anchored
           /\ SessionIn(view) \subseteq TreeIn(view)
           /\ MembersIn(view) \in SUBSET Procs /\ MembersIn(view) \subseteq anchored
           /\ ender.members \cap LiveIn(view) \subseteq MembersIn(view)
<1>1. SessionIn(view) \subseteq anchored
    BY Zenon DEF QuietInv, ViewInv, SeenAs, SessionIn, LiveIn
<1>2. HasItsChildren(view, anchored)
    BY Zenon DEF QuietInv, ViewInv, SeenAs, HasItsChildren, LiveIn
<1>3. ender.members \subseteq anchored
    BY DEF QuietInv, AnchorInv, Surveyed
<1>. QED BY <1>1, <1>2, <1>3, Kinds, AllAnchored, Zenon

LEMMA StaySame ==
    ASSUME TableInv, table' = table, ender' \in EnderRecord
    PROVE  Dwindles /\ TableInv'
BY Zenon DEF Dwindles, TableInv

-----------------------------------------------------------------------------
(* The steps of the processes                                              *)

\* A step of a process that only takes away: the controller stays where it is.
LEMMA TakesAway ==
    ASSUME QuietInv, UNCHANGED <<ender, lookVars, ended, anchored>>,
           table' \in [Procs -> ProcRecord], Dwindles,
           table'[Shell].session = table[Shell].session
    PROVE  QuietInv'
<1>1. /\ ender' = ender /\ ended' = ended /\ anchored' = anchored /\ listed' = listed
      /\ looking' = looking
    BY DEF lookVars
<1>2. TableInv'
  <2>1. TableInv /\ ender' \in EnderRecord
      BY <1>1 DEF QuietInv, TableInv
  <2>. QED BY <2>1, RowsLeft
<1>3. ViewInv'
    BY <1>1, ViewKept DEF QuietInv
<1>4. AnchorInv'
  <2>1. Surveyed' => Surveyed /\ ender'.members \subseteq anchored
      BY <1>1 DEF Surveyed, QuietInv, AnchorInv
  <2>2. ended' \subseteq anchored
      BY <1>1 DEF QuietInv, AnchorInv, SignalsItsOwn
  <2>. QED BY <1>1, <2>1, <2>2, AnchorKept
<1>5. EndInv'
  <2>1. Marked' \subseteq Marked
      BY FewerOfAll
  <2>. QED BY <1>1, <2>1, Zenon DEF QuietInv, EndInv, Stage
<1>. QED BY <1>2, <1>3, <1>4, <1>5 DEF QuietInv

LEMMA ExitKeeps == ASSUME QuietInv, NEW p \in Procs, Exit(p) PROVE QuietInv'
<1>1. table' = WithoutProcs({p}) /\ UNCHANGED <<ender, lookVars, ended, anchored>>
    BY DEF Exit
<1>2. TableInv /\ Shell \in Procs
    BY ProcsNumbered DEF QuietInv
<1>. QED BY <1>1, <1>2, WithoutAre, TakesAway, Zenon

LEMMA ScrubKeeps == ASSUME QuietInv, NEW p \in Procs, Scrub(p) PROVE QuietInv'
<1>. DEFINE r == [table[p] EXCEPT !.mark = FALSE]
<1>1. table' = [table EXCEPT ![p] = r] /\ UNCHANGED <<ender, lookVars, ended, anchored>>
    BY Zenon DEF Scrub, Untouched
<1>2. table \in [Procs -> ProcRecord] /\ table[p] \in ProcRecord /\ FALSE \in BOOLEAN
    BY DEF QuietInv, TableInv
<1>3. r \in ProcRecord
    BY <1>2, RowFields, Zenon
<1>4. /\ r.alive = table[p].alive /\ r.born = table[p].born /\ r.session = table[p].session
      /\ r.parent = table[p].parent /\ r.mark = FALSE
    BY <1>2, SMT DEF ProcRecord
<1>. HIDE DEF r
<1>5. /\ table' \in [Procs -> ProcRecord] /\ table'[p] = r
      /\ \A q \in Procs \ {p} : table'[q] = table[q]
    BY <1>1, <1>2, <1>3, Zenon
<1>6. Dwindles
    BY <1>4, <1>5, Zenon DEF Dwindles
<1>7. \A q \in Procs : table'[q].session = table[q].session
    BY <1>4, <1>5, Zenon
<1>. QED BY <1>1, <1>5, <1>6, <1>7, ProcsNumbered, TakesAway, Zenon

LEMMA DetachKeeps == ASSUME QuietInv, NEW p \in Procs, Detach(p) PROVE QuietInv'
<1>. DEFINE r == [table[p] EXCEPT !.session = p]
<1>1. /\ table' = [table EXCEPT ![p] = r] /\ UNCHANGED <<ender, lookVars, ended, anchored>>
      /\ p # Shell
    BY Zenon DEF Detach, Untouched
<1>2. table \in [Procs -> ProcRecord] /\ table[p] \in ProcRecord
    BY DEF QuietInv, TableInv
<1>3. r \in ProcRecord
    BY <1>2, RowFields, Zenon
<1>4. /\ r.alive = table[p].alive /\ r.born = table[p].born /\ r.session = p
      /\ r.parent = table[p].parent /\ r.mark = table[p].mark
    BY <1>2, SMT DEF ProcRecord
<1>. HIDE DEF r
<1>5. /\ table' \in [Procs -> ProcRecord] /\ table'[p] = r
      /\ \A q \in Procs \ {p} : table'[q] = table[q]
    BY <1>1, <1>2, <1>3, Zenon
<1>6. Dwindles
    BY <1>1, <1>4, <1>5, Zenon DEF Dwindles
<1>7. table'[Shell].session = table[Shell].session
    BY <1>1, <1>5, ProcsNumbered, Zenon
<1>. QED BY <1>1, <1>5, <1>6, <1>7, TakesAway, Zenon

LEMMA ForkKeeps ==
    ASSUME QuietInv, NEW p \in Procs, NEW q \in Procs, Fork(p, q)
    PROVE  QuietInv'
<1>. DEFINE r == [table[p] EXCEPT !.parent = p]
<1>1. /\ table[p].alive /\ ~table[q].born /\ table' = [table EXCEPT ![q] = r]
      /\ anchored' = (IF p \in anchored THEN anchored \cup {q} ELSE anchored)
      /\ ender' = ender /\ ended' = ended /\ looking' = looking /\ listed' = listed
      /\ unread' = unread /\ view' = view
    BY Zenon DEF Fork, Untouched, lookVars
<1>2. /\ table \in [Procs -> ProcRecord] /\ table[p] \in ProcRecord /\ ender \in EnderRecord
      /\ table[p].born /\ p # q /\ ~table[q].alive /\ q # Shell
    BY <1>1 DEF QuietInv, TableInv
<1>3. r \in ProcRecord
    BY <1>2, RowFields, Zenon
<1>4. /\ r.alive = table[p].alive /\ r.born = table[p].born /\ r.session = table[p].session
      /\ r.parent = p /\ r.mark = table[p].mark
  <2>1. table[p] \in ProcRecord
      BY <1>2
  <2>. QED BY <2>1, SMT DEF ProcRecord
<1>. HIDE DEF r
<1>5. /\ table' \in [Procs -> ProcRecord] /\ table'[q] = r
      /\ \A k \in Procs \ {q} : table'[k] = table[k]
    BY <1>1, <1>2, <1>3, Zenon
<1>6. \A k \in Procs : table[k].born => table'[k].born /\ k # q /\ table'[k] = table[k]
    BY <1>1, <1>5, Zenon
<1>7. TableInv'
  <2>1. table'[Shell].session = Shell /\ table'[Shell].born
      BY <1>2, <1>5, ProcsNumbered DEF QuietInv, TableInv
  <2>2. ASSUME NEW k \in Procs
        PROVE  /\ table'[k].alive => table'[k].born
               /\ table'[k].parent \in Procs => table'[table'[k].parent].born
    <3>1. CASE k = q
        BY <1>1, <1>2, <1>4, <1>5, <1>6, <3>1
    <3>2. CASE k # q
        BY <1>5, <1>6, <3>2, Zenon DEF QuietInv, TableInv
    <3>. QED BY <3>1, <3>2
  <2>. QED BY <1>1, <1>2, <1>5, <2>1, <2>2, Zenon DEF TableInv
<1>8. /\ LiveProcs' = LiveProcs \cup {q} /\ q \notin listed /\ q \notin anchored
      /\ looking => q \notin ender.members
  <2>1. LiveProcs' = LiveProcs \cup {q}
      BY <1>1, <1>2, <1>4, <1>5, Zenon DEF LiveProcs, LiveIn
  <2>2. q \notin listed /\ q \notin anchored
      BY <1>1, Zenon DEF QuietInv, ViewInv, AnchorInv
  <2>3. looking => ender.members \subseteq anchored
      BY DEF QuietInv, AnchorInv, Surveyed
  <2>. QED BY <2>1, <2>2, <2>3
<1>9. ViewInv'
  <2>1. view' \in [Procs -> ProcRecord] /\ unread' \subseteq listed' /\ listed' \subseteq Procs
      BY <1>1, Zenon DEF QuietInv, ViewInv
  <2>2. ~looking' => view' = Nothing' /\ unread' = {}
      BY <1>1, Zenon DEF QuietInv, ViewInv, Nothing
  <2>3. \A k \in listed' : table'[k].born
      BY <1>1, <1>6, Zenon DEF QuietInv, ViewInv
  <2>4. ASSUME NEW k \in Procs PROVE SeenAs(k)'
    <3>1. ASSUME view[k].alive
          PROVE  /\ view[k].session = Shell => k \in anchored
                 /\ view[k].parent \in anchored => k \in anchored
                 /\ view[k].parent \in Procs => table[view[k].parent].born
        BY <3>1, Zenon DEF QuietInv, ViewInv, SeenAs
    <3>2. ASSUME view[k].alive
          PROVE  view[k].parent # q
        BY <1>1, <3>1, <3>2, Zenon
    <3>3. looking /\ k \in listed \ unread /\ table[k].alive =>
             view[k].alive /\ (table[k].mark => view[k].mark)
        BY Zenon DEF QuietInv, ViewInv, SeenAs
    <3>4. k \in listed => table'[k] = table[k]
        BY <1>5, <1>8, Zenon
    <3>5. anchored \subseteq anchored' /\ anchored' \subseteq anchored \cup {q}
        BY <1>1
    <3>. QED BY <1>1, <1>6, <3>1, <3>2, <3>3, <3>4, <3>5, Zenon DEF SeenAs
  <2>5. looking' => ender'.members \cap LiveProcs' \subseteq listed'
      BY <1>1, <1>8 DEF QuietInv, ViewInv
  <2>6. view'[Shell].alive => view'[Shell].session = Shell
      BY <1>1, Zenon DEF QuietInv, ViewInv
  <2>. QED BY <2>1, <2>2, <2>3, <2>4, <2>5, <2>6, Zenon DEF ViewInv
<1>10. AnchorInv'
  <2>1. anchored' \subseteq {k \in Procs : table'[k].born}
    <3>1. table'[q].born
        BY <1>2, <1>4, <1>5
    <3>2. \A k \in anchored : k \in Procs /\ table[k].born
        BY Zenon DEF QuietInv, AnchorInv
    <3>. QED BY <1>1, <1>6, <3>1, <3>2
  <2>2. ended' \subseteq anchored'
      BY <1>1 DEF QuietInv, AnchorInv, SignalsItsOwn
  <2>3. ASSUME Surveyed
        PROVE  /\ SessionIn(table)' \subseteq anchored'
               /\ HasItsChildren(table, anchored)'
               /\ ender'.members \subseteq anchored'
    <3>1. /\ SessionIn(table) \subseteq anchored /\ HasItsChildren(table, anchored)
          /\ ender.members \subseteq anchored
        BY <2>3 DEF QuietInv, AnchorInv
    <3>2. ASSUME NEW k \in SessionIn(table)' PROVE k \in anchored'
      <4>1. k \in Procs /\ table'[k].alive /\ table'[k].session = Shell
          BY DEF SessionIn, LiveIn
      <4>2. CASE k = q
        <5>1. p \in SessionIn(table)
            BY <1>1, <1>4, <1>5, <4>1, <4>2, Zenon DEF SessionIn, LiveIn
        <5>. QED BY <1>1, <3>1, <4>2, <5>1
      <4>3. CASE k # q
        <5>1. k \in SessionIn(table)
            BY <1>5, <4>1, <4>3, Zenon DEF SessionIn, LiveIn
        <5>. QED BY <1>1, <3>1, <5>1
      <4>. QED BY <4>2, <4>3
    <3>3. ASSUME NEW k \in LiveProcs', table'[k].parent \in anchored' PROVE k \in anchored'
      <4>1. CASE k = q
        <5>1. p \in anchored'
            BY <1>4, <1>5, <3>3, <4>1, Zenon
        <5>. QED BY <1>1, <1>2, <4>1, <5>1
      <4>2. CASE k # q
        <5>1. k \in LiveProcs /\ k \in Procs /\ table'[k].parent = table[k].parent
            BY <1>5, <1>8, <4>2, Zenon DEF LiveProcs, LiveIn
        <5>2. table[k].parent # q
            BY <1>1, <5>1, Zenon DEF QuietInv, TableInv
        <5>3. table[k].parent \in anchored
            BY <1>1, <3>3, <5>1, <5>2
        <5>4. k \in anchored
            BY <3>1, <5>1, <5>3, Zenon DEF HasItsChildren, LiveProcs
        <5>. QED BY <1>1, <5>4
      <4>. QED BY <4>1, <4>2
    <3>4. HasItsChildren(table, anchored)'
        BY <3>3, Zenon DEF HasItsChildren, LiveProcs
    <3>5. ender'.members \subseteq anchored'
        BY <1>1, <3>1
    <3>. QED BY <3>2, <3>4, <3>5
  <2>4. Surveyed' => Surveyed
      BY <1>1, Zenon DEF Surveyed
  <2>. QED BY <2>1, <2>2, <2>3, <2>4, Zenon DEF AnchorInv, SignalsItsOwn
<1>11. EndInv'
  <2>1. Marked' \cap listed \subseteq Marked \cap listed
    <3>1. \A k \in Procs \ {q} : table'[k] = table[k]
        BY <1>5
    <3>. QED BY <1>8, <3>1, Zenon DEF Marked, MarkedIn, LiveIn
  <2>. QED BY <1>1, <2>1, Zenon DEF QuietInv, EndInv, Stage
<1>. QED BY <1>7, <1>9, <1>10, <1>11 DEF QuietInv

-----------------------------------------------------------------------------
(* The steps of a look                                                     *)

LEMMA LookKeeps == ASSUME QuietInv, BeginLook PROVE QuietInv'
<1>1. /\ table' = table /\ ender' = ender /\ ended' = ended /\ view' = view
      /\ looking' = TRUE /\ listed' = LiveProcs /\ unread' = LiveProcs /\ ~looking
      /\ ender.pc \in LooksAt
      /\ anchored' = IF Stage("turn") THEN TreeIn(table) ELSE anchored
    BY DEF BeginLook
<1>2. LiveProcs' = LiveProcs /\ SessionIn(table)' = SessionIn(table)
    BY <1>1, Zenon DEF LiveProcs, LiveIn, SessionIn
<1>3. TableInv'
  <2>1. TableInv /\ ender' \in EnderRecord
      BY <1>1 DEF QuietInv, TableInv
  <2>. QED BY <1>1, <2>1, StaySame
<1>4. /\ anchored' \subseteq {p \in Procs : table[p].born} /\ ended \subseteq anchored'
      /\ SessionIn(table) \subseteq anchored' /\ HasItsChildren(table, anchored')
      /\ ender.members \subseteq anchored'
  <2>1. CASE Stage("turn")
    <3>1. PICK B : B = {p \in Procs : table[p].born}
        OBVIOUS
    <3>2. \A p \in LiveProcs : p \in B
        BY <3>1, Zenon DEF LiveProcs, LiveIn, QuietInv, TableInv
    <3>3. /\ SessionIn(table) \in SUBSET Procs /\ SessionIn(table) \subseteq B
          /\ B \in SUBSET Procs
        BY <3>1, <3>2, Zenon DEF SessionIn, LiveIn, LiveProcs
    <3>4. HasItsChildren(table, B)
        BY <3>2, Zenon DEF HasItsChildren, LiveProcs
    <3>5. TreeIn(table) \subseteq B /\ SessionIn(table) \subseteq TreeIn(table)
        BY <3>3, <3>4, BelowIs, Zenon DEF TreeIn
    <3>6. HasItsChildren(table, TreeIn(table))
        BY <3>3, BelowIs, Zenon DEF TreeIn
    <3>7. ender.members = {} /\ ended = {}
        BY <2>1 DEF QuietInv, EndInv
    <3>. QED BY <1>1, <2>1, <3>1, <3>5, <3>6, <3>7
  <2>2. CASE ~Stage("turn")
    <3>1. Surveyed
        BY <1>1, <2>2 DEF Surveyed, LooksAt, Stage, QuietInv, EndInv
    <3>2. anchored' = anchored
        BY <1>1, <2>2
    <3>. QED BY <3>1, <3>2, Zenon DEF QuietInv, AnchorInv, SignalsItsOwn
  <2>. QED BY <2>1, <2>2
<1>5. ViewInv'
  <2>1. view = Nothing /\ \A p \in LiveProcs : p \in Procs /\ table[p].born
      BY <1>1, Zenon DEF QuietInv, ViewInv, TableInv, LiveProcs, LiveIn
  <2>2. view' \in [Procs -> ProcRecord] /\ \A p \in Procs : ~view'[p].alive
      BY <1>1, <2>1, NothingIs, Zenon
  <2>3. ASSUME NEW p \in Procs PROVE SeenAs(p)'
      BY <1>1, <2>2, Zenon DEF SeenAs
  <2>4. LiveProcs \subseteq Procs /\ unread' \subseteq listed' /\ listed' \subseteq Procs
      BY <1>1 DEF LiveProcs, LiveIn
  <2>5. ender'.members \cap LiveProcs' \subseteq listed'
      BY <1>1, <1>2
  <2>. QED BY <1>1, <2>1, <2>2, <2>3, <2>4, <2>5, ProcsNumbered, Zenon DEF ViewInv
<1>6. AnchorInv'
    BY <1>1, <1>2, <1>4, Zenon DEF AnchorInv, SignalsItsOwn, HasItsChildren, SessionIn, LiveIn
<1>7. EndInv'
    BY <1>1, Zenon DEF QuietInv, EndInv, Stage, LooksAt
<1>. QED BY <1>3, <1>5, <1>6, <1>7 DEF QuietInv

LEMMA ReadKeeps == ASSUME QuietInv, NEW q \in Procs, ReadProc(q) PROVE QuietInv'
<1>1. /\ table' = table /\ ender' = ender /\ ended' = ended /\ anchored' = anchored
      /\ looking' = looking /\ looking /\ listed' = listed /\ unread' = unread \ {q}
      /\ q \in unread
      /\ view' = IF table[q].alive THEN [view EXCEPT ![q] = table[q]] ELSE view
    BY DEF ReadProc
<1>2. LiveProcs' = LiveProcs /\ Marked' = Marked
    BY <1>1, Zenon DEF LiveProcs, LiveIn, Marked, MarkedIn
<1>3. TableInv' /\ Dwindles
  <2>1. TableInv /\ ender' \in EnderRecord
      BY <1>1 DEF QuietInv, TableInv
  <2>. QED BY <1>1, <2>1, StaySame
<1>4. AnchorInv'
  <2>1. (Surveyed' => Surveyed) /\ (Surveyed' => ender'.members \subseteq anchored)
      BY <1>1 DEF Surveyed, QuietInv, AnchorInv
  <2>2. ended' \subseteq anchored
      BY <1>1 DEF QuietInv, AnchorInv, SignalsItsOwn
  <2>. QED BY <1>1, <1>3, <2>1, <2>2, AnchorKept
<1>5. EndInv'
    BY <1>1, <1>2, Zenon DEF QuietInv, EndInv, Stage
<1>6. ViewInv'
  <2>1. /\ view' \in [Procs -> ProcRecord]
        /\ \A p \in Procs \ {q} : view'[p] = view[p]
        /\ view'[q] = IF table[q].alive THEN table[q] ELSE view[q]
    <3>1. view \in [Procs -> ProcRecord] /\ table[q] \in ProcRecord
        BY Kinds
    <3>. QED BY <1>1, <3>1, Zenon
  <2>2. ASSUME NEW p \in Procs PROVE SeenAs(p)'
    <3>. SeenAs(p)
        BY DEF QuietInv, ViewInv
    <3>1. CASE p = q /\ table[q].alive
      <4>1. view'[p] = table[p] /\ p \in LiveProcs
          BY <2>1, <3>1 DEF LiveProcs, LiveIn
      <4>2. /\ SessionIn(table) \subseteq anchored /\ HasItsChildren(table, anchored)
          BY <1>1 DEF QuietInv, AnchorInv, Surveyed
      <4>3. table[p].session = Shell => p \in anchored
          BY <4>1, <4>2, Zenon DEF SessionIn, LiveProcs, LiveIn
      <4>4. table[p].parent \in anchored => p \in anchored
          BY <4>1, <4>2, Zenon DEF HasItsChildren, LiveProcs
      <4>5. table[p].parent \in Procs => table[table[p].parent].born
          BY Zenon DEF QuietInv, TableInv
      <4>6. /\ view'[p].alive => /\ view'[p].session = Shell => p \in anchored'
                                 /\ view'[p].parent \in anchored' => p \in anchored'
                                 /\ view'[p].parent \in Procs => table'[view'[p].parent].born
          BY <1>1, <4>1, <4>3, <4>4, <4>5
      <4>7. /\ table'[p].alive => view'[p].alive
            /\ table'[p].mark => view'[p].mark
          BY <1>1, <4>1
      <4>. QED BY <4>6, <4>7, Zenon DEF SeenAs
    <3>2. CASE p = q /\ ~table[q].alive
        BY <1>1, <2>1, <3>2, Zenon DEF SeenAs
    <3>3. CASE p # q
      <4>1. view'[p] = view[p] /\ (p \in listed' \ unread' => p \in listed \ unread)
          BY <1>1, <2>1, <3>3
      <4>2. /\ table' = table /\ anchored' = anchored /\ looking' = looking
            /\ (p \in listed' \ unread' => p \in listed \ unread)
          BY <1>1, <4>1
      <4>3. view'[p].parent \in Procs => table'[view'[p].parent] = table[view[p].parent]
          BY <4>1, <4>2
      <4>. QED BY <4>1, <4>2, <4>3, SMT DEF SeenAs
    <3>. QED BY <3>1, <3>2, <3>3
  <2>3. /\ unread' \subseteq listed' /\ listed' \subseteq Procs
        /\ \A p \in listed' : table'[p].born
      BY <1>1, Zenon DEF QuietInv, ViewInv
  <2>4. ender'.members \cap LiveProcs' \subseteq listed'
      BY <1>1, <1>2 DEF QuietInv, ViewInv
  <2>5. view'[Shell].alive => view'[Shell].session = Shell
    <3>1. table[Shell].session = Shell /\ (view[Shell].alive => view[Shell].session = Shell)
        BY DEF QuietInv, ViewInv, TableInv
    <3>. QED BY <2>1, <3>1, ProcsNumbered, Zenon
  <2>. QED BY <1>1, <2>1, <2>2, <2>3, <2>4, <2>5, Zenon DEF ViewInv
<1>. QED BY <1>3, <1>4, <1>5, <1>6 DEF QuietInv

\* The controller moves on and the processes become fewer, or stay: what it scanned stays.
LEMMA MovesOn ==
    ASSUME QuietInv, Dwindles, TableInv', ViewInv', ~looking',
           ender'.members = ender.members, anchored' = anchored, ended' \subseteq anchored,
           ender'.pc \in {"term", "kill", "prove"} => Surveyed /\ ~ender'.problem,
           ender'.pc # "turn", ender'.pc = "close" => ender'.problem,
           ender'.pc \in {"close", "term", "kill"} => ender'.round < Rounds
    PROVE  QuietInv'
<1>1. /\ Surveyed' => Surveyed
      /\ Surveyed' => ender'.members \subseteq anchored
    BY DEF Surveyed, QuietInv, AnchorInv
<1>2. AnchorInv'
    BY <1>1, AnchorKept
<1>3. EndInv'
    BY Zenon DEF EndInv, Stage
<1>. QED BY <1>2, <1>3 DEF QuietInv

\* A look that is judged: it is over, and the processes are fewer or the same.
LEMMA LookedIs ==
    ASSUME QuietInv, NEW at, Looked(at), Dwindles
    PROVE  /\ ender.pc = at /\ at \in LooksAt /\ looking /\ unread = {} /\ ~looking'
           /\ Surveyed /\ ViewInv'
           /\ at \in {"term", "kill", "prove"} => ~ender.problem
           /\ at \in {"turn", "term", "kill"} => ender.round < Rounds
<1>1. /\ ender.pc = at /\ looking /\ unread = {} /\ looking' = FALSE /\ view' = Nothing
      /\ UNCHANGED <<listed, unread>>
    BY DEF Looked, Stage
<1>2. ViewInv'
    BY <1>1, ViewForgotten DEF QuietInv
<1>. QED BY <1>1, <1>2, Zenon DEF QuietInv, EndInv, Surveyed

LEMMA LookFailsKeeps == ASSUME QuietInv, LookFails PROVE QuietInv'
<1>1. /\ ender.pc \in LooksAt /\ ~looking' /\ table' = table
      /\ UNCHANGED <<lookVars, anchored, ended>> /\ ender \in EnderRecord
    BY DEF LookFails, lookVars, QuietInv, TableInv
<1>2. /\ ender' \in EnderRecord /\ ender'.members = ender.members
      /\ \/ ender'.pc = "refused"
         \/ ender'.pc = "close" /\ ender'.problem /\ ender'.round < Rounds
  <2>1. CASE ender' = [ender EXCEPT !.pc = "refused"]
    <3>1. "refused" \in EnderPcs
        BY DEF EnderPcs
    <3>. QED BY <1>1, <2>1, <3>1, PcIs, Zenon
  <2>2. CASE Stage("turn") /\ ender' = [ender EXCEPT !.pc = "close", !.problem = TRUE]
    <3>. DEFINE e1 == [ender EXCEPT !.pc = "close"]
                e2 == [e1 EXCEPT !.problem = TRUE]
    <3>1. ender' = e2
        BY <2>2, Zenon
    <3>2. "close" \in EnderPcs
        BY DEF EnderPcs
    <3>3. /\ e1 \in EnderRecord /\ e1.pc = "close" /\ e1.members = ender.members
          /\ e1.round = ender.round
        BY <1>1, <3>2, PcIs, Zenon
    <3>. HIDE DEF e1
    <3>4. e2 \in EnderRecord
        BY <3>3, EnderFields, Zenon
    <3>5. /\ e2.pc = "close" /\ e2.members = ender.members /\ (e2.problem = TRUE)
          /\ e2.round = ender.round
        BY <3>3, SMT DEF EnderRecord
    <3>6. ender.round < Rounds
        BY <2>2 DEF QuietInv, EndInv, Stage
    <3>. QED BY <3>1, <3>4, <3>5, <3>6, Zenon
  <2>. QED BY <2>1, <2>2, Zenon DEF LookFails
<1>3. Dwindles /\ TableInv' /\ ViewInv'
  <2>1. Dwindles /\ TableInv'
      BY <1>1, <1>2, StaySame, Zenon DEF QuietInv
  <2>2. ViewInv'
      BY <1>1, <1>2, <2>1, ViewKept, Zenon DEF QuietInv
  <2>. QED BY <2>1, <2>2
<1>4. ended' \subseteq anchored
    BY <1>1 DEF QuietInv, AnchorInv, SignalsItsOwn
<1>5. /\ ender'.pc # "turn" /\ (ender'.pc = "close" => ender'.problem)
      /\ ender'.pc \notin {"term", "kill", "prove"}
      /\ ender'.pc \in {"close", "term", "kill"} => ender'.round < Rounds
    BY <1>2
<1>. QED BY <1>1, <1>2, <1>3, <1>4, <1>5, MovesOn, Zenon

-----------------------------------------------------------------------------
(* The steps of the controller                                             *)

\* The controller only changes its place.
LEMMA PcKeeps ==
    ASSUME QuietInv, NEW at \in EnderPcs, ender' = [ender EXCEPT !.pc = at],
           Dwindles, table' \in [Procs -> ProcRecord],
           table'[Shell].session = table[Shell].session,
           UNCHANGED <<anchored, ended>>, ViewInv', ~looking',
           at \in {"term", "prove"} => Surveyed /\ ~ender.problem,
           at = "term" => ender.round < Rounds,
           at \notin {"turn", "close", "kill"}
    PROVE  QuietInv'
<1>1. ender \in EnderRecord /\ TableInv
    BY DEF QuietInv, TableInv
<1>2. /\ ender' \in EnderRecord /\ ender'.pc = at /\ ender'.members = ender.members
      /\ ender'.problem = ender.problem /\ ender'.round = ender.round
    BY <1>1, PcIs, Zenon
<1>3. TableInv'
    BY <1>1, <1>2, RowsLeft
<1>4. ended' \subseteq anchored /\ anchored' = anchored
    BY DEF QuietInv, AnchorInv, SignalsItsOwn
<1>5. /\ ender'.pc \in {"term", "kill", "prove"} => Surveyed /\ ~ender'.problem
      /\ ender'.pc # "turn" /\ (ender'.pc = "close" => ender'.problem)
      /\ ender'.pc \in {"close", "term", "kill"} => ender'.round < Rounds
    BY <1>2, Zenon
<1>. QED BY <1>2, <1>3, <1>4, <1>5, MovesOn, Zenon

\* What a whole look shows: the shell leads its session, and whoever is marked was seen so.
LEMMA SeenRightly ==
    ASSUME QuietInv, looking, unread = {}
    PROVE  /\ view[Shell].alive => view[Shell].session = Shell
           /\ Marked \cap listed \subseteq MarkedIn(view)
           /\ LiveProcs \cap listed \subseteq LiveIn(view)
<1>1. ASSUME NEW p \in LiveProcs \cap listed
      PROVE  p \in LiveIn(view) /\ (table[p].mark => view[p].mark)
    BY Zenon DEF QuietInv, ViewInv, SeenAs, LiveProcs, LiveIn
<1>2. Marked \cap listed \subseteq MarkedIn(view)
    BY <1>1, Zenon DEF Marked, MarkedIn, LiveProcs
<1>. QED BY <1>1, <1>2, Zenon DEF QuietInv, ViewInv

LEMMA ScanKeeps == ASSUME QuietInv, Scan PROVE QuietInv'
<1>1. /\ Looked("turn") /\ table' = table /\ anchored' = anchored /\ ended' = ended
      /\ ender \in EnderRecord /\ TableInv /\ listed' = listed
    BY DEF Scan, Looked, QuietInv, TableInv
<1>2. Dwindles /\ Marked' = Marked
    BY <1>1, Zenon DEF Dwindles, Marked, MarkedIn, LiveIn
<1>3. /\ ender.pc = "turn" /\ looking /\ unread = {} /\ ~looking' /\ Surveyed /\ ViewInv'
    BY <1>1, <1>2, LookedIs
<1>4. ended' = {} /\ ender.members = {} /\ ender.round < Rounds
    BY <1>1, <1>3 DEF QuietInv, EndInv, Stage
<1>. PICK T : T = TreeIn(view)
    OBVIOUS
<1>5. T \in SUBSET Procs /\ T \subseteq anchored /\ SessionIn(view) \subseteq T
    BY <1>3, ViewAnchored
\* Whichever way it scanned: what is left to show of the controller's place.
<1>6. ASSUME ender' \in EnderRecord, ender'.pc = "close", ender'.members \subseteq anchored,
             ender'.round = ender.round,
             ~ender'.problem /\ ender'.members = {} => Marked \cap listed = {}
      PROVE  QuietInv'
  <2>1. TableInv'
      BY <1>1, <1>6, StaySame
  <2>2. AnchorInv'
      BY <1>1, <1>2, <1>3, <1>4, <1>6, AnchorKept
  <2>3. EndInv'
      BY <1>1, <1>2, <1>3, <1>4, <1>6, Zenon DEF EndInv, Stage
  <2>. QED BY <1>3, <2>1, <2>2, <2>3 DEF QuietInv
<1>7. CASE /\ Shell \in MarkedIn(view)
           /\ ender' = [ender EXCEPT !.pc = "close", !.members = T,
                                     !.escaped = MarkedIn(view) \ T]
  <2>. DEFINE e1 == [ender EXCEPT !.pc = "close"]
              e2 == [e1 EXCEPT !.members = T]
              e3 == [e2 EXCEPT !.escaped = MarkedIn(view) \ T]
  <2>1. ender' = e3
      BY <1>7, Zenon
  <2>2. "close" \in EnderPcs /\ MarkedIn(view) \ T \in SUBSET Procs
      BY DEF EnderPcs, MarkedIn, LiveIn
  <2>3. e1 \in EnderRecord /\ e1.pc = "close" /\ e1.round = ender.round
      BY <1>1, <2>2, PcIs, Zenon
  <2>. HIDE DEF e1
  <2>4. e2 \in EnderRecord
      BY <1>5, <2>3, EnderFields, Zenon
  <2>5. e2.pc = "close" /\ e2.members = T /\ e2.round = ender.round
      BY <2>3, SMT DEF EnderRecord
  <2>. HIDE DEF e2
  <2>6. e3 \in EnderRecord
      BY <2>2, <2>4, EnderFields, Zenon
  <2>7. e3.pc = "close" /\ e3.members = T /\ e3.round = ender.round
      BY <2>4, <2>5, SMT DEF EnderRecord
  <2>. HIDE DEF e3
  <2>8. T # {}
    <3>1. Shell \in Procs /\ view[Shell].alive
        BY <1>7, ProcsNumbered, Zenon DEF MarkedIn, LiveIn
    <3>2. view[Shell].session = Shell
        BY <1>3, <3>1, SeenRightly
    <3>3. Shell \in SessionIn(view)
        BY <3>1, <3>2 DEF SessionIn, LiveIn
    <3>. QED BY <1>5, <3>3
  <2>. QED BY <1>5, <1>6, <2>1, <2>6, <2>7, <2>8, Zenon
<1>8. ASSUME NEW b \in BOOLEAN, b \/ MarkedIn(view) = {},
             ender' = [ender EXCEPT !.pc = "close", !.problem = b]
      PROVE  QuietInv'
  <2>. DEFINE e1 == [ender EXCEPT !.pc = "close"]
              e2 == [e1 EXCEPT !.problem = b]
  <2>1. ender' = e2
      BY <1>8, Zenon
  <2>2. "close" \in EnderPcs
      BY DEF EnderPcs
  <2>3. /\ e1 \in EnderRecord /\ e1.pc = "close" /\ e1.members = ender.members
        /\ e1.round = ender.round
      BY <1>1, <2>2, PcIs, Zenon
  <2>. HIDE DEF e1
  <2>4. e2 \in EnderRecord
      BY <2>3, EnderFields, Zenon
  <2>5. /\ e2.pc = "close" /\ e2.members = ender.members /\ (e2.problem = b)
        /\ e2.round = ender.round
      BY <2>3, SMT DEF EnderRecord
  <2>. HIDE DEF e2
  <2>6. MarkedIn(view) = {} => Marked \cap listed = {}
      BY <1>3, SeenRightly
  <2>. QED BY <1>4, <1>6, <1>8, <2>1, <2>4, <2>5, <2>6, Zenon
<1>9. CASE ender' = [ender EXCEPT !.pc = "close", !.problem = TRUE]
    BY <1>8, <1>9
<1>10. CASE ender' = [ender EXCEPT !.pc = "close", !.problem = MarkedIn(view) # {}]
  <2>1. (MarkedIn(view) # {}) \in BOOLEAN /\ ((MarkedIn(view) # {}) \/ MarkedIn(view) = {})
      OBVIOUS
  <2>. QED BY <1>8, <1>10, <2>1, Zenon
<1>. QED BY <1>7, <1>9, <1>10, Zenon DEF Scan

LEMMA ClosePaneKeeps ==
    ASSUME QuietInv, ClosePane
    PROVE  QuietInv' /\ Marked' \subseteq Marked /\ LiveProcs' \subseteq LiveProcs
<1>1. /\ Stage("close") /\ UNCHANGED <<lookVars, anchored, ended>> /\ ender \in EnderRecord
      /\ TableInv /\ ~looking'
    BY DEF ClosePane, QuietInv, TableInv, EndInv, Stage, LooksAt, lookVars
<1>2. PICK at \in {"refused", "closed", "term"} :
         /\ ender' = [ender EXCEPT !.pc = at] /\ (at = "term" => ~ender.problem)
         /\ table' = table \/ table' = WithoutProcs({Shell})
    BY Zenon DEF ClosePane
<1>3. /\ table' \in [Procs -> ProcRecord] /\ Dwindles
      /\ table'[Shell].session = table[Shell].session
  <2>1. CASE table' = table
      BY <1>1, <2>1, Zenon DEF TableInv, Dwindles
  <2>2. CASE table' = WithoutProcs({Shell})
      BY <1>1, <2>2, WithoutAre, ProcsNumbered, Zenon
  <2>. QED BY <1>2, <2>1, <2>2
<1>4. ender'.members = ender.members
    BY <1>1, <1>2, PcIs, SMT DEF EnderPcs
<1>5. ViewInv'
    BY <1>1, <1>3, <1>4, ViewKept, Zenon DEF QuietInv
<1>6. at \in EnderPcs /\ (at = "term" => Surveyed /\ ~ender.problem /\ ender.round < Rounds)
    BY <1>1, <1>2 DEF EnderPcs, Surveyed, Stage, QuietInv, EndInv
<1>. QED BY <1>1, <1>2, <1>3, <1>5, <1>6, PcKeeps, FewerOfAll, SMT

LEMMA TerminateKeeps == ASSUME QuietInv, Terminate PROVE QuietInv'
<1>1. /\ Looked("term") /\ table' = table /\ anchored' = anchored
      /\ ender \in EnderRecord /\ TableInv /\ table \in [Procs -> ProcRecord]
    BY DEF Terminate, QuietInv, TableInv
<1>2. Dwindles
    BY <1>1, Zenon DEF Dwindles
<1>3. /\ looking /\ unread = {} /\ ~looking' /\ Surveyed /\ ViewInv' /\ ~ender.problem
      /\ ender.round < Rounds
    BY <1>1, <1>2, LookedIs
<1>4. MembersIn(view) \subseteq anchored /\ ended \subseteq anchored
    BY <1>3, ViewAnchored DEF QuietInv, AnchorInv, SignalsItsOwn
<1>5. CASE ender' = [ender EXCEPT !.pc = "prove"] /\ ended' = ended
    BY <1>1, <1>2, <1>3, <1>5, PcKeeps, SMT DEF EnderPcs
<1>. PICK F : F = Fresh \cap LiveProcs
    OBVIOUS
<1>6. CASE ended' = ended \cup F /\ ender' = [ender EXCEPT !.pc = "kill", !.told = F]
  <2>. DEFINE e1 == [ender EXCEPT !.pc = "kill"]
              e2 == [e1 EXCEPT !.told = F]
  <2>1. ender' = e2
      BY <1>6, Zenon
  <2>2. F \in SUBSET Procs /\ ended' \subseteq anchored /\ "kill" \in EnderPcs
      BY <1>4, <1>6 DEF Fresh, EnderPcs, LiveProcs, LiveIn
  <2>3. /\ e1 \in EnderRecord /\ e1.pc = "kill" /\ e1.members = ender.members
        /\ e1.problem = ender.problem /\ e1.round = ender.round
      BY <1>1, <2>2, PcIs, Zenon
  <2>. HIDE DEF e1
  <2>4. e2 \in EnderRecord
      BY <2>2, <2>3, EnderFields, Zenon
  <2>5. /\ e2.pc = "kill" /\ e2.members = ender.members /\ e2.round = ender.round
        /\ e2.problem = ender.problem
      BY <2>3, SMT DEF EnderRecord
  <2>. HIDE DEF e2
  <2>6. TableInv'
      BY <1>1, <2>1, <2>4, StaySame
  <2>7. /\ ender'.members = ender.members /\ ender'.pc = "kill" /\ ~ender'.problem
        /\ ender'.round < Rounds
      BY <1>3, <2>1, <2>5, Zenon
  <2>. QED BY <1>1, <1>2, <1>3, <2>2, <2>6, <2>7, MovesOn, SMT
<1>. QED BY <1>5, <1>6, Zenon DEF Terminate

LEMMA KillKeeps == ASSUME QuietInv, Kill PROVE QuietInv'
<1>1. /\ Looked("kill") /\ anchored' = anchored /\ ended' = ended
      /\ ender \in EnderRecord /\ TableInv
    BY DEF Kill, QuietInv, TableInv
<1>2. PICK S : table' = WithoutProcs(S)
    BY Zenon DEF Kill
<1>3. /\ table' \in [Procs -> ProcRecord] /\ Dwindles
      /\ table'[Shell].session = table[Shell].session
    BY <1>1, <1>2, WithoutAre, ProcsNumbered, Zenon
<1>4. /\ ~looking' /\ Surveyed /\ ViewInv' /\ ~ender.problem /\ ender.round < Rounds
    BY <1>1, <1>3, LookedIs
<1>. PICK K : K = ender.killed \cup Left
    OBVIOUS
<1>. PICK at : at = IF ender.round + 1 < Rounds THEN "term" ELSE "prove"
    OBVIOUS
<1>. DEFINE e1 == [ender EXCEPT !.pc = at]
            e2 == [e1 EXCEPT !.round = @ + 1]
            e3 == [e2 EXCEPT !.killed = K]
            e4 == [e3 EXCEPT !.told = {}]
<1>5. ender' = e4
  <2>1. ender' = [ender EXCEPT !.pc = at, !.round = ender.round + 1,
                               !.killed = ender.killed \cup Left, !.told = {}]
      BY Zenon DEF Kill
  <2>2. e1.round = ender.round
      BY <1>1, SMT DEF EnderRecord
  <2>. HIDE DEF e1
  <2>3. e2 = [e1 EXCEPT !.round = ender.round + 1]
      BY <2>2, Zenon
  <2>. QED BY <2>1, <2>3, Zenon DEF e1
<1>6. at \in EnderPcs /\ K \in SUBSET Procs /\ {} \in SUBSET Procs
      /\ ender.round + 1 \in 0..Rounds
  <2>1. ender.killed \in SUBSET Procs /\ Left \in SUBSET Procs
      BY Kinds DEF Left, LiveProcs, LiveIn
  <2>2. ender.round \in 0..Rounds
      BY <1>1, SMT DEF EnderRecord
  <2>. QED BY <1>4, <2>1, <2>2, ProcsNumbered, SMT DEF EnderPcs
<1>7. /\ e1 \in EnderRecord /\ e1.pc = at /\ e1.members = ender.members
      /\ e1.problem = ender.problem /\ e1.round = ender.round
    BY <1>1, <1>6, PcIs, Zenon
<1>. HIDE DEF e1
<1>8. /\ e2 \in EnderRecord /\ e2.pc = at /\ e2.members = ender.members
      /\ e2.problem = ender.problem /\ e2.round = ender.round + 1
    BY <1>6, <1>7, SMT DEF EnderRecord
<1>. HIDE DEF e2
<1>9. e3 \in EnderRecord
    BY <1>6, <1>8, EnderFields, Zenon
<1>10. /\ e3.pc = at /\ e3.members = ender.members
       /\ e3.problem = ender.problem /\ e3.round = ender.round + 1
    BY <1>8, SMT DEF EnderRecord
<1>. HIDE DEF e3
<1>11. e4 \in EnderRecord
    BY <1>6, <1>9, EnderFields, Zenon
<1>12. /\ e4.pc = at /\ e4.members = ender.members
       /\ e4.problem = ender.problem /\ e4.round = ender.round + 1
    BY <1>9, <1>10, SMT DEF EnderRecord
<1>. HIDE DEF e4
<1>13. TableInv'
    BY <1>1, <1>3, <1>5, <1>11, RowsLeft, Zenon
<1>14. ended' \subseteq anchored
    BY <1>1 DEF QuietInv, AnchorInv, SignalsItsOwn
<1>15. /\ ender'.pc \in {"term", "prove"} /\ ~ender'.problem
       /\ (ender'.pc = "term" => ender'.round < Rounds) /\ ender'.members = ender.members
    BY <1>4, <1>5, <1>12, SMT
<1>. QED BY <1>1, <1>3, <1>4, <1>13, <1>14, <1>15, MovesOn, SMT

LEMMA ProveKeeps == ASSUME QuietInv, Prove PROVE QuietInv'
<1>1. /\ Looked("prove") /\ table' = table /\ UNCHANGED <<anchored, ended>>
      /\ \E at \in {"closed", "refused"} : ender' = [ender EXCEPT !.pc = at]
      /\ table \in [Procs -> ProcRecord]
    BY Zenon DEF Prove, QuietInv, TableInv
<1>2. Dwindles
    BY <1>1, Zenon DEF Dwindles
<1>3. ~looking' /\ ViewInv'
    BY <1>1, <1>2, LookedIs
<1>. QED BY <1>1, <1>2, <1>3, PcKeeps, SMT DEF EnderPcs

-----------------------------------------------------------------------------
(* The end of a turn: every state                                          *)

LEMMA TurnBegins == ASSUME QuietInit PROVE QuietInv
<1>1. /\ ender \in EnderRecord /\ ender.pc = "turn" /\ ender.members = {} /\ ended = {}
      /\ ~ender.problem /\ ender.round = 0
    BY ProcsNumbered, SMT DEF QuietInit, EnderRecord, EnderPcs
<1>2. /\ Nothing \in [Procs -> ProcRecord]
      /\ \A p \in Procs : ~Nothing[p].alive /\ Nothing[p].parent \notin Procs
  <2>1. Unborn.parent = Orphaned
      BY DEF Unborn
  <2>. QED BY <2>1, NothingIs, ProcsNumbered, Zenon DEF Nothing
<1>. DEFINE r == [alive |-> TRUE, born |-> TRUE, parent |-> Server, session |-> Shell,
                  mark |-> TRUE]
<1>3. /\ r \in ProcRecord /\ r.parent \notin Procs /\ r.session = Shell /\ r.born
    BY ProcsNumbered, SMT DEF ProcRecord
<1>. HIDE DEF r
<1>4. table = [Nothing EXCEPT ![Shell] = r]
    BY Zenon DEF QuietInit, r
<1>5. /\ table \in [Procs -> ProcRecord] /\ table[Shell] = r
      /\ \A p \in Procs \ {Shell} : table[p] = Nothing[p]
    BY <1>2, <1>3, <1>4, ProcsNumbered, Zenon
<1>6. TableInv
  <2>1. ASSUME NEW p \in Procs
        PROVE  table[p].parent \notin Procs /\ (table[p].alive => table[p].born)
    <3>1. CASE p = Shell
        BY <1>3, <1>5, <3>1, Zenon
    <3>2. CASE p # Shell
        BY <1>2, <1>5, <3>2, Zenon
    <3>. QED BY <3>1, <3>2
  <2>. QED BY <1>1, <1>3, <1>5, <2>1, Zenon DEF TableInv
<1>7. ViewInv
  <2>1. /\ ~looking /\ listed = {} /\ unread = {} /\ view = Nothing
      BY DEF QuietInit
  <2>2. ASSUME NEW p \in Procs PROVE SeenAs(p)
      BY <1>2, <2>1, Zenon DEF SeenAs
  <2>. QED BY <1>2, <2>1, <2>2, ProcsNumbered, Zenon DEF ViewInv
<1>8. AnchorInv
  <2>1. anchored = {} /\ ended = {} /\ ~looking
      BY DEF QuietInit
  <2>2. ~Surveyed
      BY <1>1, <2>1 DEF Surveyed
  <2>. QED BY <2>1, <2>2, Zenon DEF AnchorInv, SignalsItsOwn
<1>9. EndInv
  <2>1. ~looking
      BY DEF QuietInit
  <2>. QED BY <1>1, <2>1, ProcsNumbered, SMT DEF EndInv, Stage
<1>. QED BY <1>6, <1>7, <1>8, <1>9 DEF QuietInv

LEMMA TurnStays == ASSUME QuietInv, UNCHANGED quietVars PROVE QuietInv'
<1>1. /\ table' = table /\ table \in [Procs -> ProcRecord]
      /\ UNCHANGED <<ender, lookVars, ended, anchored>>
    BY DEF quietVars, QuietInv, TableInv
<1>. QED BY <1>1, TakesAway, Zenon DEF Dwindles

LEMMA TurnGoesOn == ASSUME QuietInv, QuietNext \/ UNCHANGED quietVars PROVE QuietInv'
<1>1. CASE UNCHANGED quietVars
    BY <1>1, TurnStays
<1>2. CASE \E p \in Procs : ReadProc(p) \/ Detach(p) \/ Scrub(p) \/ Exit(p)
                            \/ \E q \in Procs : Fork(p, q)
    BY <1>2, ReadKeeps, DetachKeeps, ScrubKeeps, ExitKeeps, ForkKeeps, Zenon
<1>3. CASE BeginLook \/ LookFails
    BY <1>3, LookKeeps, LookFailsKeeps, Zenon
<1>4. CASE Scan \/ ClosePane \/ Terminate \/ Kill \/ Prove
    BY <1>4, ScanKeeps, ClosePaneKeeps, TerminateKeeps, KillKeeps, ProveKeeps, Zenon
<1>. QED BY <1>1, <1>2, <1>3, <1>4, Zenon DEF QuietNext

\* Signals: of whom the controller ends, every process was in the tree of the pane's shell
\* when its scan began, or was started by one of them since; also when the look it was chosen
\* by mixes moments (procs.py, end, snapshot).
THEOREM QuietIsSound == QuietSpec => []QuietInv
<1>1. QuietInit => QuietInv
    BY TurnBegins
<1>2. QuietInv /\ [QuietNext]_quietVars => QuietInv'
    BY TurnGoesOn
<1>. QED BY <1>1, <1>2, PTL DEF QuietSpec

\* No process outside the pane's own tree is signalled, whatever its mark (procs.py, end).
THEOREM SignalsAlwaysItsOwn == QuietSpec => []SignalsItsOwn
<1>1. QuietInv => SignalsItsOwn
    BY DEF QuietInv, AnchorInv
<1>. QED BY <1>1, QuietIsSound, PTL

\* Nobody calls a turn closed but the two looks that saw nothing left.
LEMMA ClosedByALook ==
    ASSUME QuietInv, QuietNext, ~Stage("closed"), ender'.pc = "closed"
    PROVE  ClosePane \/ Prove
<1>1. ender \in EnderRecord
    BY DEF QuietInv, TableInv
<1>2. ASSUME Scan PROVE FALSE
  <2>1. ASSUME NEW x, NEW y,
               ender' = [ender EXCEPT !.pc = "close", !.members = x, !.escaped = y]
        PROVE  FALSE
    <3>1. ender'.pc = "close"
        BY <1>1, <2>1, SMT DEF EnderRecord
    <3>. QED BY <3>1
  <2>2. ASSUME NEW z, ender' = [ender EXCEPT !.pc = "close", !.problem = z] PROVE FALSE
    <3>1. ender'.pc = "close"
        BY <1>1, <2>2, SMT DEF EnderRecord
    <3>. QED BY <3>1
  <2>. QED BY <1>2, <2>1, <2>2, Zenon DEF Scan
<1>3. ASSUME Terminate PROVE FALSE
  <2>1. ASSUME NEW x, ender' = [ender EXCEPT !.pc = "kill", !.told = x] PROVE FALSE
    <3>1. ender'.pc = "kill"
        BY <1>1, <2>1, SMT DEF EnderRecord
    <3>. QED BY <3>1
  <2>2. ender' # [ender EXCEPT !.pc = "prove"]
      BY <1>1, SMT DEF EnderRecord
  <2>. QED BY <1>3, <2>1, <2>2, Zenon DEF Terminate
<1>4. ASSUME Kill PROVE FALSE
    BY <1>1, <1>4, SMT DEF Kill, EnderRecord
<1>5. ASSUME NEW p \in Procs,
             ReadProc(p) \/ Detach(p) \/ Scrub(p) \/ Exit(p) \/ \E q \in Procs : Fork(p, q)
      PROVE  FALSE
    BY <1>5, Zenon DEF ReadProc, Detach, Scrub, Exit, Fork, Untouched, Stage
<1>6. ASSUME BeginLook PROVE FALSE
    BY <1>6 DEF BeginLook, Stage
<1>7. ASSUME LookFails PROVE FALSE
  <2>1. ASSUME ender' = [ender EXCEPT !.pc = "close", !.problem = TRUE] PROVE FALSE
      BY <1>1, <2>1, SMT DEF EnderRecord
  <2>2. ASSUME ender' = [ender EXCEPT !.pc = "refused"] PROVE FALSE
      BY <1>1, <2>2, SMT DEF EnderRecord
  <2>. QED BY <1>7, <2>1, <2>2, Zenon DEF LookFails
<1>. QED BY <1>2, <1>3, <1>4, <1>5, <1>6, <1>7, Zenon DEF QuietNext

LEMMA ClosedIsEmpty ==
    ASSUME QuietInv, QuietNext, ~Stage("closed"), ender'.pc = "closed"
    PROVE  ender.members \cap LiveProcs' = {} /\ Marked' \cap listed = {}
<1>1. ender \in EnderRecord
    BY DEF QuietInv, TableInv
<1>2. CASE ClosePane
  <2>1. Stage("close") /\ ~ender.problem /\ ender.members = {}
      BY <1>1, <1>2, SMT DEF ClosePane, EnderRecord
  <2>2. Marked \cap listed = {}
      BY <2>1 DEF QuietInv, EndInv
  <2>3. Marked' \subseteq Marked
      BY <1>2, ClosePaneKeeps
  <2>. QED BY <2>1, <2>2, <2>3
<1>3. CASE Prove
  <2>1. /\ table' = table /\ MembersIn(view) = {} /\ MarkedIn(view) = {}
        /\ looking /\ unread = {}
      BY <1>1, <1>3, SMT DEF Prove, Looked, EnderRecord
  <2>2. ender.members \cap LiveIn(view) = {}
      BY <2>1, ViewAnchored
  <2>3. Marked' = Marked /\ LiveProcs' = LiveProcs
      BY <2>1, Zenon DEF Marked, MarkedIn, LiveProcs, LiveIn
  <2>4. ender.members \cap LiveProcs \subseteq listed
      BY <2>1 DEF QuietInv, ViewInv
  <2>. QED BY <2>1, <2>2, <2>3, <2>4, SeenRightly
<1>. QED BY <1>2, <1>3, ClosedByALook

\* When a turn is called closed, whoever the scan found in the pane is gone, and whoever is
\* marked was forked while the last look was being read (procs.py, end, snapshot).
THEOREM FrozenIsAlwaysQuiet == QuietSpec => FrozenIsQuiet
<1>. DEFINE Quieted == ~Stage("closed") /\ ender'.pc = "closed" =>
                    ender.members \cap LiveProcs' = {} /\ Marked' \cap listed = {}
<1>1. QuietInv /\ [QuietNext]_quietVars => [Quieted]_quietVars
    BY ClosedIsEmpty
<1>. QED BY <1>1, QuietIsSound, PTL DEF QuietSpec, FrozenIsQuiet
=============================================================================
