# VeriHarness in TLA+

VeriHarness (`src/hoh`, the program `hoh`) drives coding agents through a loop
of planning, development and independent verification, and accepts a candidate
only on evidence. This directory models the part of it that decides: which
tree may be called accepted, what may be delivered, who may write, what may be
spent, moved or ended, and what is left after a crash, an exception or a
command at an awkward moment. TLC checks the models on small instances; TLAPS
proves most of their safety properties for every value of the constants.

Paths below are relative to the repository root; `PROJECT.json` gives, for
every definition, the lines it models.

## 1. Inventory

| Component | State it keeps | Operations | Hard parts |
|---|---|---|---|
| Stage machine (`stages.py`, `contracts.py`) | `RunState`: stage, condition, blocked kind, iteration, attempt, usage, base, frozen and accepted candidate | begin_iteration, transition, freeze, accept, reject, pause, resume, block, unblock, cancel, fail | long sequences of legal calls; holds that must survive every other verb |
| Iteration controller (`controller.py`) | the `RunState` object in memory, plan, candidate, QA result | `run_iteration`: gates, stop boundaries, plan, develop, freeze, verify, decide, record, commit, accept | about fifteen durable writes per iteration, a crash between any two |
| Run store (`store.py`) | `state.json`, `results/`, `receipts/`, `evidence.json`, `checks.json`, `stop-request.json`, parked states, run lock, process lock | write_state (fenced by `write_seq`), immutable writes, stop requests, backup, restore, prune | stale writers, requests filed without the lock, restore under a live driver |
| Commands (`cli.py`) | none of their own | run, pause, resume, cancel, unblock, deliver, resume-quota, resume-storage | they interleave with a driver and with each other |
| Delivery (`delivery.py`), candidate binding (`workspace.py`) | git branches and the worktree | snapshot, commit_candidate, deliver | the worktree and the branch move under the verdict |
| Workspace lease (`wslease.py`) | `lease.json` in the worktree's git directory, one handle per iteration, a keepalive thread | acquire, renew, check, release | expiry, dead and orphaned holders, pid namespaces, boots, threads that outlive their iteration |
| Autonomy contract (`governance.py`, `autonomy.py`) | contract, decision records | block_under_contract | turns a block into a stop or a park |
| Waits (`failures.py`, `quota.py`, `timers.py`, `resumeloop.py`, `storage_park.py`, `dispatchrecovery.py`) | timers, parks, receipts of failed dispatches | failure wait, park, resume loop | a timer racing an operator; refunds |
| Run lease, leader lease, epoch, succession, rollover (`runlease.py`, `rundrive.py`, `succession.py`, `epoch.py`, `rollover.py`, `wake.py`) | leases, epoch records, handovers | acquire, renew, hand over, begin epoch, roll over | split brain, superseded writers |
| Orchestrator, waves, scheduling (`orchestrator.py`, `wave.py`, `waverecovery.py`, `launcher.py`, `scheduler.py`, `reservation.py`, `capacity*.py`, `broker.py`) | project state, wave records, reservations | admit, launch, settle, recover | holds left by a dead controller, a budget shared by parallel runs |
| Storage (`storage_*.py`, `archive_*.py`, `verified_relocation.py`, `rehydration.py`) | ownership registry, reservation ledger, bundles, receipts | claim, reserve, release, archive, relocate, rehydrate | the one operation that removes a local copy; crash between copy and removal |
| Dispatch and roles (`dispatchers.py`, `roles.py`, `capability.py`, `herdr.py`, ...) | intents, seals, witnesses, panes | dispatch, repair, witness, reconcile | charged twice or never, role still running after a crash |
| Check runner and evidence (`runner.py`, `sandbox.py`, `evidence.py`, ...) | receipts | run a check on a tree | I/O; what a receipt may truthfully say |
| Decisions, merge gate, rotation, views, tools | records and reports | see `PROJECT.json` | mostly sequential |

How they interact: `hoh run` takes the process marker, reads the state, and for
each iteration takes the run lock, the worktree's lease and then drives the
roles; every decision goes through the stage machine and is written through the
store. Commands of other processes take the same run lock, or, when it is held,
file a stop request the driver reads at three boundaries. A block is turned into
what the run's contract says. Waits are lifted by the resume loop or by a person.
Delivery is a command of its own, under the run lock. A project is driven by one
session at a time, which holds the leader lease and an epoch, launches runs
singly or in waves on a shared dispatch budget, merges what they accept and hands
its role to a successor by a rollover. Every dispatch passes the machine's storage
admission, charges its run, works in a Herdr pane and ends with the candidate
sealed (QA) or the pane's processes ended (developer). Stewards move what is no
longer needed to an archive. Blocks are worked on once more by the double-down.

What makes each part correct:

* stage machine: a held run is never active and only an unblock releases it;
* controller: what is accepted was frozen, judged, and fully and discriminatingly
  green; nothing accepted earlier is given up; nothing is judged uncharged;
* store and commands: a stale driver never undoes a command; no role is
  dispatched for a halted run; every process ends and gives its lock back;
* delivery: what is pushed is the tree that was compared, and that one is proven;
* workspace lease: a single writer, as long as renewals are on time; no valid hold
  is taken away; a commit outside the lease is noticed;
* leadership: no superseded session saves; a successor takes the role on the ground its
  predecessor froze, with nothing saved since the handover; a wake finds its own capsule; every rotation ends;
* project loop: the file says what happened, only accepted work reaches the
  mainline, nobody waits for a timer that is not there, nothing settled is reopened;
* waves: a run that is live has its budget held, and what a dead controller left
  open is ended;
* storage: admitted space is there, one session drives, nothing foreign is removed,
  no content is lost by a move;
* run lease: it stands until it has run out, and nothing of it is deleted;
* dispatch: an answer is the answer to the prompt that was asked, no prompt goes
  uncharged or meets another, no foreign pane is closed;
* seals and quiescence: a candidate that was touched is never passed off as judged,
  and it is frozen only when nobody is left to touch it;
* double-down: no verdict over a run that changed, no negative given up early, no
  correction the chain of amendments does not account for.

The hazards, each at its line and with the properties aimed at it, are in
`PROJECT.json`.

## 2. Modules

| Module | Models | Notes |
|---|---|---|
| `Stages` | every verb of `stages.py`, `block_under_contract`, `budget_exhausted`, `_failure_wait`, the parks | operators on a `RunState` record; `CanX` is the condition under which the verb does not raise |
| `RunLoop` | `cmd_run`, `run_iteration`, the operator's and the timers' commands, `deliver` | extends `Stages` |
| `SingleWriter` | what the lease of a worktree promises | abstract specification |
| `WorkspaceLease` | `wslease.py`, the keepalive, the guarded commit | refines `SingleWriter` |
| `RunLease` | `runlease.py`, `rundrive.py`, `leaseadmin.py` | |
| `Leadership` | `epoch.py`, `succession.py`, the fenced write of `projectstore.py`, `rollover.py`, `succession_capsule.py`, `wake.py` | |
| `ProjectLoop` | `orchestrator.py`, `projectstore.py`, `project.py`, `launcher.py`, `timers.py`, `resumeloop.py` | |
| `Waves` | `reservation.py`, `launcher.py`, `wave.py`, `waverecovery.py`, the wave round of `orchestrator.py` | |
| `Admission` | `storage_pressure.py` | |
| `Sessions` | `storage_registry.py`, `storage_coordinator.py`, `storage_ephemeral.py` | |
| `Relocation` | `storage_steward.py`, `verified_relocation.py`, `archive_target.py` | |
| `Dispatch` | `controller._dispatch_*`, `dispatchers.py`, the registry of `agentcontrol.py` | |
| `Seals` | `controller._verify` to `release_open_seals`, the end of `hoh run`, the gate of a delivery | |
| `Quiescence` | `dispatchers._close_and_end_processes`, `procs.py` | |
| `DoubleDown` | `doubledown.py`, `ddverify.py`, `ddapply.py` | |
| `MCRunLoop`, `MCBlocks`, `MCWorkspaceLease`, `MCLeadership`, `MCProject`, `MCWaves`, `MCStorage`, `MCMachine` | instances for TLC | `MCBlocks` puts `RunLoop` and `DoubleDown` side by side, `MCMachine` `Admission`, `Sessions`, `RunLease`, `Dispatch`, `Seals` and `Quiescence`: a behaviour is about one of them, its `focus` |
| `Loops_proofs`, `Worktree_proofs`, `Leadership_proofs`, `Waves_proofs`, `Dispatch_proofs`, `Machine_proofs`, `DoubleDown_proofs` | theorems | `Loops_proofs` is about `RunLoop` and `ProjectLoop`, `Worktree_proofs` about `WorkspaceLease`, `Seals` and `Quiescence`, `Dispatch_proofs` about `Dispatch` and `Admission`, `Machine_proofs` about `RunLease`, `Sessions` and `Relocation` |
| `Sums`, `Sums_proofs` | sums over finite sets, as `Waves`, `DoubleDown` and `Admission` take them, and the lemmas about them | |

In every module an action is what the code does between two durable effects (or two
looks at something another process may change), with its early returns. What a
process has in memory is lost when it dies.

### Stages and RunLoop

A git tree is the set of acceptance criteria it satisfies; that is all a receipt
can say about it. A plan is the set of criteria it asks. QA's `RoleResult` is the
criteria asked, those that pass on a receipt, those that demonstrate the
increment (fresh, and red on the predecessor), and whether QA answered at all;
`Verdicts` is every result that true receipts allow. The content digest of
`evidence.json` is a version number, so equal digests are equal contents.

`pc` is the driver's control point: `gates`, `stop_start`, `hold`, `begin`, `base`,
`plan`, `planned`, `enter`, `stop_plan`, `develop`, `freeze`, `stop_freeze`, `verify`,
`qa`, `judged`, `evidence`, `point`, `decide`, `preserve`, `commit`, `accept`, and
`clear`/`halt` inside a stop boundary. Outside an iteration it is `off` (no process),
`ready`, `between`, `abort` (an exception left the iteration) or `closing`. `disk` is
`state.json`, `mem` the driver's object. The fence of `write_state` compares sequence
numbers; the model keeps the outcome of that comparison, `behind`, which is set by
every write of another process and cleared by a fresh read.

A delivery is the git calls of `deliver()`, one step each: the tree of the branch, the
status of the worktree with the target's ancestry and checkout, the push by the branch's
name, and then the transition. `StrayWrite` comes between any two of them; `delivery.moved`
remembers a commit since the comparison, `delivery.sent` what the target branch last got.

`Crash`, `StepRaises` (any step may raise before its effect), `StrayWrite` (some
process changes the worktree or the branch) and every command may come at any
point, `MaxEvents` times in all. A role's failure, a capability violation, a
refused storage admission, a refused commit, a withheld acceptance, spec drift
and the end-of-run integrity breach are answers the environment may give at any
time, unbounded. What a block becomes is drawn from `Contract`.

Left out of the `RunState`: history notes, reasons, timestamps, isolation,
failover notes, amendment counters (a recorded amendment is the write it causes),
and the budgets other than iterations and loops without progress. `blocked_kind`
keeps the values the code tells apart; the provider waits that the same consumer
lifts are one value, `automatic`.

### WorkspaceLease

Processes drive runs; two processes may drive the same run id (the same id under
two roots), and are then one holder name but two handles. `acquire`, `renew` and
`release` hold a short flock from reading to replacing `lease.json`, so each is
one step; `check` reads without it and is a step of its own, apart from the
commit it admits. A token is a fresh number. `holder_state` is `Vacant`/`Lost`,
judged from the asking process's machine, boot and pid namespace. The worktree is
the set of runs whose uncommitted changes it carries, which is what
`_admit_worktree` asks about and what `git add -A` sweeps up. `commit_candidate`
is four steps: check, compare, add and commit, second look.

Time is a counter. A lease that is kept alive by its thread does not run out
unless a renewal is `late`: the thread renews every third of the TTL. The kinds
of fault that may happen are a constant, so that a run can say which assumption
it needs.

### RunLease

`current` is the record in the run's directory, `parked` the copies a take-over left,
`archive` the records `leaseadmin` moved. Drivers run in places (a host and a pid
namespace) that share the directory; the process lock of the run is honoured within a
host, the short lock by all. A life is a process with its start time and boot.
`acquire` is judge, park, write; the renewals of the keepalive may fail up to
`MaxRenewFailures` times before the driver gives the lease up. The archive judges a
record, and looks again under the lock. `setBack` remembers that a clock went
backwards; the properties that compare times say nothing after that.

### Leadership

`chain` is the epoch chain, `lease` the leader lease, `handle` what each session
believes, `project` the fenced state with the version of the facts a capsule can bind
(HEAD, branch, files, refs, run sets; `GroundMoves` changes them at any moment), `given`
both as they were when the lease was handed to a successor, `log` the handover log. A
capsule binds facts and not saves, and the freeze does not stop the predecessor, which may
save or move facts until it hands over; a moved fact fails the successor's two looks. `acquire`, `handoff`,
`release` and a fenced save hold the programme's write lock and are one step each.
Every acquire draws a token with its epoch, so the epoch stands for the token.
Deadlines (of a capsule, of the handover window, of a lease) are flags time lowers at
any moment. `rot[s]` is where a session's rollover stands, `acc[s]` where a
successor's acceptance stands; a crash, a lapse or an abort can come between any two of
their steps. `MayWake` is `read_succession` with `anchor_through_recovery`.

### ProjectLoop

`project` is the state on file (a node's lifecycle, rejections, wait and due time, the
log of what is in flight, the subject the closing gates were green on), `timers` the
timers on file, `mainline` what was merged and `accepted` what runs accepted, per node
and candidate. Every session has a memory, a place in the drive and, if it is master,
the number of its reign; a session that was replaced goes on until a fenced write
refuses it. A node is launched, its verdict settled, merged, rejected, parked or
abandoned; a storage or provider wait is persisted, armed, disarmed and rechecked as in
the code, step by step. `overtaken` remembers that a session was replaced while it
withdrew timers, which is an open hazard of the code.

### Waves

`hold` is a node's reservation on the shared budget, `job` its run with what it may
still spend, `life` its lifecycle on file, `outcomes` the records a round leaves. A
round prepares and evaluates a wave, takes its holds one by one, launches, collects
verdicts, settles and merges; any session may die or be replaced between two steps, and
the recovery of the next drive ends what it left. `overtaken` as above, for launches
that were out when their session was replaced.

### Admission

One ledger per filesystem; every decision is taken under the flock on it and is one
step. Free space on the guest and on the host is counted in units; the host may be
unobservable for a while. A process of a pid namespace reserves, writes (`wrote`),
closes or dies; a reservation is judged stale by pid, start time, namespace and boot.
Bytes the ledger cannot know of are `unpromised`.

### Sessions

Session leases with their sequence (`open_session` writes in several steps), the driver
lease a session needs to work on the project's storage, and the temporary workspaces. A
creation reserves, registers the root, makes the directory, writes the record and
activates it; it may fail at each of these steps, with the work of the failing call done
or not. A cleanup compares the name with the directory that was registered, empties what its
descriptor (`fd`) is open on, removes the name, ends the record and gives the reservation
back: each is a step, and each may fail; between any two somebody renames the directory
away and puts one of his own there, empty or not. A life is a pid, start time and boot.
`filled` is what holds content, `robbed` remembers where somebody else's content was
removed, `unreturned` the reservations the ledger failed to take back
(`storage_ephemeral.py:626`); `misjudged` remembers that the lease of a live session could not be read
and was therefore taken (`OneDriver` says nothing after that).

### Relocation

An item is a directory whose entries are each as they were recorded elsewhere
(`base`), something else (`new`), or absent; the proofs of eligibility are about that.
A pass recovers what an earlier pass left, plans, and executes item by item: archive,
verify, intent, rename into quarantine, compare, hash and unlink entry by entry, receipt. Two
items may be copies of one another or clone and extract of one source; other processes
may write, remove or rename between any two steps; the target may be away, or unread
because its file has problems. `unseen` remembers what was written between the last hash
of an entry and its unlink, `spoilt` which receipts of open intents others have lost.

### Dispatch, Seals, Quiescence

`Dispatch` is one role that answers through a file, with the controller's retries, schema
repair and follow-up on the one side and the panes on the other. A pane has an agent, an
input box and a text it works on. The world (agent, operator, somebody else's pane) acts
between any two calls, with one limit, `Undisturbed`: nobody touches a pane between the
dispatcher's last look at it and its prompt. An agent that takes up a new prompt is taken
to have ended its earlier work in the background, and a text an operator types himself
asks for no answer. `mem.restless` and `marker.unsure` are the code's own admissions
that a pane was let go of unsettled, or that nobody can tell who answered; the properties
say nothing there. A close (`closing`: of the role's pane after its turn, of a dead or a
restored agent's, of every pane at the run's end) asks its records, takes a look, sends the
command and looks again, each a step of its own with the world between them; the command
goes to the pane's id, and after a restart of Herdr the id of a pane that is gone may stand
for somebody else's (`IdReused`; not in the one call between opening a pane and starting its
agent). A pane stands for its tab too, which the code closes whole when every pane in it is
the run's; the run has a registry (without one the code asks nobody).

`Seals` keeps what the ledger `seals.jsonl` says of each arena (planned, frozen, touched,
releasing, released, kept), the arena's write bits and who touched it. The process
of `hoh run` is a place in `_verify` ... `release_open_seals`; the agent may touch any
arena while it lives; `mishaps` are crashes and failing writes. `lost` and `pardoned`
are touches a crash lost and touches a person unblocked (section 5).

`Quiescence` is the process table: who is alive, whose child, in which session, with the
pane's mark or without. `Below` is the least set of processes that is closed under
children and contains the shell of the pane. A look (before the close, before each signal
and at the end) lists the pids and reads one after the other, in any order, while the
processes fork, detach, shed the mark and exit; what it read is the `view` the controller
decides by. Pids are not used again; a signal asks for pid and start time in the code.

### DoubleDown

A dossier per block, with its tier, rounds, last verdict and outcome; a repair with its
measurement, proof and application; the specification as text, chain of amendments and
state. Two passers work at them, each dossier under its lock; a person renews or
withdraws, the run's state or the environment changes (`upsets`). An amendment replaces the
text, writes the chain, then the state with the lifted block, then the record; a crash or a
write that fails (`WriteFails`: the answer is `refused` or `unrecorded`, and the process goes
on) cuts it off at any of these places, and `cut` remembers for which block and where.

## 3. Runs

Passing:

| Run | Instance | Properties |
|---|---|---|
| `faults` | `RunLoop`: one criterion, 2 iterations, 2 events, every contract | `TypeOK`, `OnlyProven`, `HaltIsKept`, `JudgedIsCharged`, `OnlyCommandsLift`, `AcceptedWasFrozen` |
| `blocks` | `MCBlocks`: two criteria, 3 iterations, no event; or the double-down of two passers | `NoRegression`, `VerdictsAreEarned`, `FixesAreEarned` |
| `live` | `RunLoop`: one criterion, 2 iterations, 1 event, fairness | `RunEnds` |
| `lease` | `WorkspaceLease`: 3 processes, 2 runs, one machine, one process in a container; crash, reboot, busy lock; 2 faults | `WriterSpec` (the refinement) |
| `lease_lapse` | the same; crash, late renewal, busy lock, orphaned role; 2 faults | `CleanWasHeld`, `HoldEndsByHolder` |
| `leadership` | 2 sessions, 2 epochs, 2 rollovers, 1 save or moved fact, 1 fault, fairness | `WakeIsAnchored`, `ReceiptIsInChain`, `SavesAreFenced`, `TakenAsFrozen`, `RotationEnds` |
| `project` | 2 sessions, a task after a task and a repair, 3 reigns, 2 candidates, 2 mishaps, 6 writes | `FileIsTrue`, `MainlineIsEarned`, `TimedWaitHasTimer`, `SettledIsFinal` |
| `waves` | 2 sessions, 2 nodes, a budget of 2, 1 fault, fairness | `BudgetCoversLive`, `OutcomesEnd` |
| `storage` | 2 stewards, 2 items, 2 jobs, 2 events, fairness | `MovesAreSafe`, `OriginalIsThere`, `IntentsAreResolved` |
| `machine` | one of seven foci at a time | admission: `SpaceIsAccounted`; drive, scratch: `OwnershipIsKept`, `LeasesGrow`; lease: `LeaseIsKept`, `ArchivedHasEnded`; dispatch: `AnswersTheAsked`, `SendsAreCharged`, `PromptsAreSettled`, `ClosesItsOwn`; seal: `SealsTell`, `KeptIsSealed`; quiet: `SignalsItsOwn`, `FrozenIsQuiet` |

What each property says is above its definition in the module.

Why the bounds are enough. A budget of N iterations lets N-1 be judged (the last is
charged, begun and refused its first dispatch by its own charge), so 2 gives one judged
iteration with its restarts and 3 gives two, the least in which an earlier acceptance
can meet a later one. Two events are a fault and a reaction to it (pause and resume,
crash and stray write, stray write and delivery). A regression needs two criteria: one
kept, one new. A lease needs three processes: a holder, a successor of another run and a
second handle of the same run; a TTL of 2 and three ticks let it be renewed, lapse and
be taken over. Two sessions and two epochs are a superseded master and its successor, two
rollovers a stale capsule beside a live one. A project needs two dependent tasks, for a
merge that unblocks, and a repair, for a closure that is reopened; three reigns let a
session come back after it was replaced. Two nodes and a budget of two are the least
that can be overspent while one node keeps a reserve for the other. Two stewards and two
copies are the least that could remove both. Two panes and three charged dispatches are
a prompt, its retry and a repair, in the same pane or another; three processes are a
shell, a child and what that forks. Where a component has a proof (section 4), the bounds
matter to the search only.

Refuted, each stating what a comment of the code says:

| Run | Statement | What the code does |
|---|---|---|
| `doc_plan_name` | a repeated iteration does not collide with its own artifacts (`controller.py:740`) | the plan's file precedes the state that names its attempt; a crash in between makes every retry collide |
| `doc_launch_ends_hold` | a node that is ready again is launched, and its launch ends the hold left on it (`launcher.py`) | the hold of the dead controller makes every later wave exceed the budget, so it is never launched |

Every property of a passing run has a mutant in `PROJECT.json`: an operator that
replaces a mapped definition the way a plausible bug would, and under which TLC finds
that property violated.

Fairness. `RunLoop`: the driver as a whole and a delivery that holds the lock; the code
bounds every role by `--role-timeout`, every check by its own timeout and every retry by
a count, so a live driver takes its next step; nothing is assumed of operators, timers
or a dead driver. `Leadership`: each session's next rollover step, and that deadlines
pass; every wait of a rollover has one. `Waves`: each session's step, that a run stops
(it has a budget), and that a project nobody drives is driven again, by the operator or a
timer. `Relocation`: a steward's steps, that the storage timer starts a pass again
(strongly: passes exclude one another) and that somebody puts a target back that is away
or whose file has problems.

Deadlock is checked for `faults`, `live` and `doc_plan_name`: a run can always be started
again. The other runs stop when their bounds are used up and switch the check off.

## 4. Proofs

All theorems assume only the named assumptions on the constants (types, `NoX` is not an
`X`, budgets are positive) and no bound: the numbers of events, faults, epochs, writes
and disturbances are any naturals, the sets of processes, criteria, panes, nodes any
sets. Where a property is about a sum over a set, that set is finite: the controllers of a
machine, the halts and processes of the double-down. Each one was preceded by TLC on its inductive invariant.

### Loops_proofs

The run:

* `Typing`: one lemma per group of actions, and one per verb of `Stages` (a verb takes a
  `RunState` to a `RunState` and leaves the accepted tree alone unless it is
  `AcceptCheckpoint`).
* `AlwaysProven`: `OnlyProven`, by `ProvenInv`. The file is written from the driver's
  object, so the object must be as proven as the file (`MemIsProven`). The acceptance is
  written several steps after the verdict, so from the moment the verdict is filed the
  file and the result in hand must agree (`VerdictOnFile`), the result must speak of the
  candidate in hand (`VerdictIsSound`), and past the decision it must be an acceptance
  (`DecidedIsAccepted`). For a delivery `DeliveryInv`: it holds the run lock at every git
  call, so the loop is outside every iteration and off the branch, and from the comparison
  to the push the branch is proven unless a stranger committed.
* `HaltIsAlwaysKept`, `OnlyCommandsLiftHolds`, `AcceptedWasFrozenHolds`, by `HaltInv`. A
  driver whose object is not behind has the file's condition, hold and frozen tree in
  hand (`InStep`), so each of its writes follows from the file what a halt is
  (`Follows`); its lock keeps commands out of an iteration (`LockIsDrivers`), so what was
  active at the fence is active at the dispatch (`BegunIsActive`), and what was frozen is
  what is judged (`FrozenIsInHand`).
* `NothingRegresses`: `NoRegression`, by `PreservedInv`: what QA judged covers the
  preservation suite, and once the suite has grown by what passed, the candidate
  satisfies it. With `HaltInv` the tree that is accepted is that candidate. So no number
  of iterations, crashes and restarts between two acceptances loses a criterion.
* `JudgedIsAlwaysCharged`: by `ChargedInv`. The count may exceed what is judged by a
  charge that is refunded later, or fall behind it during a replanning; `Due` says for
  each stage which judged iterations must be covered. The steps are facts about
  cardinalities (`FullyCharges`, `BeginCharges` and what follows from them).

The project. `ProjIsSound`: `ProjInv`, from which `ProjIsTyped`, `FileIsAlwaysTrue`,
`MainlineIsAlwaysEarned`, `TimedWaitAlwaysHasTimer` and, with a step, `SettledStaysFinal`
follow. `FileInv` speaks of the file, `MemInv` of what each session remembers at its place
in the drive, be it master or not, and `MasterInv` of how the present master's memory
stands to the file it is about to write; `ReignInv` makes sure that there is one such
session. A replaced session keeps `MemInv` only, which is enough because its writes are
refused.

### Worktree_proofs

The lease:

* `LeaseTyping`.
* `CleanAlwaysHeld`: under every kind of fault. A token which fails `check` once fails it
  for good (`LapsedForGood`): acquire draws a fresh one, a renewal asks `check` first,
  time only runs on. `CleanInv` adds that tokens are drawn once and that no token is
  recorded clean before its commit.
* `HoldEnds`: `HoldEndsByHolder` when all processes are on one machine (`OneMachine`),
  whatever their pid namespaces. `NamesInv`: the lease that carries a handle's token names
  the handle's process, incarnation and boot, so nobody on that machine can judge it
  lost. Without the assumption it fails (section 5).
* `ImplementsSingleWriter`: `WriterSpec` when, besides, no renewal is late and no role
  outlives its controller (`Sheltered`). `WriterInv`: whoever is in an iteration has a
  grip on the lease (it is valid, names the process, and its thread runs), and what lies
  in the worktree is the work of the run the lease names. Crash and reboot map to the
  abstract writer giving up, a commit of nothing to a stutter. The lease does not promise
  more: a role writes without asking it, so a holder that lapsed unnoticed goes on
  writing beside its successor; what is left then is `CleanWasHeld`.

The seal. `SealIsSound`, `SealsAlwaysTell`, `KeptIsAlwaysSealed`: `SealInv` says for every place of
`hoh run` what the ledger says of the arena it judges, and where a touch that was found is
until the run is held.

The end of a turn. `QuietIsSound`, `SignalsAlwaysItsOwn`, `FrozenIsAlwaysQuiet`: `QuietInv` says of
`anchored`, who was in the shell's tree when the scan began and their forks, that it holds
the session and its own children. The tree is a least set closed under children, so it
is within `anchored`; and it stays so in a `view` whose rows were read at different moments
(`SeenAs`): a process that exits, detaches or sheds its mark only takes from it, and one
that forks adds a pid that was not listed. For the last look `SeenAs` says that whoever was
seen dead or unmarked is so still. A least set and not a recursion, to be reasoned about.

### Leadership_proofs

`LeadTyping`; `TakenAsFrozenHolds` by `TakenInv`: one session freezes, only the frozen
capsule rotates; a lease that names a successor is released, so nobody can save until the
next epoch (`GivenStands`); facts only move forward, so that facts found equal to the
capsule's after the handover were equal at the handover (`FactsArePast`); and that stays so
for a successor that has its GO (`GoStands`). `SavesAreFencedHolds`;
`ReceiptIsAlwaysInChain` by `ReceiptInv` (whoever took over is in the chain with the next
epoch before the receipt is written); `WakeIsAlwaysAnchored` by `WakeInv`: of the rollovers
of an epoch one at most succeeds, and to another session than its predecessor. Hence no two
receipts name the same session at the same epoch, and none names an epoch that a session
re-armed itself for, so that the walk back stops exactly where the rollover is. The walk is
stated as the set of the epochs it reaches rather than as a recursion over them, which
is what makes it provable for a chain of any length. TLC checked the invariant of the
capsule (`TakenInv`) beside the properties on the instance of `leadership` (1,434,070 states)
first.

### Waves_proofs

`WavesKeepOrder` and `BudgetIsCovered`: `WaveInv`, from which `BudgetCoversLive` follows.
What is to be excluded is a run that is live and whose hold is ended, filed twice or never
filed. Who may end a hold is decided by what a session remembers (the reservation it
drew, the snapshot it read, the outcome it proved), so the invariant says of each session
and each place of its drive which run and which hold it speaks of:

* `KnownInv`, `IdInv`: an id is not drawn again while anyone knows it, no two runs have a
  hold of the same id, and an id that is remembered anywhere is that of one node.
* `MasterInv`: one session launches, and what the present master read is what is on file.
* `MineInv`, `MadeInv`, `AskedInv`: a launcher holds only for what it is about to launch
  or has launched, and each of its sets says what the one before it led to.
* `QuietInv`, `OwnInv`, `SettledInv`: what a session counts as not launched or as back is
  not live, an unsettled outcome is its owner's wave, a settled one names no hold.
* `ProvenInv`: what a recovery is about to end is no hold of a live run, nor of a session
  that launches or may still come to launch.
* `BudgetIsKept`, `LiveIsAccounted`: the property itself.

All but `KnownInv` stand under `~overtaken`, as the property does: once a session
was replaced while its launches were out, nothing more is claimed.

That a grant keeps the budget is a fact about sums. `Total` is the cardinality of a set of
units rather than a fold, so that what becomes of it when one hold is opened, spent or
given back (`TotalMonotone`, `TotalSplits`, `BudgetGranted`) is a lemma about finite sets.
`WaveInv` was found with TLC on the instance of `waves` (1,231,020 states) and then proved
for any sessions, numbers of nodes and faults, and any budget. Of the constants it assumes
`WavesAssumption`, which says that they are counts and that the words the model uses for
the absence of a session are none.

### Machine_proofs

`RunLease`: `LeaseTyping`; `LeaseIsKeptHolds` and `ArchivedHasEndedHolds` by `StandsInv`: at
each place of a driver its handle, the record and the parked copies are related, copies
lie in the past (`CopiesArePast`), and whoever is inside the short lock has it
(`ShortIsHeld`), so that what was judged under the lock is still there when it is replaced.

`Sessions`: `SessIsSound`: `SessInv` says which lock, token and workspace a process has at
each of its steps, and what lies under a name and is on record while a workspace is created
(`CreationInv`) or cleaned (`PlaceInv`: what is emptied is the process's own). `OwnershipIsAlwaysKept` and `LeasesAlwaysGrow` follow.

`Relocation`: `RelocKept`, for any stewards, items and entries, crashes at any step and
writers at any time; `MovesAlwaysSafe` and `OriginalAlwaysThere` follow. `RelocInv` has,
beside the types:

* `PassInv` and `ItemInv`: a pass that works on an item holds the lock, so there is one, and
  at each of its places the checks so far still stand: where the item is, that nothing of
  it was removed yet, and from the intent on that the originals of a duplicate are held
  and as they were recorded. That they stay is the point of the pins: an item some pass
  relies on is pinned when the pass is planned, and `StillFree` refuses a pinned one, so the
  original is never itself worked on (`Worked` in `JobInv`).
* `JobInv`: what the journal and the receipt of an id say of its item after the pass is gone.
  Whatever was removed has its removal on the journal and the bundle or the original it
  was removed for; this is what the verdicts of `recover` are drawn from, which sees only
  what is on file.
* `Foreseen`: whoever hashed an entry and is about to unlink it has the archived content
  before him, unless somebody wrote it since and is known to have (`unseen`).
* `OneCopy`: two ids never stage the same item on the target, so that a leftover `recover` follows
  belongs to the id it is under.

`RelocInv` was checked with TLC on the instance of `storage` (526,561 states) first. Of the
actions only the notation of `StartItem` was changed to be proved about (its EXCEPT is flat).

### Dispatch_proofs

`DispIsSound`: `DispInv`, which says where each pane is and whose, what stands in its box
and which prompt its agent works for (`PanesInv`), what the process remembers (`MemInv`)
at each of its places (`WhereInv`), and when an answer on file can only be that to the
prompt asked (`SureInv`, `HadInv`); and `ClosingInv`, what a close knows of the pane it is
about to take, and that nobody was there since. `SendsAreAlwaysCharged`, `AnswersAreToTheAsked`,
`PromptsAreAlwaysSettled` and `ClosesAlwaysItsOwn` follow. The proof showed one thing TLC
had not: `NothingIsJoined` needed a wider exception (a pane let go of after a fruitless
follow-up), whose counterexample takes a fourth dispatch, beyond the run's bound.

The admission. `AdmIsSound`: `AdmInv`, from which `SpaceIsAlwaysAccounted` follows.

* `OneLives`, `HoldersLive`: a live reservation stands in the name of a live controller
  (`InItsName`), and no two live controllers of a namespace share a pid. So `IsStale` never
  hits it, distinct controllers have distinct reservations, and what the ledger counts
  covers what the live ones were promised (`HoldsAreCounted`).
* `GoneIsKnown`: what is gone from the host since it was last seen was written by an operation
  that is still at work, or is in the history as written since, or was promised by
  nobody. This is what an admission rests on while the host is unseen (`_host_term`), and
  what makes the property inductive: it relates the reading to the history and the
  holders, where the property speaks of the host itself.
* `SpaceIsCovered`, `ClosedIsRecorded`: the property itself.

An estimate is a count also when it is a percentile of the history: the rank that is
looked up exists (`RankExists`). Of the constants it assumes `AdmissionAssumption`: thresholds,
ages and requests are counts, the thresholds stand in order, and the window of the history
takes in one entry at least (`ge=1`). The sums of
estimates and of writes are those of `Sums`. `AdmInv` was checked with TLC on the
instance of `machine` with the focus on admission (695,923 states) first.

### DoubleDown_proofs

`DoubleDownKept`: `DdInv`, from which `VerdictsEarned` and `FixesEarned` follow. It has, beside
the types (`DdTypeOK`):

* `LockInv`: one process works on a dossier, one amends. That is what makes the dossier and
  the repair a process writes still the ones it read.
* `VerdictInv`: a dossier is fair (`DossierIsFair`), and at each place of a round the process is
  in the dossier is open, undecided and of a tier with rounds. The bound on the rounds is
  not inductive by itself: a process reads the allowance and adds its round several steps
  later, when others have added theirs. What every step keeps is that the rounds on file
  and the processes that are asking for one more are together at most the allowance and all
  processes but one.
* `FixInv`: `Amends` says for each place of the process that amends which of text, chain and
  digest it has brought in step so far and what is in the chain of this block,
  `RepairIsTrue` what a record says that was filed, and `SpecInOrder` that the state names
  the end of the chain, or the chain is one amendment ahead of it and ends in the text. All
  of it stands over crashes and failed writes: an amendment begins only where text, chain
  and state agree (`StillMeant`), so nothing is ever amended over a half one, and what was
  cut off there (`cut`) is the only difference there can be.

The sums of rounds and of granted rounds are those of `Sums`: cardinalities of sets of units
rather than folds, so that what becomes of one when one dossier changes is a fact about
finite sets (`Sums_proofs`). `DdInv` was checked with TLC on the instance of
`blocks` (2,743,939 states) before it was proved for any sets of halts and processes,
any caps and any bounds.

### Model-checked only

* Liveness (`RunEnds`, `RotationEnds`, `OutcomesEnd`, `IntentsAreResolved`): fairness and
  ENABLED are out of the prover's reach.

Every safety property of the passing runs has its theorem.

## 5. Where code and words differ, and what the properties leave out

Besides the two refuted statements of section 3, these were met while modelling:

* Run. The evidence precedes the pointer to it, so a crash in between makes every later
  iteration refuse its own evidence as changed from outside (`controller.py:785`,
  `store.py:543`). A cancel filed between the read and the unlink of a pause is cleared with it
  (`controller.py:967`, `cli.py:1537`). A delivery pushes before it asks whether the
  condition allows the transition (`cli.py:3160`). It compares the tree of the branch
  (`delivery.py:143`) and pushes the branch by its name (191): what a stranger commits in
  between is fast-forwarded unproven under the message of 147 (`moved`). Of N iterations N-1 can be judged
  (`controller.py:3001`, `stages.py:151`). A driver that lost the fence blocks a run that was
  paused or cancelled meanwhile, where `docs/OPERATIONS.md` says the state on disk wins. A
  FAILED run can be paused and resumed, a CANCELLED one blocked and unblocked, where
  `sentinel.py` calls both an end. `checks.json` is written before the acceptance, so a
  crash leaves preservation requirements without one.
* Leases. Boot ids are compared across machines, so on a shared file system a live holder
  of another machine is judged lost (`wslease.py:390`; `runlease.py` compares hosts first). A
  role that outlives its controller writes into the worktree after another run was
  admitted; this is why `lease` and `ImplementsSingleWriter` exclude orphans and late
  renewals. After one kind of death the record of a run lease conflicts with its parked
  copy for good (`runlease.py:466`; `late`).
* Leadership. A capsule does not bind the project's saves and nothing enforces DRAINING
  (`rollover.py:876`): what the predecessor saves between the freeze and the handover is
  taken over unseen. A fact may move between the successor's second look (`poll`) and its
  takeover, which asks for the handover only (`succession.py:447`). `TakenAsFrozen` claims
  neither.
* Project. A run that fails after it accepted a candidate reads as undetermined; its node,
  once unblocked, is dispatched again beside the acceptance, which the comment at
  `orchestrator.py:1156` wants to exclude (1164 stops accepted and running ones only). A
  session that was replaced while it withdrew timers takes its successor's timer
  (`orchestrator.py:605`; `overtaken`).
* Storage. A crash between the rename of a driver's record and the publication of the next
  one starts the sequence at 1 again, which the docstring at `storage_coordinator.py:550`
  carries forward (827). A crash while a scratch root is made leaves it unregistered
  (`storage_registry.py:1965`). A session lease that cannot be read is taken (`misjudged`).
  A reservation the ledger does not take back stays until its process ends, unnoticed
  (`storage_ephemeral.py:626`, `unreturned`); an `lstat` that fails after `mkdtemp` leaves an
  empty directory without a record (551). A cleanup's `rmdir` goes by name: an empty directory
  somebody puts there after the check goes with it, and so does a file renamed over one
  of the workspace's between its check and its unlink, as the docstring says (69-73); the
  model has the former, and no single files.
  What is written into a file between its last hash and its unlink goes with it, as
  `verified_relocation.py:94-100` accepts (`unseen`); an intent whose receipt, or whose
  bundle's, is lost or changed stays unresolved, pass after pass (187, 2120, 2185; `spoilt`).
* Dispatch. A pane that was let go of in a dialog, at work or after a fruitless follow-up is
  prompted again without a look (`dispatchers.py:1374`, `controller.py:1253`; `restless`). An
  answer that arrives between the check at 2888 and the rename at 2931 is set aside. That a
  pane is kept for an operator is known in memory only. A snapshot that cannot be read
  opens a new pane beside a usable one. A close goes to the pane's id after a look
  (`dispatchers.py:1696-1754`, 2711-2745): whoever acts on the pane in between, or gets its
  id, loses it (`touched`, `moved`); an operator's shell in the run's directory passes the
  look, as the docstring says (1630).
* The end of a turn. A process forked while the table is read, by one that is gone before its
  own turn to be read comes, is in no look (`procs.py:187-209`); if it left the session it
  survives the last one, where the docstring says the pane's processes are proved gone (7).
  `FrozenIsQuiet` speaks of the pids that were listed.
* Seals. A crash after `releasing` was written loses a touch that was found, and a touch
  between the last comparison and the unsealing is not seen (`lost`). A wait for an approval
  whose arena was touched becomes a capability violation while its pane is kept. A person
  who unblocks a violation pardons the touch (`pardoned`).
* Double-down. Two passes may race over an obsolete dossier; a fruitful round is lost by a
  crash before `outcome.json`; a block that comes back with the same counters finds its
  closed dossier; a crash or a failed write during an amendment leaves text, chain and
  state apart, though the answer is `refused` (`ddapply.py:437`, 641; `cut`), and a retry
  then records `NOT_APPLIED` of an amendment that is in the chain. A second correction of one
  block is refused by its id after the text was replaced, where `amendment.py:287-292` asks
  that refused be true of the filesystem too; the allowance may be exceeded by the rounds other processes had begun
  (`doubledown.py:37-38` against 1157).

Each is a hazard at its line in `PROJECT.json`, or the exemption named in brackets, which a
property states next to its definition.

## 6. Not modelled

Not modelled because they are pure I/O, read-only, or pure functions without state: prompts
and providers, the execution of checks and the sandbox, surfaces, reports and views, file
formats and their migration, context projections, the merge gate, decisions, pin and
import, the repository's own release tools. `hoh` writes a file by write, fsync and rename;
every module takes that as one step. Within the modelled components the parts left out are
named in the notes of `PROJECT.json`: an operator's own amendment, backup and restore of a
run, the capacity ledger, rehydration, backpressure and replanning, the developer's
answer to a dispatch.
