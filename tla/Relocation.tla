----------------------------- MODULE Relocation -----------------------------
(***************************************************************************)
(* The only code that removes a local copy: a steward pass                 *)
(* (storage_steward.py) recovers what an earlier pass left, plans, and     *)
(* executes its plan item by item (verified_relocation.py), each item      *)
(* archived on a target and verified there first (archive_target.py).      *)
(*                                                                         *)
(* An item is a directory.  What every proof of eligibility is about is    *)
(* its content as it was recorded elsewhere (in the retained original, at  *)
(* the commit, in the bundle it was extracted from): each entry is "base", *)
(* something else ("new"), or absent.  Passes of several processes run     *)
(* side by side; the flock on relocation.lock (with the relocation session)*)
(* covers recover and execute, and nothing else.                           *)
(***************************************************************************)
EXTENDS Naturals, FiniteSets

CONSTANTS Steward,              \* processes that run passes
          Item, Entry,          \* Entry: numbers, removed in order
          Partner,              \* the item a duplicate may be a duplicate of
          NoJob, NoBundle,
          MaxJobs, MaxEvents    \* bounds: receipt ids, disturbances

Content == {"base", "new", "none"}
NoLock == "free"

ASSUME RelocationAssumption ==
    /\ Entry \subseteq Nat /\ Partner \in [Item -> Item]
    /\ \A i \in Item : Partner[i] # i /\ Partner[Partner[i]] = i
    /\ MaxJobs \in Nat /\ MaxEvents \in Nat
    /\ NoLock \notin Steward /\ NoJob \notin Item /\ NoBundle \notin [Entry -> Content]

VARIABLES
    kind,       \* what proves an item: "duplicate", "git" (clone, git tree), "extract"
    tree,       \* content of an item, wherever it lies
    place,      \* under which name it lies
    retaken,    \* items whose own name was taken by somebody else
    visitor,    \* whether a process has a cwd or a descriptor in an item, and wrote
    retention,  \* items listed as originals at HEAD
    target,     \* "up": it is registered and answers, with its own identity; "away": it does
                \* not; "unread": archive-targets.json has problems
    pins,       \* originals named by the plans of plans.jsonl
    jobs,       \* receipt ids in use, and the item each is for
    journal,    \* intents.jsonl, per receipt id
    receipts,   \* reclaim-<id>.json
    staged,     \* staged copies of bundles
    bundles,    \* bundles verified on the target, with their content
    lock,       \* relocation.lock
    pass,       \* where each steward's pass is
    removedBy,  \* history: what was unlinked, as <<receipt id, entry, content>>
    unseen,     \* history: entries written between their re-hash and their unlink
    spoilt,     \* receipt ids whose reclaim or bundle receipt was lost or changed by others
    events      \* failures, and steps of everybody else, so far

relocVars == <<kind, tree, place, retaken, visitor, retention, target, pins, jobs, journal,
               receipts, staged, bundles, lock, pass, removedBy, unseen, spoilt, events>>

Job == 1..MaxJobs
Late == CHOOSE e \in Entry : \A f \in Entry : f <= e
Planned == Entry \ {Late}
Base == [e \in Entry |-> IF e = Late THEN "none" ELSE "base"]

NoPass == [at |-> "idle", todo |-> {}, job |-> 0, where |-> "none", hold |-> {},
           built |-> NoBundle, status |-> "none"]

RelocInit ==
    /\ kind \in [Item -> {"duplicate", "git", "extract"}]
    /\ tree = [i \in Item |-> Base] /\ place = [i \in Item |-> "named"]
    /\ retaken = {} /\ visitor = [i \in Item |-> "none"] /\ retention \in SUBSET Item
    /\ target = "up" /\ unseen = {} /\ spoilt = {}
    /\ pins = {} /\ jobs = [r \in Job |-> NoJob] /\ journal = [r \in Job |-> {}]
    /\ receipts = [r \in Job |-> "none"] /\ staged = [r \in Job |-> "none"]
    /\ bundles = [r \in Job |-> NoBundle] /\ lock = NoLock
    /\ pass = [p \in Steward |-> NoPass] /\ removedBy = {}
    /\ events = 0

At(p, step) == pass[p].at = step
Goto(p, step) == pass' = [pass EXCEPT ![p].at = step]
ItemOf(p) == jobs[pass[p].job]

Inside(i) == visitor[i] # "none"
TargetUp == target = "up"
Originals(i) == IF kind[i] = "duplicate" THEN {Partner[i]} ELSE {}
Disturbed == events < MaxEvents /\ events' = events + 1

-----------------------------------------------------------------------------
(* Plan                                                                    *)

\* _original_ok: listed at HEAD, in its run, and what the manifest says.
OriginalOk(o) == o \in retention /\ place[o] = "named" /\ tree[o] = Base

\* Every entry byte-equals one original that is in order.
DuplicateProof(i) == tree[i] = Base /\ \A o \in Originals(i) : OriginalOk(o)

\* clone_proof, git_tree_proof: the tree is the one of a commit the repository has.
CloneProof(i) == tree[i] = Base

\* extract_root_proof: the tree of a bundle whose receipt is committed.
ExtractRootProof(i) == tree[i] = Base

\* The item is where it was, and what proves it still does.
Proven(i) ==
    /\ place[i] = "named" /\ i \notin retaken
    /\ \/ kind[i] = "duplicate" /\ DuplicateProof(i)
       \/ kind[i] = "git" /\ CloneProof(i)
       \/ kind[i] = "extract" /\ ExtractRootProof(i)

\* _hot_reasons: a process works in it.
Hot(i) == Inside(i)

\* classify_tier: what a process works in is HOT; what is proven is eligible.
Eligible(i) == ~Hot(i) /\ Proven(i)

\* pinned: the originals of every plan and receipt, and what the manifests list.
Pinned == pins \cup retention

\* run_once: recover first; while another pass holds the lock recovery is skipped.
StartPass(p) ==
    /\ At(p, "idle")
    /\ IF lock = NoLock THEN lock' = p /\ Goto(p, "recovering")
                        ELSE UNCHANGED lock /\ Goto(p, "recovered")
    /\ UNCHANGED <<kind, tree, place, retaken, visitor, retention, target, pins, jobs, journal,
                   receipts, staged, bundles, removedBy, unseen, spoilt, events>>

\* plan: classify, refuse what is pinned and what an accepted item relies on ...
Choose(p, chosen) ==
    /\ At(p, "recovered")
    /\ chosen # {}
    /\ \A i \in chosen : Eligible(i) /\ i \notin Pinned /\ Originals(i) \cap chosen = {}
    /\ pass' = [pass EXCEPT ![p].at = "chosen", ![p].todo = chosen]
    /\ UNCHANGED <<kind, tree, place, retaken, visitor, retention, target, pins, jobs, journal,
                   receipts, staged, bundles, lock, removedBy, unseen, spoilt, events>>

\* ... and freeze the plan and its pins, under no lock.
WritePlan(p) ==
    /\ At(p, "chosen")
    /\ pins' = pins \cup UNION {Originals(i) : i \in pass[p].todo}
    /\ Goto(p, "planned")
    /\ UNCHANGED <<kind, tree, place, retaken, visitor, retention, target, jobs, journal,
                   receipts, staged, bundles, lock, removedBy, unseen, spoilt, events>>

\* A pass ends here when nothing is eligible, nothing presses, or execute is refused.
EndPass(p) ==
    /\ pass[p].at \in {"recovered", "planned"}
    /\ pass' = [pass EXCEPT ![p] = NoPass]
    /\ UNCHANGED <<kind, tree, place, retaken, visitor, retention, target, pins, jobs, journal,
                   receipts, staged, bundles, lock, removedBy, unseen, spoilt, events>>

-----------------------------------------------------------------------------
(* Execute                                                                 *)

\* execute takes the lock; the whole plan is refused when an item's
\* classification or original changed since.
Execute(p) ==
    /\ At(p, "planned") /\ lock = NoLock
    /\ \A i \in pass[p].todo : Eligible(i)
    /\ Cardinality({r \in Job : jobs[r] = NoJob}) >= Cardinality(pass[p].todo)     \* bound
    /\ lock' = p /\ Goto(p, "items")
    /\ UNCHANGED <<kind, tree, place, retaken, visitor, retention, target, pins, jobs, journal,
                   receipts, staged, bundles, removedBy, unseen, spoilt, events>>

Kept(p) == pass' = [pass EXCEPT ![p].at = "receipt", ![p].status = "KEPT"]

\* The item is the one planned, and no plan since relies on it.
StillFree(i) == /\ place[i] = "named" /\ i \notin retaken
                /\ i \notin Pinned \ Originals(i)

\* _relocate: a receipt id, ownership and pins; an extract root has its bundle already.
StartItem(p, i) ==
    /\ At(p, "items") /\ i \in pass[p].todo
    /\ \E r \in Job :
          /\ jobs[r] = NoJob /\ \A q \in Job : q < r => jobs[q] # NoJob
          /\ jobs' = [jobs EXCEPT ![r] = i]
          /\ pass' = [pass EXCEPT ![p].job = r, ![p].todo = @ \ {i},
                 ![p].at = IF ~StillFree(i) THEN "receipt"
                           ELSE IF kind[i] = "extract" THEN "recheck" ELSE "stage",
                 ![p].status = IF StillFree(i) THEN "none" ELSE "KEPT"]
    /\ UNCHANGED <<kind, tree, place, retaken, visitor, retention, target, pins, journal,
                   receipts, staged, bundles, lock, removedBy, unseen, spoilt, events>>

\* The ids leftovers are followed by: of every receipt and every build record.
KnownLabels(i) == {r \in Job : jobs[r] = i /\ (receipts[r] # "none" \/ "build" \in journal[r])}

\* _follow_leftovers: a staged copy on the target keeps the item from it.
LeftoverPresent(i) == \E r \in KnownLabels(i) : staged[r] = "target"

\* _archive up to the build record: no record, no build.
Stage(p, where) ==
    /\ At(p, "stage")
    /\ LET i == ItemOf(p) IN
       IF /\ TargetUp /\ (kind[i] = "duplicate" => tree[i] = Base)
          /\ where = "target" => ~LeftoverPresent(i)
       THEN /\ journal' = [journal EXCEPT ![pass[p].job] = @ \cup {"build"}]
            /\ pass' = [pass EXCEPT ![p].at = "build", ![p].where = where]
       ELSE Kept(p) /\ UNCHANGED journal
    /\ UNCHANGED <<kind, tree, place, retaken, visitor, retention, target, pins, jobs, receipts,
                   staged, bundles, lock, removedBy, unseen, spoilt, events>>

\* The bundle is built; a duplicate's must be the content the plan froze.
Build(p) ==
    /\ At(p, "build")
    /\ LET i == ItemOf(p) IN
       /\ staged' = [staged EXCEPT ![pass[p].job] = pass[p].where]
       /\ IF kind[i] = "duplicate" /\ tree[i] # Base THEN Kept(p)
          ELSE pass' = [pass EXCEPT ![p].at = "place", ![p].built = tree[i]]
    /\ UNCHANGED <<kind, tree, place, retaken, visitor, retention, target, pins, jobs, journal,
                   receipts, bundles, lock, removedBy, unseen, spoilt, events>>

\* place: copied, verified and receipted on the target, whose identity is confirmed
\* before and after.
PlaceBundle(p) ==
    /\ At(p, "place")
    /\ IF TargetUp
       THEN /\ bundles' = [bundles EXCEPT ![pass[p].job] = pass[p].built]
            /\ Goto(p, "recheck")
       ELSE Kept(p) /\ UNCHANGED bundles
    /\ UNCHANGED <<kind, tree, place, retaken, visitor, retention, target, pins, jobs, journal,
                   receipts, staged, lock, removedBy, unseen, spoilt, events>>

\* Mutant: the original's run is looked at, not held.
HeldNothing(i) == {}

\* _hold_run: a shared lock on the original's run until the item is finished.
Held(i) == Originals(i)

\* _recheck_proof, and the extract gate: the payload is read again on the target.
Recheck(p) ==
    /\ At(p, "recheck")
    /\ LET i == ItemOf(p) IN
       IF Proven(i) /\ (kind[i] = "extract" => TargetUp)
       THEN pass' = [pass EXCEPT ![p].at = "intent", ![p].hold = Held(i)]
       ELSE Kept(p)
    /\ UNCHANGED <<kind, tree, place, retaken, visitor, retention, target, pins, jobs, journal,
                   receipts, staged, bundles, lock, removedBy, unseen, spoilt, events>>

\* The durable intent comes before the rename.
WriteIntent(p) ==
    /\ At(p, "intent")
    /\ journal' = [journal EXCEPT ![pass[p].job] = @ \cup {"intent"}]
    /\ Goto(p, "rename")
    /\ UNCHANGED <<kind, tree, place, retaken, visitor, retention, target, pins, jobs, receipts,
                   staged, bundles, lock, removedBy, unseen, spoilt, events>>

Rename(p) ==
    /\ At(p, "rename")
    /\ place' = [place EXCEPT ![ItemOf(p)] = "quarantine"]
    /\ Goto(p, "compare")
    /\ UNCHANGED <<kind, tree, retaken, visitor, retention, target, pins, jobs, journal,
                   receipts, staged, bundles, lock, removedBy, unseen, spoilt, events>>

\* _restore: its own name again, or a versioned one; it never replaces anything.
Restored(i) == place' = [place EXCEPT ![i] = IF i \in retaken THEN "versioned" ELSE "named"]

Restore(p) == Restored(ItemOf(p)) /\ Kept(p)

\* The quarantined tree is walked once, against the bundle and the plan.
Compare(p) ==
    /\ At(p, "compare")
    /\ LET i == ItemOf(p)  b == bundles[pass[p].job] IN
       IF tree[i] = Base /\ (kind[i] # "extract" => b = tree[i])
       THEN Goto(p, "probe") /\ UNCHANGED place
       ELSE Restore(p)
    /\ UNCHANGED <<kind, tree, retaken, visitor, retention, target, pins, jobs, journal,
                   receipts, staged, bundles, lock, removedBy, unseen, spoilt, events>>

\* _still_equal: entry by entry, against the originals as they are now.
StillEqual(i) == \A o \in Originals(i) :
    place[o] = "named" /\ \A e \in Planned : tree[o][e] = tree[i][e]

\* No process inside; a duplicate equals its original once more.
Probe(p) ==
    /\ At(p, "probe")
    /\ LET i == ItemOf(p) IN
       IF /\ ~Inside(i)
          /\ StillEqual(i)
       THEN Goto(p, "start_removal") /\ UNCHANGED place
       ELSE Restore(p)
    /\ UNCHANGED <<kind, tree, retaken, visitor, retention, target, pins, jobs, journal,
                   receipts, staged, bundles, lock, removedBy, unseen, spoilt, events>>

StartRemoval(p) ==
    /\ At(p, "start_removal")
    /\ journal' = [journal EXCEPT ![pass[p].job] = @ \cup {"removal"}]
    /\ Goto(p, "removing")
    /\ UNCHANGED <<kind, tree, place, retaken, visitor, retention, target, pins, jobs, receipts,
                   staged, bundles, lock, removedBy, unseen, spoilt, events>>

Removed(r) == {e \in Entry : \E c \in Content : <<r, e, c>> \in removedBy}

\* _stopped: nothing removed, the name is given back; otherwise it stays in
\* quarantine, and is PARTIAL.
Stopped(p) ==
    IF Removed(pass[p].job) = {} THEN Restore(p)
    ELSE /\ pass' = [pass EXCEPT ![p].at = "receipt", ![p].status = "PARTIAL"]
         /\ UNCHANGED place

\* The entry the removal is at.
Turn(r, e) ==
    LET left == Planned \ Removed(r) IN e \in left /\ \A f \in left : e <= f

\* Mutant: an entry is unlinked as it was listed, not as it is.
UnlinkableListed(i, e) == tree[i][e] # "none"

\* _recheck_file: the entry hashes to what the walk found ...
Unlinkable(i, e) == tree[i][e] = "base"
Rehash(p, e) ==
    /\ At(p, "removing") /\ Turn(pass[p].job, e)
    /\ IF Unlinkable(ItemOf(p), e) THEN Goto(p, "unlink") /\ UNCHANGED place
                                   ELSE Stopped(p)
    /\ UNCHANGED <<kind, tree, retaken, visitor, retention, target, pins, jobs, journal,
                   receipts, staged, bundles, lock, removedBy, unseen, spoilt, events>>

\* ... and then its name is unlinked, whatever was written into it since; one that is
\* gone by now stops the removal.
RemoveEntry(p, e) ==
    /\ At(p, "unlink") /\ Turn(pass[p].job, e)
    /\ LET i == ItemOf(p) IN
       IF tree[i][e] # "none"
       THEN /\ tree' = [tree EXCEPT ![i][e] = "none"]
            /\ removedBy' = removedBy \cup {<<pass[p].job, e, tree[i][e]>>}
            /\ Goto(p, "removing") /\ UNCHANGED place
       ELSE Stopped(p) /\ UNCHANGED <<tree, removedBy>>
    /\ UNCHANGED <<kind, retaken, visitor, retention, target, pins, jobs, journal, receipts,
                   staged, bundles, lock, unseen, spoilt, events>>

\* The emptied directory goes; a late entry is given back the item's name; what
\* came back under a walked name stays in quarantine.
RemoveDirectory(p) ==
    /\ At(p, "removing") /\ Planned \subseteq Removed(pass[p].job)
    /\ LET i == ItemOf(p) IN
       IF \E e \in Planned : tree[i][e] # "none" THEN Stopped(p)
       ELSE IF tree[i][Late] # "none"
       THEN /\ Restored(i)
            /\ pass' = [pass EXCEPT ![p].at = "receipt", ![p].status = "LATE_ENTRY_RESTORED"]
       ELSE /\ place' = [place EXCEPT ![i] = "gone"]
            /\ pass' = [pass EXCEPT ![p].at = "receipt",
                           ![p].status = IF i \in retaken THEN "PARTIAL" ELSE "RELOCATED"]
    /\ UNCHANGED <<kind, tree, retaken, visitor, retention, target, pins, jobs, journal,
                   receipts, staged, bundles, lock, removedBy, unseen, spoilt, events>>

Finished(p) == pass' = [pass EXCEPT ![p] = [NoPass EXCEPT !.at = "items", !.todo = pass[p].todo]]

\* The receipt; one that cannot be written leaves its intent open.
WriteReceipt(p) ==
    /\ At(p, "receipt")
    /\ LET r == pass[p].job IN
       \/ /\ receipts' = [receipts EXCEPT ![r] = pass[p].status]
          /\ IF "intent" \in journal[r] THEN Goto(p, "completion") ELSE Finished(p)
          /\ UNCHANGED events
       \/ Disturbed /\ Finished(p) /\ UNCHANGED receipts
    /\ UNCHANGED <<kind, tree, place, retaken, visitor, retention, target, pins, jobs, journal,
                   staged, bundles, lock, removedBy, unseen, spoilt>>

WriteCompletion(p) ==
    /\ At(p, "completion")
    /\ \/ /\ journal' = [journal EXCEPT ![pass[p].job] = @ \cup {"done"}]
          /\ UNCHANGED events
       \/ Disturbed /\ UNCHANGED journal
    /\ Finished(p)
    /\ UNCHANGED <<kind, tree, place, retaken, visitor, retention, target, pins, jobs, receipts,
                   staged, bundles, lock, removedBy, unseen, spoilt>>

EndExecute(p) ==
    /\ At(p, "items") /\ pass[p].todo = {}
    /\ lock' = NoLock /\ pass' = [pass EXCEPT ![p] = NoPass]
    /\ UNCHANGED <<kind, tree, place, retaken, visitor, retention, target, pins, jobs, journal,
                   receipts, staged, bundles, removedBy, unseen, spoilt, events>>

\* A build that does not end well may leave its copy where it was built.
LeavesCopy(p) ==
    \/ UNCHANGED staged
    \/ At(p, "build") /\ staged' = [staged EXCEPT ![pass[p].job] = pass[p].where]

\* A step fails (a refused write, rename or build, a timeout, an exception): the item
\* is kept, restored if it can be, or PARTIAL when something was removed; a failed
\* build leaves its staged copy.
StepFails(p) ==
    /\ pass[p].at \in {"stage", "build", "place", "recheck", "intent", "rename", "compare",
                       "probe", "start_removal", "removing", "unlink"}
    /\ Disturbed
    /\ \/ place[ItemOf(p)] = "quarantine" /\ Stopped(p) /\ UNCHANGED staged
       \/ /\ place[ItemOf(p)] = "quarantine" /\ Removed(pass[p].job) = {}
          /\ Kept(p) /\ UNCHANGED <<place, staged>>            \* the restore failed too
       \/ /\ place[ItemOf(p)] # "quarantine" /\ Kept(p) /\ UNCHANGED place
          /\ LeavesCopy(p)
    /\ UNCHANGED <<kind, tree, retaken, visitor, retention, target, pins, jobs, journal,
                   receipts, bundles, lock, removedBy, unseen, spoilt>>

-----------------------------------------------------------------------------
(* Recover                                                                 *)

OpenIntents == {r \in Job : "intent" \in journal[r] /\ "done" \notin journal[r]}

Complete(r) == journal' = [journal EXCEPT ![r] = @ \cup {"done"}] /\ UNCHANGED receipts
JudgeIntent(r, outcome) == receipts' = [receipts EXCEPT ![r] = outcome] /\ UNCHANGED journal

ItemThere(i) == place[i] = "named" \/ i \in retaken
\* The quarantine name of this very intent: its job renamed the item and did not finish.
QuarantineThere(r) == place[jobs[r]] = "quarantine" /\
    \A q \in Job : jobs[q] = jobs[r] /\ "intent" \in journal[q] => q <= r

\* _resolve_intent: what an interrupted execute did, from what is there.
Verdict(r) ==
    IF ~ItemThere(jobs[r]) /\ ~QuarantineThere(r) THEN "RELOCATED"
    ELSE IF QuarantineThere(r) \/ "removal" \in journal[r] THEN "PARTIAL" ELSE "KEPT"

\* _bundle_receipt_holds: the receipt is read on its target, and has the intent's digest.
BundleReceiptHolds(r) == TargetUp /\ r \notin spoilt

\* Mutant: a receipt that is there already is an error.
ResolvableOnce(r) ==
    /\ target # "unread" /\ receipts[r] = "none"
    /\ Verdict(r) # "RELOCATED" \/ BundleReceiptHolds(r)

\* While archive-targets.json has problems nothing is judged.  A receipt that is there, and
\* can be used, only lacks its completion; RELOCATED needs the bundle receipt.  What cannot
\* be resolved is judged again next pass.
Resolvable(r) ==
    /\ target # "unread"
    /\ IF receipts[r] # "none" THEN r \notin spoilt
       ELSE Verdict(r) # "RELOCATED" \/ BundleReceiptHolds(r)

ResolveIntent(p, r) ==
    /\ At(p, "recovering") /\ r \in OpenIntents /\ Resolvable(r)
    /\ IF receipts[r] # "none" THEN Complete(r) ELSE JudgeIntent(r, Verdict(r))
    /\ UNCHANGED <<kind, tree, place, retaken, visitor, retention, target, pins, jobs, staged,
                   bundles, lock, pass, removedBy, unseen, spoilt, events>>

EndRecover(p) ==
    /\ At(p, "recovering") /\ \A r \in OpenIntents : ~Resolvable(r)
    /\ lock' = NoLock /\ Goto(p, "recovered")
    /\ UNCHANGED <<kind, tree, place, retaken, visitor, retention, target, pins, jobs, journal,
                   receipts, staged, bundles, removedBy, unseen, spoilt, events>>

-----------------------------------------------------------------------------
(* Everybody else                                                          *)

\* The steward dies: the lock is released, nothing else is; a build leaves its copy.
StewardDies(p) ==
    /\ ~At(p, "idle") /\ Disturbed
    /\ pass' = [pass EXCEPT ![p] = NoPass]
    /\ lock' = IF lock = p THEN NoLock ELSE lock
    /\ LeavesCopy(p)
    /\ UNCHANGED <<kind, tree, place, retaken, visitor, retention, target, pins, jobs, journal,
                   receipts, bundles, removedBy, unseen, spoilt>>

Enter(i) ==
    /\ place[i] \in {"named", "quarantine"} /\ ~Inside(i) /\ Disturbed
    /\ visitor' = [visitor EXCEPT ![i] = "reads"]
    /\ UNCHANGED <<kind, tree, place, retaken, retention, target, pins, jobs, journal, receipts,
                   staged, bundles, lock, pass, removedBy, unseen, spoilt>>

Leave(i) ==
    /\ Inside(i) /\ visitor' = [visitor EXCEPT ![i] = "none"]
    /\ UNCHANGED <<kind, tree, place, retaken, retention, target, pins, jobs, journal, receipts,
                   staged, bundles, lock, pass, removedBy, unseen, spoilt, events>>

\* The passes that have hashed the entry again, and are about to unlink it.
Unlinking(i, e) ==
    {p \in Steward : At(p, "unlink") /\ ItemOf(p) = i /\ Turn(pass[p].job, e)}

\* The process inside changes, adds or removes an entry (once); whoever writes into a
\* run has its process lock, which a hold on the run refuses.
Write(i, e, c) ==
    /\ visitor[i] = "reads" /\ place[i] # "gone"
    /\ \A p \in Steward : i \notin pass[p].hold
    /\ tree[i][e] # c /\ c # "base"
    /\ tree' = [tree EXCEPT ![i][e] = c] /\ visitor' = [visitor EXCEPT ![i] = "wrote"]
    /\ unseen' = unseen \cup {<<r, e>> : r \in {pass[p].job : p \in Unlinking(i, e)}}
    /\ UNCHANGED <<kind, place, retaken, retention, target, pins, jobs, journal,
                   receipts, staged, bundles, lock, pass, removedBy, spoilt, events>>

\* Somebody creates something under the name of an item in quarantine.
Retake(i) ==
    /\ place[i] \in {"quarantine", "gone"} /\ i \notin retaken /\ Disturbed
    /\ retaken' = retaken \cup {i}
    /\ UNCHANGED <<kind, tree, place, visitor, retention, target, pins, jobs, journal, receipts,
                   staged, bundles, lock, pass, removedBy, unseen, spoilt>>

\* A commit changes which originals the retention manifests list.
CommitRetention(listed) ==
    /\ retention # listed /\ Disturbed
    /\ retention' = listed
    /\ UNCHANGED <<kind, tree, place, retaken, visitor, target, pins, jobs, journal, receipts,
                   staged, bundles, lock, pass, removedBy, unseen, spoilt>>

TargetGoes ==
    /\ TargetUp /\ Disturbed /\ target' \in {"away", "unread"}
    /\ UNCHANGED <<kind, tree, place, retaken, visitor, retention, pins, jobs, journal, receipts,
                   staged, bundles, lock, pass, removedBy, unseen, spoilt>>

TargetReturns ==
    /\ ~TargetUp /\ target' = "up"
    /\ UNCHANGED <<kind, tree, place, retaken, visitor, retention, pins, jobs, journal, receipts,
                   staged, bundles, lock, pass, removedBy, unseen, spoilt, events>>

\* The receipt of an open intent, or of its bundle, is lost or changed by somebody else.
Spoil(r) ==
    /\ r \in OpenIntents \ spoilt /\ Disturbed
    /\ spoilt' = spoilt \cup {r}
    /\ UNCHANGED <<kind, tree, place, retaken, visitor, retention, target, pins, jobs, journal,
                   receipts, staged, bundles, lock, pass, removedBy, unseen>>

ItemStep(p) ==
    \/ \E i \in Item : StartItem(p, i)
    \/ \E where \in {"guest", "target"} : Stage(p, where)
    \/ Build(p) \/ PlaceBundle(p) \/ Recheck(p) \/ WriteIntent(p) \/ Rename(p) \/ Compare(p)
    \/ Probe(p) \/ StartRemoval(p) \/ (\E e \in Entry : Rehash(p, e) \/ RemoveEntry(p, e))
    \/ RemoveDirectory(p) \/ WriteReceipt(p) \/ WriteCompletion(p) \/ EndExecute(p)

RecoverStep(p) == (\E r \in Job : ResolveIntent(p, r)) \/ EndRecover(p)
PlanStep(p) == (\E chosen \in SUBSET Item : Choose(p, chosen)) \/ WritePlan(p) \/ Execute(p)

RelocNext ==
    \/ \E p \in Steward : \/ StartPass(p) \/ PlanStep(p) \/ EndPass(p) \/ ItemStep(p)
                          \/ RecoverStep(p) \/ StepFails(p) \/ StewardDies(p)
    \/ \E i \in Item : \/ Enter(i) \/ Leave(i) \/ Retake(i)
                       \/ \E e \in Entry, c \in Content : Write(i, e, c)
    \/ \E listed \in SUBSET Item : CommitRetention(listed)
    \/ TargetGoes \/ TargetReturns \/ (\E r \in Job : Spoil(r))

RelocSpec == RelocInit /\ [][RelocNext]_relocVars

\* A pass that has begun goes on; the storage timer starts one again and again; a
\* target that is away or unread is put in order by its operator.
RelocFairness ==
    /\ \A p \in Steward : /\ WF_relocVars(WritePlan(p)) /\ WF_relocVars(EndPass(p))
                          /\ WF_relocVars(ItemStep(p)) /\ WF_relocVars(RecoverStep(p))
    /\ SF_relocVars(\E p \in Steward : StartPass(p) /\ lock = NoLock)
    /\ WF_relocVars(TargetReturns)
RelocFairSpec == RelocSpec /\ RelocFairness

-----------------------------------------------------------------------------
(* Properties                                                              *)

\* No content is lost: whatever a removal unlinked is, as it was, in the bundle that was
\* verified for it (an extract root's: in the bundle it came from), whoever wrote into the
\* item before its entries were hashed for the last time (what is written between that and
\* the unlink is the residual risk the module accepts); and what a removed duplicate relied
\* on stays, whichever passes planned the two at the same time and whatever was committed
\* in between (pins).
ContentIsKept ==
    \A x \in removedBy : LET r == x[1]  e == x[2]  c == x[3] IN
       IF <<r, e>> \in unseen THEN TRUE
       ELSE IF kind[jobs[r]] = "extract" THEN c = Base[e]
       ELSE bundles[r] # NoBundle /\ bundles[r][e] = c
OriginalsStay ==
    \A r \in Job : (Removed(r) # {} /\ kind[jobs[r]] = "duplicate")
                    => place[Partner[jobs[r]]] # "gone"
NothingLost == ContentIsKept /\ OriginalsStay

\* A duplicate goes only while its retained original is there, under its name, and with the
\* content every entry was hashed to: nobody changes the original between the proof and the
\* last unlink (_hold_run, _still_equal).
OriginalIsThere ==
    [][\A x \in removedBy' \ removedBy : \A o \in Originals(jobs[x[1]]) :
          /\ place[o] = "named" /\ tree[o][x[2]] = "base"
          /\ <<x[1], x[2]>> \notin unseen => tree[o][x[2]] = x[3]]_relocVars

\* A receipt tells what happened, also one a recovery wrote: KEPT removed nothing,
\* RELOCATED left nothing of the item under its name or a versioned one; and however
\* often an item is tried, whoever died over it, its target holds one staged copy at most.
ReceiptsAreTrue ==
    /\ \A r \in Job : /\ receipts[r] = "KEPT" => Removed(r) = {}
                      /\ receipts[r] = "RELOCATED" => place[jobs[r]] \in {"gone", "quarantine"}
    /\ \A q, r \in Job :
          (staged[q] = "target" /\ staged[r] = "target" /\ jobs[q] = jobs[r]) => q = r

\* An item that moved is whole where its receipt says it is.
MovesAreSafe == NothingLost /\ ReceiptsAreTrue

\* What an interrupted execute left open is judged, and recorded, in the end, unless the
\* receipt it would be judged by is lost or changed: the module leaves that one UNRESOLVED.
IntentsAreResolved == \A r \in Job : r \in OpenIntents ~> r \notin OpenIntents \/ r \in spoilt
-----------------------------------------------------------------------------
(* Why they hold: an invariant that every step keeps                        *)

Tree == [Entry -> Content]
Ahead == {"stage", "build", "place", "recheck", "intent", "rename"}
Removing == {"removing", "unlink"}
Moving == {"compare", "probe", "start_removal"} \cup Removing
OnItem == Ahead \cup Moving \cup {"receipt", "completion"}
UnderLock == OnItem \cup {"recovering", "items"}
Places == UnderLock \cup {"idle", "recovered", "chosen", "planned"}
Outcome == {"KEPT", "PARTIAL", "RELOCATED", "LATE_ENTRY_RESTORED"}
PassRecord == [at : Places, todo : SUBSET Item, job : Nat, where : {"none", "guest", "target"},
               hold : SUBSET Item, built : Tree \cup {NoBundle}, status : {"none"} \cup Outcome]
RelocTypeOK ==
    /\ kind \in [Item -> {"duplicate", "git", "extract"}] /\ tree \in [Item -> Tree]
    /\ place \in [Item -> {"named", "quarantine", "versioned", "gone"}]
    /\ retaken \subseteq Item /\ visitor \in [Item -> {"none", "reads", "wrote"}]
    /\ retention \subseteq Item /\ target \in {"up", "away", "unread"} /\ pins \subseteq Item
    /\ jobs \in [Job -> Item \cup {NoJob}]
    /\ journal \in [Job -> SUBSET {"build", "intent", "removal", "done"}]
    /\ receipts \in [Job -> {"none"} \cup Outcome]
    /\ staged \in [Job -> {"none", "guest", "target"}]
    /\ bundles \in [Job -> Tree \cup {NoBundle}] /\ lock \in Steward \cup {NoLock}
    /\ pass \in [Steward -> PassRecord] /\ removedBy \subseteq Job \X Entry \X Content
    /\ unseen \subseteq Job \X Entry /\ spoilt \subseteq Job /\ events \in Nat

\* What an entry is, or was when it was unlinked: as archived, unless it was written late.
Foreseen(r, e, c) == c = "base" \/ <<r, e>> \in unseen

\* What holds of an item at each place of the pass that works on it, under the lock.
ItemInv(w, r, i) ==
    /\ r \in Job /\ i \in Item /\ Originals(i) \subseteq pins
    /\ w.at \in Ahead => place[i] = "named"
    /\ w.at \in Moving => place[i] = "quarantine"
    /\ w.at \in Ahead \cup (Moving \ Removing) => Removed(r) = {}
    /\ w.at \in Ahead \cup Moving \cup {"receipt"} => receipts[r] = "none"
    /\ w.at = "build" => /\ "build" \in journal[r]
                         /\ w.where = "target" =>
                               \A q \in Job : jobs[q] = i => staged[q] # "target"
    /\ w.at \in {"intent", "rename"} \cup Moving =>
          \A o \in Originals(i) : o \in w.hold /\ place[o] = "named" /\ tree[o] = Base
    /\ w.at \in {"probe", "start_removal"} \cup Removing =>
          kind[i] = "extract" \/ bundles[r] = Base
    /\ w.at \in Removing => "removal" \in journal[r]
    /\ w.at = "unlink" => \A e \in Planned : Turn(r, e) => Foreseen(r, e, tree[i][e])
    /\ w.at = "receipt" => /\ w.status = "KEPT" => Removed(r) = {}
                           /\ w.status = "RELOCATED" => place[i] = "gone"
PassInv(p) ==
    /\ pass[p].at \in UnderLock => lock = p
    /\ pass[p].at \in {"planned", "items"} \cup OnItem =>
          \A i \in pass[p].todo : Originals(i) \subseteq pins
    /\ pass[p].at \in OnItem => ItemInv(pass[p], pass[p].job, ItemOf(p))

\* What is on file of a receipt id, and what it says of the item.
Unused(r) == /\ journal[r] = {} /\ receipts[r] = "none" /\ staged[r] = "none"
             /\ Removed(r) = {}
Worked(i) == \E p \in Steward : pass[p].at \in Ahead \cup Moving /\ ItemOf(p) = i
JobInv(r) ==
    /\ jobs[r] = NoJob => Unused(r)
    /\ staged[r] = "target" => "build" \in journal[r]
    /\ Removed(r) # {} =>
          /\ "removal" \in journal[r] /\ receipts[r] # "KEPT"
          /\ kind[jobs[r]] # "extract" => bundles[r] = Base
          /\ \A o \in Originals(jobs[r]) : o \in pins /\ place[o] # "gone" /\ ~Worked(o)
    /\ receipts[r] = "RELOCATED" => place[jobs[r]] \in {"gone", "quarantine"} /\ ~Worked(jobs[r])
OneCopy == \A q, r \in Job :
    (staged[q] = "target" /\ staged[r] = "target" /\ jobs[q] = jobs[r]) => q = r
RelocInv ==
    /\ RelocTypeOK /\ OneCopy
    /\ \A p \in Steward : PassInv(p)
    /\ \A r \in Job : JobInv(r)
    /\ \A x \in removedBy : x[2] \in Planned /\ Foreseen(x[1], x[2], x[3])
    /\ \A i \in Item : place[i] = "versioned" => i \in retaken
=============================================================================
