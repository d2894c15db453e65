----------------------------- MODULE DoubleDown -----------------------------
(***************************************************************************)
(* The double-down on blocks (doubledown.py, ddverify.py, ddapply.py): for *)
(* every block of one owner, a run or a project, a dossier of records that *)
(* are only ever created, moved on by passes and by a person's commands.   *)
(* Two processes may be at it; a dossier is worked on under its own lock,  *)
(* which a crash lets go of.  A block is its identity: when it is lifted   *)
(* and comes back with the same counters, it finds its old dossier.        *)
(***************************************************************************)
EXTENDS Integers, Sequences, FiniteSets, Sums

CONSTANTS
    Passer,             \* processes: resume-quota of a timer, commands of a person
    Halt,              \* identities of blocks
    Tiers,              \* what classify may say of a block when it is first seen
    RoundCap, UnsolvableFrom,           \* of the tiers that have rounds
    DispatchFailures, MaxParks,
    OwnerDossiers, OwnerRounds, RenewRounds,
    PassRounds,                         \* rounds one pass may start
    MaxVerifyAttempts, MaxApplyAttempts, MaxApplies,
    MaxRaises, MaxUpsets, MaxRenewals   \* bounds

VARIABLES
    owner,      \* "run": one block at a time; "project": the blocks of its nodes
    standing,   \* the blocks that stand
    dossier,    \* what the rounds of a block wrote
    repair,     \* what measuring and applying its proposal wrote
    spec,       \* of the run: the text, the amendment chain, the digest in the state
    capped,     \* owner-cap.json
    worker,     \* every process: where it is, the blocks it read, the one in hand
    raises, upsets,
    cut             \* history: <<block, place>> of every amendment that was cut off there

ddVars == <<owner, standing, dossier, repair, spec, capped, worker, raises, upsets, cut>>
bounds == <<raises, upsets>>

Perspective == 1..2
\* What an answer amounts to: no valid report, or one that proposes a refuted path again; a
\* proposal with or without evidence; a certain claim of unsolvability; none of these.
Answer == {"invalid", "supported", "unsupported", "hopeless", "open"}
HasRounds == {"HARD", "RND"}

ASSUME DoubleDownAssumption ==
    /\ IsFiniteSet(Halt) /\ IsFiniteSet(Passer) /\ Passer # {} /\ "none" \notin Halt
    /\ Tiers \in [Halt -> SUBSET {"WAIT", "TRIVIAL", "HARD", "RND", "HUMAN"}]
    /\ RoundCap \in [HasRounds -> Nat \ {0}] /\ UnsolvableFrom \in [HasRounds -> Nat]
    /\ \A t \in HasRounds : UnsolvableFrom[t] <= RoundCap[t]
    /\ {DispatchFailures, MaxParks, OwnerDossiers, OwnerRounds, RenewRounds, PassRounds,
        MaxVerifyAttempts, MaxApplyAttempts, MaxApplies, MaxRaises, MaxUpsets, MaxRenewals}
       \subseteq Nat

\* No report yet, no failure: how every round starts.
Unasked == [p \in Perspective |-> "none"]
Unfailed == [p \in Perspective |-> 0]
\* History: touched, the run itself changed since the guard; sound, no verdict was taken
\* over such a change.
NewDossier == [open |-> FALSE, tier |-> "none", guard |-> "none", reports |-> Unasked,
               failures |-> Unfailed, rounds |-> 0, last |-> "none", park |-> "none",
               parks |-> 0, renewals |-> 0, outcome |-> "none",
               touched |-> FALSE, sound |-> TRUE]
NewRepair == [carries |-> "none", attempts |-> 0, verified |-> "none", proofs |-> 0,
              withheld |-> FALSE, applied |-> "none", reversed |-> FALSE]
Idle == [at |-> "idle", by |-> "none", todo |-> {}, seen |-> {}, block |-> "none",
         budget |-> 0]

DdInitOf(o) ==
    /\ owner = o /\ standing = {} /\ capped = FALSE
    /\ dossier = [b \in Halt |-> NewDossier] /\ repair = [b \in Halt |-> NewRepair]
    /\ spec = [text |-> 0, chain |-> <<>>, state |-> 0]
    /\ worker = [p \in Passer |-> Idle]
    /\ raises = 0 /\ upsets = 0 /\ cut = {}
DdInit == \E o \in {"run", "project"} : DdInitOf(o)

Upset == upsets < MaxUpsets /\ upsets' = upsets + 1
WorkerAt(p, where) == worker[p].at = where
Go(p, where) == worker' = [worker EXCEPT ![p].at = where]
Amending == {"texted", "chained", "amended", "untexted", "unchained", "reverted"}
Holding == {"holding", "asking", "judged", "measuring", "proving", "approved"} \cup Amending
Locked(b) == \E p \in Passer : worker[p].at \in Holding /\ worker[p].block = b
Driven == \E p \in Passer : worker[p].at \in Amending       \* the run's own lock is held
RepairVars == <<repair, spec, cut>>
World == <<owner, standing, raises>>

\* The fingerprint covers the owner's directory, every other dossier included, and skips
\* only the dossier it is taken for.
Moved(d) == IF d.guard = "same" THEN [d EXCEPT !.guard = "moved"] ELSE d
Files(b, d) ==
    dossier' = [c \in Halt |-> IF c = b THEN d ELSE Moved(dossier[c])]
\* What is written beside the rounds of b moves the guards of the others all the same.
FilesBeside(b) == Files(b, dossier[b])
RunTouched ==
    dossier' = [c \in Halt |-> IF dossier[c].guard = "none" THEN dossier[c]
                                ELSE [Moved(dossier[c]) EXCEPT !.touched = TRUE]]

-----------------------------------------------------------------------------
(* What ends a dossier, or holds it up                                      *)

Closed(d, outcome) == [d EXCEPT !.outcome = outcome]

\* A bound ends a dossier, but an R&D negative before its fifth round is parked.
Bounded(d) ==
    IF d.tier = "RND" /\ d.rounds < UnsolvableFrom["RND"]
    THEN [d EXCEPT !.park = "bound"] ELSE Closed(d, "ESCALATED")

Opened == {b \in Halt : dossier[b].open}
Rounds == [b \in Halt |-> dossier[b].rounds]
Grants == [b \in Halt |-> RenewRounds * dossier[b].renewals]
Allowance == OwnerRounds + Total(Grants, Halt)
Spent == Total(Rounds, Halt) >= Allowance

-----------------------------------------------------------------------------
(* double_down_pass, advance: one row per block that stood when it was read  *)

\* Blocks that wait within their bound are left out.
StartPass(p) ==
    /\ WorkerAt(p, "idle")
    /\ \E waiting \in SUBSET {b \in standing : "WAIT" \in Tiers[b]} :
         worker' = [worker EXCEPT ![p] = [at |-> "pass", by |-> "pass", seen |-> standing,
                        todo |-> standing \ waiting, block |-> "none", budget |-> PassRounds]]
    /\ UNCHANGED <<World, dossier, RepairVars, capped, bounds>>

\* What a worker holds when the row of its block is done.
RowDone(p, b) ==
    worker' = [worker EXCEPT ![p].at = "pass", ![p].todo = @ \ {b}, ![p].block = "none"]
\* A proposal is measured next.
Proposed(p, b) == worker' = [worker EXCEPT ![p].at = "proposed", ![p].block = b]

\* _open: the block as it was classified when it was first seen.
Open(p, b) ==
    /\ WorkerAt(p, "pass") /\ b \in worker[p].todo /\ ~dossier[b].open
    /\ IF Cardinality(Opened) >= OwnerDossiers
       THEN /\ RowDone(p, b) /\ capped' = TRUE
            /\ IF capped THEN dossier' = dossier ELSE FilesBeside(b)
       ELSE /\ \E t \in Tiers[b] : Files(b, [dossier[b] EXCEPT !.open = TRUE, !.tier = t])
            /\ UNCHANGED <<worker, capped>>
    /\ UNCHANGED <<World, RepairVars, bounds>>

\* The lock of the dossier is free, or this process has it since it resumed the dossier.
Has(p, b) ==
    /\ dossier[b].open
    /\ \/ WorkerAt(p, "pass") /\ b \in worker[p].todo /\ ~Locked(b)
       \/ WorkerAt(p, "holding") /\ worker[p].block = b

RowRefused(p, b) ==
    /\ WorkerAt(p, "pass") /\ b \in worker[p].todo /\ dossier[b].open /\ Locked(b)
    /\ RowDone(p, b)
    /\ UNCHANGED <<World, dossier, RepairVars, capped, bounds>>

RowClosed(p, b) ==
    /\ Has(p, b) /\ dossier[b].outcome # "none"
    /\ IF dossier[b].outcome = "PROPOSAL" THEN Proposed(p, b) ELSE RowDone(p, b)
    /\ UNCHANGED <<World, dossier, RepairVars, capped, bounds>>

\* A breach whose escalation was not written, and the tiers that have no rounds.
RowCloses(p, b) ==
    LET d == dossier[b] IN
    /\ Has(p, b) /\ d.outcome = "none"
    /\ \/ /\ d.last = "DISCARDED" /\ Files(b, Closed(d, "ESCALATED")) /\ RowDone(p, b)
       \/ /\ d.last # "DISCARDED"
          /\ \/ d.tier = "HUMAN" /\ Files(b, Closed(d, "HUMAN_ONLY")) /\ RowDone(p, b)
             \/ d.tier = "WAIT" /\ Files(b, Closed(d, "ESCALATED")) /\ RowDone(p, b)
             \/ d.tier = "TRIVIAL" /\ Files(b, Closed(d, "PROPOSAL")) /\ Proposed(p, b)
    /\ UNCHANGED <<World, RepairVars, capped, bounds>>

Analysed(p, b) ==
    /\ Has(p, b) /\ dossier[b].outcome = "none" /\ dossier[b].last # "DISCARDED"
    /\ dossier[b].tier \in HasRounds

\* A bound waits for a person; a provider park also for the sentinel and its least time.
RowParked(p, b) ==
    /\ Analysed(p, b) /\ dossier[b].park # "none" /\ RowDone(p, b)
    /\ UNCHANGED <<World, dossier, RepairVars, capped, bounds>>
ResumeRounds(p, b) ==
    /\ Analysed(p, b) /\ dossier[b].park = "provider"
    /\ Files(b, [dossier[b] EXCEPT !.park = "none", !.failures = Unfailed])
    /\ worker' = [worker EXCEPT ![p].at = "holding", ![p].block = b]
    /\ UNCHANGED <<World, RepairVars, capped, bounds>>

\* The rounds of the block, or of its owner, are spent.
RowSpent(p, b) ==
    LET d == dossier[b] IN
    /\ Analysed(p, b) /\ d.park = "none" /\ RowDone(p, b)
    /\ IF d.rounds >= RoundCap[d.tier] THEN Files(b, Closed(d, "ESCALATED"))
       ELSE Spent /\ Files(b, Bounded(d))
    /\ UNCHANGED <<World, RepairVars, capped, bounds>>

MayRun(p, b) ==
    /\ Analysed(p, b) /\ dossier[b].park = "none"
    /\ dossier[b].rounds < RoundCap[dossier[b].tier] /\ ~Spent
\* No budget, no analysts, or analysts that cannot be confined or admitted.
RowWaits(p, b) ==
    /\ MayRun(p, b) /\ RowDone(p, b)
    /\ UNCHANGED <<World, dossier, RepairVars, capped, bounds>>

-----------------------------------------------------------------------------
(* _run_round                                                               *)

Missing(b) == {r \in Perspective : dossier[b].reports[r] = "none"}
Least(S) == CHOOSE r \in S : \A q \in S : r <= q

GuardAnew(d) == "same"                          \* Mutant: taken again by every pass
\* The guard is taken before the first dispatch of the round, and never again.
GuardOf(d) == IF d.guard = "none" THEN "same" ELSE d.guard
StartRound(p, b) ==
    LET d == dossier[b] IN
    /\ MayRun(p, b) /\ worker[p].budget > 0
    /\ Files(b, IF Missing(b) = {} THEN d ELSE [d EXCEPT !.guard = GuardOf(d)])
    /\ worker' = [worker EXCEPT ![p].at = "asking", ![p].block = b,
                     ![p].budget = IF Missing(b) = {} THEN @ ELSE @ - 1]
    /\ UNCHANGED <<World, RepairVars, capped, bounds>>

Reports(p, a) ==
    LET b == worker[p].block IN
    /\ WorkerAt(p, "asking") /\ Missing(b) # {}
    /\ Files(b, [dossier[b] EXCEPT !.reports[Least(Missing(b))] = a])
    /\ UNCHANGED <<World, RepairVars, capped, worker, bounds>>

\* A failed dispatch ends the row; enough of one analyst's failures park the dossier.
DispatchFails(p) ==
    LET b == worker[p].block
        d == dossier[b]
        r == Least(Missing(b))
        failed == [d EXCEPT !.failures[r] = @ + 1]
    IN
    /\ WorkerAt(p, "asking") /\ Missing(b) # {} /\ Upset /\ RowDone(p, b)
    /\ Files(b, IF failed.failures[r] < DispatchFailures THEN failed
                ELSE IF d.parks >= MaxParks THEN Bounded(failed)
                ELSE [failed EXCEPT !.park = "provider", !.parks = @ + 1])
    /\ UNCHANGED <<World, RepairVars, capped, raises>>

\* judge: a round that is INVALID goes on as well.
JudgeReports(round, tier, said) ==
    LET all(S) == \A r \in Perspective : said[r] \in S
        some(S) == \E r \in Perspective : said[r] \in S
    IN  IF all({"supported", "open"}) /\ some({"supported"}) THEN "FRUITFUL"
        ELSE IF all({"hopeless"}) /\ round >= UnsolvableFrom[tier] THEN "UNSOLVABLE"
        ELSE "CONTINUE"
JudgeRound(p) ==
    LET b == worker[p].block
        d == dossier[b]
        verdict == IF d.guard = "moved" THEN "DISCARDED"
                   ELSE JudgeReports(d.rounds + 1, d.tier, d.reports)
    IN
    /\ WorkerAt(p, "asking") /\ Missing(b) = {}
    /\ Files(b, [d EXCEPT !.rounds = @ + 1, !.last = verdict, !.guard = "none",
                          !.reports = Unasked, !.failures = Unfailed, !.touched = FALSE,
                          !.sound = @ /\ (d.touched => verdict = "DISCARDED")])
    /\ Go(p, "judged")
    /\ UNCHANGED <<World, RepairVars, capped, bounds>>

\* The round is on file; its consequence is a second record.
Conclude(p) ==
    LET b == worker[p].block
        d == dossier[b]
    IN
    /\ WorkerAt(p, "judged")
    /\ \/ /\ d.last = "FRUITFUL" /\ Files(b, Closed(d, "PROPOSAL")) /\ Proposed(p, b)
          /\ \E what \in {"note", "spec", "fix"} : repair' = [repair EXCEPT ![b].carries = what]
       \/ /\ d.last \in {"DISCARDED", "UNSOLVABLE"} \/ d.rounds >= RoundCap[d.tier]
          /\ d.last # "FRUITFUL"
          /\ Files(b, Closed(d, "ESCALATED")) /\ RowDone(p, b) /\ UNCHANGED repair
       \/ /\ d.last = "CONTINUE" /\ d.rounds < RoundCap[d.tier]
          /\ RowDone(p, b) /\ UNCHANGED <<dossier, repair>>
    /\ UNCHANGED <<World, spec, capped, bounds, cut>>

\* _obsolete: open dossiers of blocks that were not among those the pass read.
Sweep(p) ==
    /\ WorkerAt(p, "pass") /\ worker[p].todo = {}
    /\ LET gone == {b \in Opened \ worker[p].seen : dossier[b].outcome = "none" /\ ~Locked(b)}
       IN dossier' = [b \in Halt |-> IF b \in gone THEN Closed(dossier[b], "OBSOLETE")
                                      ELSE IF gone # {} THEN Moved(dossier[b]) ELSE dossier[b]]
    /\ worker' = [worker EXCEPT ![p] = Idle]
    /\ UNCHANGED <<World, RepairVars, capped, bounds>>

-----------------------------------------------------------------------------
(* ddverify: a proposal's repair spec is measured on a scratch copy         *)

Returns(p) ==
    IF worker[p].by = "pass" THEN RowDone(p, worker[p].block)
    ELSE worker' = [worker EXCEPT ![p] = Idle]
Verified(b, status) ==
    /\ repair' = [repair EXCEPT ![b].verified = status] /\ FilesBeside(b)

PersonVerifies(p, b) ==
    /\ WorkerAt(p, "idle")
    /\ dossier[b].outcome = "PROPOSAL"
    /\ worker' = [worker EXCEPT ![p] = [Idle EXCEPT !.at = "proposed", !.by = "person",
                                                    !.block = b]]
    /\ UNCHANGED <<World, dossier, RepairVars, capped, bounds>>

Verifiable(b) ==
    repair[b].verified = "none" /\ repair[b].carries \in {"spec", "fix"} /\ ~Locked(b)

\* The attempt is on file before anything is measured.
VerifySpec(p) ==
    LET b == worker[p].block IN
    /\ WorkerAt(p, "proposed") /\ Verifiable(b)
    /\ IF repair[b].attempts >= MaxVerifyAttempts
       THEN Verified(b, "INCONCLUSIVE") /\ Go(p, "verified")
       ELSE \/ Verified(b, "REFUTED") /\ Go(p, "verified")      \* no criteria it can declare
            \/ /\ repair' = [repair EXCEPT ![b].attempts = @ + 1] /\ FilesBeside(b)
               /\ Go(p, "measuring")
    /\ UNCHANGED <<World, spec, capped, bounds, cut>>
\* Nothing to verify, not due, no workspace, or the pass has verified enough.
SkipVerify(p) ==
    /\ WorkerAt(p, "proposed")
    /\ Go(p, "verified") /\ UNCHANGED <<World, dossier, RepairVars, capped, bounds>>

MeasureSpec(p, status) ==
    LET b == worker[p].block IN
    /\ WorkerAt(p, "measuring") /\ Go(p, "verified")
    /\ IF status = "INCONCLUSIVE" /\ repair[b].attempts < MaxVerifyAttempts
       THEN FilesBeside(b) /\ UNCHANGED repair
       ELSE Verified(b, status)
    /\ UNCHANGED <<World, spec, capped, bounds, cut>>

-----------------------------------------------------------------------------
(* ddapply: a verified fix waits for a person, is proven and applied         *)

Appliable(b) ==
    /\ repair[b].verified = "RED" /\ repair[b].carries = "fix" /\ owner = "run"
    /\ repair[b].applied = "none" /\ ~Locked(b)
Decided(b, status) ==
    /\ repair' = [repair EXCEPT ![b].applied = status] /\ FilesBeside(b)
Corrections == {n \in DOMAIN spec.chain : spec.chain[n].kind = "apply"}

\* apply_if_due: the pass declines what no person could apply, or withholds; once.
ApplyIfDue(p) ==
    LET b == worker[p].block IN
    /\ WorkerAt(p, "verified") /\ Returns(p)
    /\ IF /\ worker[p].by = "pass" /\ Appliable(b) /\ ~repair[b].withheld
          /\ b \in standing
       THEN \/ Decided(b, "NOT_APPLIED")
            \/ /\ Cardinality(Corrections) < MaxApplies /\ FilesBeside(b)
               /\ repair' = [repair EXCEPT ![b].withheld = TRUE]
            \/ UNCHANGED <<dossier, repair>>               \* refused, or unrecorded
       ELSE UNCHANGED <<dossier, repair>>
    /\ UNCHANGED <<World, spec, capped, bounds, cut>>

\* hoh double-down apply --approved-by: proven first.
PersonApplies(p, b) ==
    /\ WorkerAt(p, "idle")
    /\ Appliable(b) /\ b \in standing
    /\ \/ Decided(b, "NOT_APPLIED") /\ UNCHANGED worker       \* the fix, or the candidate moved
       \/ /\ Cardinality(Corrections) < MaxApplies
          /\ IF repair[b].proofs >= MaxApplyAttempts
             THEN Decided(b, "NOT_APPLIED") /\ UNCHANGED worker
             ELSE /\ repair' = [repair EXCEPT ![b].proofs = @ + 1] /\ FilesBeside(b)
                  /\ worker' = [worker EXCEPT ![p] = [Idle EXCEPT !.at = "proving",
                                    !.by = "person", !.block = b]]
    /\ UNCHANGED <<World, spec, capped, bounds, cut>>

Prove(p, proof) ==
    LET b == worker[p].block IN
    /\ WorkerAt(p, "proving")
    /\ \/ proof = "PROVEN" /\ Go(p, "approved") /\ UNCHANGED <<dossier, repair>>
       \/ /\ proof # "PROVEN" /\ Returns(p)
          /\ IF proof = "INCONCLUSIVE" /\ repair[b].proofs < MaxApplyAttempts
             THEN UNCHANGED <<dossier, repair>> ELSE Decided(b, "NOT_APPLIED")
    /\ UNCHANGED <<World, spec, capped, bounds, cut>>

\* _amend_and_unblock, under the lock of the run: the block and the text are looked at again.
Current == IF spec.chain = <<>> THEN 0 ELSE spec.chain[Len(spec.chain)].to
Consistent == spec.text = spec.state /\ Current = spec.state
MeantBefore(b) == b \in standing                \* Mutant: whatever the text has become
StillMeant(b) == b \in standing /\ Consistent
Amend(p) ==
    LET b == worker[p].block IN
    /\ WorkerAt(p, "approved") /\ ~Driven
    /\ IF StillMeant(b)
       THEN /\ spec' = [spec EXCEPT !.text = Len(spec.chain) + 1] /\ RunTouched
            /\ Go(p, "texted") /\ UNCHANGED repair
       ELSE Decided(b, "NOT_APPLIED") /\ Returns(p) /\ UNCHANGED spec
    /\ UNCHANGED <<World, capped, bounds, cut>>

\* A driver holds the run, its lock is busy, or the approval could not be recorded.
AmendRefused(p) ==
    /\ WorkerAt(p, "approved") /\ Returns(p)
    /\ UNCHANGED <<World, dossier, RepairVars, capped, bounds>>

Entry(b, kind) == [block |-> b, kind |-> kind, from |-> Current, to |-> spec.text]
InChain(b, kind) == \E n \in DOMAIN spec.chain :
    spec.chain[n].block = b /\ spec.chain[n].kind = kind
CutOff(p) == cut' = cut \cup {<<worker[p].block, worker[p].at>>}
\* A second amendment of one name is refused, after the text was replaced.
Chain(p) ==
    LET b == worker[p].block IN
    /\ WorkerAt(p, "texted")
    /\ IF InChain(b, "apply") THEN Returns(p) /\ CutOff(p) /\ UNCHANGED <<dossier, spec>>
       ELSE /\ spec' = [spec EXCEPT !.chain = Append(@, Entry(b, "apply"))]
            /\ RunTouched /\ Go(p, "chained") /\ UNCHANGED cut
    /\ UNCHANGED <<World, repair, capped, bounds>>
LiftAmended(p) ==
    LET b == worker[p].block IN
    /\ WorkerAt(p, "chained")
    /\ spec' = [spec EXCEPT !.state = spec.text] /\ standing' = standing \ {b}
    /\ RunTouched /\ Go(p, "amended")
    /\ UNCHANGED <<owner, raises, repair, capped, bounds, cut>>
Applied(p) ==
    /\ WorkerAt(p, "amended") /\ Decided(worker[p].block, "APPLIED") /\ Returns(p)
    /\ UNCHANGED <<World, spec, capped, bounds, cut>>

\* revert: the superseded text comes back; the last amendment must be this one.
Revertible(b) ==
    /\ repair[b].applied = "APPLIED" /\ ~repair[b].reversed /\ ~Locked(b) /\ Consistent
    /\ spec.chain # <<>>
    /\ LET last == spec.chain[Len(spec.chain)] IN last.block = b /\ last.kind = "apply"
Revert(p, b) ==
    /\ WorkerAt(p, "idle")
    /\ Revertible(b) /\ ~Driven
    /\ spec' = [spec EXCEPT !.text = spec.chain[Len(spec.chain)].from] /\ RunTouched
    /\ worker' = [worker EXCEPT ![p] = [Idle EXCEPT !.at = "untexted", !.by = "person",
                                                    !.block = b]]
    /\ UNCHANGED <<World, repair, capped, bounds, cut>>
Unchain(p) ==
    LET b == worker[p].block IN
    /\ WorkerAt(p, "untexted") /\ RunTouched /\ Go(p, "unchained")
    /\ spec' = [spec EXCEPT !.chain = Append(@, Entry(b, "revert"))]
    /\ UNCHANGED <<World, repair, capped, bounds, cut>>
StateReverted(p) ==
    /\ WorkerAt(p, "unchained") /\ RunTouched /\ Go(p, "reverted")
    /\ spec' = [spec EXCEPT !.state = spec.text]
    /\ UNCHANGED <<World, repair, capped, bounds, cut>>
Reverted(p) ==
    LET b == worker[p].block IN
    /\ WorkerAt(p, "reverted") /\ Returns(p) /\ FilesBeside(b)
    /\ repair' = [repair EXCEPT ![b].reversed = TRUE]
    /\ UNCHANGED <<World, spec, capped, bounds, cut>>

\* A write fails, of the chain, the state or the record of what was decided: `refused` or
\* `unrecorded`.  The process goes on, the lock is free, what was written before stays.
WriteFails(p) ==
    /\ worker[p].at \in {"proving"} \cup Amending /\ Upset /\ Returns(p)
    /\ IF WorkerAt(p, "proving") THEN UNCHANGED cut ELSE CutOff(p)
    /\ RunTouched \/ UNCHANGED dossier
    /\ UNCHANGED <<World, repair, spec, capped, raises>>

-----------------------------------------------------------------------------
(* A person, the owner and its driver, crashes                              *)

\* renew_bound
Renew(b) ==
    LET d == dossier[b] IN
    /\ d.open /\ d.outcome = "none" /\ d.park = "bound" /\ ~Locked(b)
    /\ d.renewals < MaxRenewals
    /\ Files(b, [d EXCEPT !.park = "none", !.parks = 0, !.renewals = @ + 1,
                          !.failures = Unfailed])
    /\ UNCHANGED <<World, RepairVars, capped, worker, bounds>>

Stands(b) ==
    /\ ~Driven /\ b \notin standing /\ raises < MaxRaises
    /\ owner = "run" => standing = {}
    /\ standing' = standing \cup {b} /\ raises' = raises + 1 /\ RunTouched
    /\ UNCHANGED <<owner, RepairVars, capped, worker, upsets>>
Clears(b) ==
    /\ ~Driven /\ b \in standing /\ standing' = standing \ {b} /\ RunTouched
    /\ UNCHANGED <<owner, raises, RepairVars, capped, worker, bounds>>

Dies(p) ==
    /\ ~WorkerAt(p, "idle") /\ Upset
    /\ worker' = [worker EXCEPT ![p] = Idle]
    /\ IF worker[p].at \in Amending THEN CutOff(p) ELSE UNCHANGED cut
    /\ UNCHANGED <<World, dossier, repair, spec, capped, raises>>

PassStep(p) ==
    \/ StartPass(p) \/ Sweep(p)
    \/ \E b \in Halt :
         \/ Open(p, b) \/ RowRefused(p, b) \/ RowClosed(p, b) \/ RowCloses(p, b)
         \/ RowParked(p, b) \/ ResumeRounds(p, b) \/ RowSpent(p, b) \/ RowWaits(p, b)
         \/ StartRound(p, b)
    \/ \E a \in Answer : Reports(p, a)
    \/ DispatchFails(p) \/ JudgeRound(p) \/ Conclude(p)
RepairStep(p) ==
    \/ \E b \in Halt : PersonVerifies(p, b) \/ PersonApplies(p, b) \/ Revert(p, b)
    \/ VerifySpec(p) \/ SkipVerify(p) \/ ApplyIfDue(p)
    \/ \E status \in {"RED", "REFUTED", "INCONCLUSIVE"} : MeasureSpec(p, status)
    \/ \E proof \in {"PROVEN", "NOT_PROVEN", "INCONCLUSIVE"} : Prove(p, proof)
    \/ Amend(p) \/ AmendRefused(p) \/ Chain(p) \/ LiftAmended(p) \/ Applied(p)
    \/ Unchain(p) \/ StateReverted(p) \/ Reverted(p) \/ WriteFails(p)
DdNext ==
    \/ \E p \in Passer : PassStep(p) \/ RepairStep(p) \/ Dies(p)
    \/ \E b \in Halt : Renew(b) \/ Stands(b) \/ Clears(b)
DdSpec == DdInit /\ [][DdNext]_ddVars

-----------------------------------------------------------------------------
(* Properties                                                               *)

\* No verdict of a round is taken over a change of the run since the round's first dispatch,
\* however many passes and crashes the round took (_run_round's guard).
VerdictsAreClean == \A b \in Halt : dossier[b].sound

\* An R&D negative is never given up before its fifth round, by no bound and no claim,
\* unless the run changed under the analysts; and nothing is unsolvable before the round
\* its tier says (_bound, judge).
NoEarlyEnd == \A b \in Halt :
    LET d == dossier[b] IN
    /\ d.outcome = "ESCALATED" /\ d.tier = "RND" =>
         d.last = "DISCARDED" \/ d.rounds >= UnsolvableFrom["RND"]
    /\ d.last = "UNSOLVABLE" => d.rounds >= UnsolvableFrom[d.tier]

\* The rounds of an owner stay within its allowance and what persons granted, but for the
\* rounds other processes had begun when the last was admitted (_owner_usage).
RoundsAreBounded == Total(Rounds, Halt) <= Allowance + Cardinality(Passer) - 1

\* What the rounds of the double-down owe to their owner (doubledown.py).
VerdictsAreEarned == VerdictsAreClean /\ NoEarlyEnd /\ RoundsAreBounded

\* Where amendments of b were cut off, by a death, a failed write or a refusal.
CutAt(b, places) == \E a \in places : <<b, a>> \in cut

\* Text, chain and state are replaced in this order, one amendment at a time: the state names
\* what the chain ends in, or the chain is one amendment ahead and ends in the text.  Nothing
\* is amended over a half amendment.  When nobody amends, what differs was cut off there: the
\* text before the chain was written, or the chain before the state (_amend_and_unblock,
\* revert).
SpecInOrder ==
    \/ spec.state = Current
    \/ /\ spec.text = Current /\ spec.chain # <<>>
       /\ spec.state = spec.chain[Len(spec.chain)].from
SpecIsAccounted ==
    /\ SpecInOrder
    /\ ~Driven => /\ spec.text # Current => \E b \in Halt : CutAt(b, {"texted", "untexted"})
                  /\ spec.state # Current => \E b \in Halt : CutAt(b, {"chained", "unchained"})

\* What is recorded as applied is in the chain, measured red and proven, by attempts within
\* their bounds, and what is recorded as reverted was; what is recorded as not applied is not
\* in the chain, but for a correction of this very block that was cut off behind the chain.
ApplicationsAreTrue == \A b \in Halt :
    LET r == repair[b] IN
    /\ r.applied = "APPLIED" => InChain(b, "apply") /\ r.verified = "RED" /\ r.proofs > 0
    /\ r.applied # "APPLIED" /\ InChain(b, "apply") =>
          \/ CutAt(b, {"chained", "amended"})
          \/ \E p \in Passer : worker[p].at \in {"chained", "amended"} /\ worker[p].block = b
    /\ r.reversed => InChain(b, "revert")
    /\ r.proofs <= MaxApplyAttempts /\ r.attempts <= MaxVerifyAttempts

\* A correction lifts a block that stands: nobody cleared it since the amendment began.
LiftsWhatStands == \A p \in Passer :
    worker[p].at \in {"texted", "chained"} => worker[p].block \in standing

\* What the specification of a run owes to its corrections (ddapply.py, ddverify.py).
FixesAreEarned == SpecIsAccounted /\ ApplicationsAreTrue /\ LiftsWhatStands
-----------------------------------------------------------------------------
(* Why they hold: an invariant that every step keeps                        *)

DossierRecord ==
    [open : BOOLEAN, tier : {"none", "WAIT", "TRIVIAL", "HARD", "RND", "HUMAN"},
     guard : {"none", "same", "moved"}, reports : [Perspective -> {"none"} \cup Answer],
     failures : [Perspective -> Nat], rounds : Nat,
     last : {"none", "DISCARDED", "FRUITFUL", "UNSOLVABLE", "CONTINUE"},
     park : {"none", "bound", "provider"}, parks : Nat, renewals : Nat,
     outcome : {"none", "ESCALATED", "HUMAN_ONLY", "PROPOSAL", "OBSOLETE"},
     touched : BOOLEAN, sound : BOOLEAN]
RepairRecord ==
    [carries : {"none", "note", "spec", "fix"}, attempts : Nat,
     verified : {"none", "RED", "REFUTED", "INCONCLUSIVE"}, proofs : Nat, withheld : BOOLEAN,
     applied : {"none", "NOT_APPLIED", "APPLIED"}, reversed : BOOLEAN]
EntryRecord == [block : Halt, kind : {"apply", "revert"}, from : Nat, to : Nat]
WorkerRecord ==
    [at : {"idle", "pass", "proposed", "verified"} \cup Holding, by : {"none", "pass", "person"},
     todo : SUBSET Halt, seen : SUBSET Halt, block : Halt \cup {"none"}, budget : Nat]
DdTypeOK ==
    /\ owner \in {"run", "project"} /\ standing \subseteq Halt /\ capped \in BOOLEAN
    /\ dossier \in [Halt -> DossierRecord] /\ repair \in [Halt -> RepairRecord]
    /\ spec \in [text : Nat, chain : Seq(EntryRecord), state : Nat]
    /\ worker \in [Passer -> WorkerRecord]
    /\ raises \in Nat /\ upsets \in Nat /\ cut \subseteq Halt \X Amending

\* A dossier is worked on by one process, and only one amends.
Works(w) == w.at \in Holding
LockInv ==
    /\ \A p \in Passer : worker[p].at \notin {"idle", "pass"} => worker[p].block \in Halt
    /\ \A p, q \in Passer :
          Works(worker[p]) /\ Works(worker[q]) /\ worker[p].block = worker[q].block => p = q
    /\ \A p, q \in Passer : worker[p].at \in Amending /\ worker[q].at \in Amending => p = q

\* What is in a dossier, and what is in it while rounds are under way.
DossierIsFair(d) ==
    /\ d.sound /\ (d.touched => d.guard = "moved")
    /\ ~d.open => d.outcome = "none" /\ d.last = "none"
    /\ d.outcome = "ESCALATED" /\ d.tier = "RND" =>
         d.last = "DISCARDED" \/ d.rounds >= UnsolvableFrom["RND"]
    /\ d.last = "UNSOLVABLE" => d.rounds >= UnsolvableFrom[d.tier]
InRounds == {"holding", "asking", "judged"}
Analyses(at, d) ==
    at \in InRounds => /\ d.open /\ d.outcome = "none" /\ d.tier \in HasRounds
                       /\ at # "judged" => d.last # "DISCARDED"
Asking == {p \in Passer : WorkerAt(p, "asking")}
VerdictInv ==
    /\ \A b \in Halt : DossierIsFair(dossier[b])
    /\ \A p \in Passer : worker[p].at \in InRounds =>
                             Analyses(worker[p].at, dossier[worker[p].block])
    /\ Total(Rounds, Halt) + Cardinality(Asking) <= Allowance + Cardinality(Passer) - 1

\* What an amendment has done so far.
Proving == {"proving", "approved", "texted"}
Recording == {"chained", "amended"}
Amends(at, b) ==
    /\ at \in {"texted", "untexted"} => Current = spec.state
    /\ at \in {"chained", "unchained"} => Current = spec.text
    /\ at \in {"amended", "reverted"} => Consistent
    /\ at \in {"unchained", "reverted"} => InChain(b, "revert")
    /\ at \in Recording => InChain(b, "apply")
    /\ at \in Proving \cup Recording =>
          repair[b].applied = "none" /\ repair[b].verified = "RED" /\ repair[b].proofs > 0
    /\ at = "measuring" => repair[b].verified = "none"
RepairIsTrue(b) ==
    LET r == repair[b] IN
    /\ r.applied = "APPLIED" => InChain(b, "apply") /\ r.verified = "RED" /\ r.proofs > 0
    /\ r.applied # "APPLIED" /\ InChain(b, "apply") =>
          \/ CutAt(b, Recording)
          \/ \E p \in Passer : worker[p].at \in Recording /\ worker[p].block = b
    /\ r.reversed => InChain(b, "revert")
    /\ r.proofs <= MaxApplyAttempts /\ r.attempts <= MaxVerifyAttempts
FixInv ==
    /\ LiftsWhatStands /\ SpecIsAccounted
    /\ \A p \in Passer : Amends(worker[p].at, worker[p].block)
    /\ \A b \in Halt : RepairIsTrue(b)
DdInv == DdTypeOK /\ LockInv /\ VerdictInv /\ FixInv
=============================================================================
