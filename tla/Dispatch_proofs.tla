--------------------------- MODULE Dispatch_proofs ---------------------------
(***************************************************************************)
(* Proofs about what a controller does around a role: one dispatch of it   *)
(* (Dispatch), and the admission to storage before it (Admission).         *)
(* DispInv (Dispatch.tla) says for every place the process of the run can  *)
(* be in which panes are its own, what stands in them and which prompt     *)
(* their agent works for.  It is kept by steps that leave the panes alone  *)
(* (StayKeeps, LetGoKeeps, MarkKeeps, RaisedKeeps, MoveKeeps, TakeKeeps),  *)
(* by what the world does to one pane (WorldKeeps), by a process that has  *)
(* no agent (WithoutAgentKeeps) and by a prompt that reaches the pane of   *)
(* the agent (TargetKeeps); each action of the module is one of these.     *)
(* AdmInv (Admission.tla) says what is gone from the host since it was     *)
(* last seen, and in whose name the live reservations stand; a step leaves *)
(* the holders alone (CoveredStays, KnownStays), takes one away            *)
(* (LeaveCovers), lets one write (WriteCovers) or adds one (AdmitCovers).  *)
(***************************************************************************)
EXTENDS Dispatch, Admission, Sums_proofs, SequenceTheorems, TLAPS

-----------------------------------------------------------------------------
(* What is written is of its type                                          *)

LEMMA MemFields ==
    ASSUME NEW r \in MemRecord
    PROVE  /\ \A x \in Pane \cup {NoPane} : /\ [r EXCEPT !.agent = x] \in MemRecord
                                            /\ [r EXCEPT !.role = x] \in MemRecord
                                            /\ [r EXCEPT !.adopted = x] \in MemRecord
           /\ \A S \in SUBSET Pane : [r EXCEPT !.own = S] \in MemRecord
              /\ [r EXCEPT !.kept = S] \in MemRecord
           /\ \A t \in Text \cup {"restored"} : [r EXCEPT !.mark = t] \in MemRecord
           /\ \A t \in Text : [r EXCEPT !.stall = t] \in MemRecord
           /\ \A b \in BOOLEAN : [r EXCEPT !.new = b] \in MemRecord
              /\ [r EXCEPT !.restless = b] \in MemRecord
BY SMT DEF MemRecord
LEMMA CtlFields ==
    ASSUME NEW r \in CtlRecord
    PROVE  /\ \A x \in DispPcs : [r EXCEPT !.pc = x] \in CtlRecord
           /\ \A t \in Prompts \cup {NoText} : [r EXCEPT !.text = t] \in CtlRecord
           /\ \A n \in Nat : [r EXCEPT !.tries = n] \in CtlRecord
           /\ \A b \in BOOLEAN : /\ [r EXCEPT !.followed = b] \in CtlRecord
                                 /\ [r EXCEPT !.mended = b] \in CtlRecord
                                 /\ [r EXCEPT !.replacing = b] \in CtlRecord
                                 /\ [r EXCEPT !.had = b] \in CtlRecord
           /\ \A w \in {"no", "may", "yes"} : [r EXCEPT !.waiting = w] \in CtlRecord
           /\ \A t \in Text : [r EXCEPT !.got = t] \in CtlRecord
BY SMT DEF CtlRecord
LEMMA PaneFields ==
    ASSUME NEW r \in PaneRecord
    PROVE  /\ \A x \in {"new", "run", "elsewhere", "gone"} : [r EXCEPT !.at = x] \in PaneRecord
           /\ \A x \in {"none", "idle", "working", "blocked", "dead"} :
                  [r EXCEPT !.agent = x] \in PaneRecord
           /\ \A s \in Seq(Text) : [r EXCEPT !.box = s] \in PaneRecord
           /\ \A t \in Text : [r EXCEPT !.job = t] \in PaneRecord
           /\ \A b \in BOOLEAN : [r EXCEPT !.owes = b] \in PaneRecord
BY SMT DEF PaneRecord
LEMMA EmptyMemIs == EmptyMem \in MemRecord
BY SMT DEF EmptyMem, MemRecord, Text, NoPane, NoText
LEMMA NoWorkIs == NoWork \in CtlRecord
BY SMT DEF NoWork, CtlRecord, DispPcs, Prompts, Text, NoText

-----------------------------------------------------------------------------
(* What becomes of the process and of its memory                           *)

SameCtl == /\ ctl'.text = ctl.text /\ ctl'.had = ctl.had /\ ctl'.replacing = ctl.replacing
           /\ ctl'.got = ctl.got /\ ctl'.mended = ctl.mended
LEMMA GoesTo ==
    ASSUME DispTypeOK, NEW x \in DispPcs, To(x)
    PROVE  ctl' \in CtlRecord /\ ctl'.pc = x /\ SameCtl
<1>1. ctl' \in CtlRecord
    BY CtlFields DEF DispTypeOK, To
<1>. QED BY <1>1, SMT DEF DispTypeOK, CtlRecord, To, SameCtl

SameMem(m, n) == /\ n.agent = m.agent /\ n.role = m.role /\ n.adopted = m.adopted
                    /\ n.mark = m.mark
                 /\ n.new = m.new /\ n.restless = m.restless
LEMMA KeepOpenIs ==
    ASSUME NEW m \in MemRecord
    PROVE  KeepOpen(m) \in MemRecord /\ SameMem(m, KeepOpen(m))
<1>1. m.kept \cup ({m.role} \ {NoPane}) \in SUBSET Pane
    BY SMT DEF MemRecord
<1>2. KeepOpen(m) \in MemRecord
    BY <1>1, MemFields, Zenon DEF KeepOpen
<1>. QED BY <1>2, SMT DEF KeepOpen, SameMem, MemRecord
LEMMA StallIs ==
    ASSUME NEW m \in MemRecord, NEW t \in Text
    PROVE  [m EXCEPT !.stall = t] \in MemRecord /\ SameMem(m, [m EXCEPT !.stall = t])
<1>1. [m EXCEPT !.stall = t] \in MemRecord
    BY MemFields
<1>. QED BY <1>1, SMT DEF SameMem, MemRecord

\* What the dispatcher raises ends the dispatch, is tried again, or is followed up.
LEMMA RaisedDoes ==
    ASSUME DispTypeOK, NEW m \in MemRecord, NEW err, Raised(err, m)
    PROVE  /\ mem' \in MemRecord /\ SameMem(m, mem')
           /\ ctl' \in CtlRecord /\ SameCtl /\ ctl'.pc \in {"follow", "charge", "idle"}
           /\ ctl'.pc = "follow" => err = "missing"
<1>1. mem' \in MemRecord /\ SameMem(m, mem')
    BY KeepOpenIs DEF Raised, SameMem
<1>2. CASE ctl' = [ctl EXCEPT !.pc = "follow", !.followed = TRUE] /\ err = "missing"
  <2>1. [ctl EXCEPT !.pc = "follow"] \in CtlRecord
      BY CtlFields DEF DispTypeOK, DispPcs, TurnEnded
  <2>2. ctl' \in CtlRecord
      BY <1>2, <2>1, CtlFields, Zenon
  <2>. QED BY <1>1, <1>2, <2>2, SMT DEF DispTypeOK, CtlRecord, SameCtl
<1>3. CASE ctl' = [ctl EXCEPT !.pc = "charge", !.tries = @ + 1]
  <2>1. [ctl EXCEPT !.pc = "charge"] \in CtlRecord /\ ctl.tries + 1 \in Nat
      BY CtlFields, SMT DEF DispTypeOK, DispPcs, CtlRecord
  <2>2. ctl' \in CtlRecord
      BY <1>3, <2>1, CtlFields, Zenon
  <2>. QED BY <1>1, <1>3, <2>2, SMT DEF DispTypeOK, CtlRecord, SameCtl
<1>4. CASE ctl' = [ctl EXCEPT !.pc = "idle", !.waiting = Waits(err)]
  <2>1. [ctl EXCEPT !.pc = "idle"] \in CtlRecord
      BY CtlFields DEF DispTypeOK, DispPcs
  <2>2. Waits(err) \in {"no", "may", "yes"}
      BY Zenon DEF Waits
  <2>3. ctl' \in CtlRecord
      BY <1>4, <2>1, <2>2, CtlFields, Zenon
  <2>. QED BY <1>1, <1>4, <2>3, SMT DEF DispTypeOK, CtlRecord, SameCtl
<1>. QED BY <1>2, <1>3, <1>4, Zenon DEF Raised

\* An agent that is let go of is at rest, or the process remembers that it is not.
LEMMA LetGoIs ==
    ASSUME NEW m \in MemRecord, NotAtRest \in BOOLEAN
    PROVE  /\ LetGo(m) \in MemRecord /\ LetGo(m).mark = NoText /\ LetGo(m).restless = NotAtRest
           /\ LetGo(m).agent = m.agent /\ LetGo(m).role = m.role /\ LetGo(m).adopted = m.adopted
           /\ LetGo(m).new = m.new
<1>1. [m EXCEPT !.mark = NoText] \in MemRecord
    BY MemFields DEF Text
<1>2. LetGo(m) \in MemRecord
    BY <1>1, MemFields, Zenon DEF LetGo
<1>. QED BY <1>2, SMT DEF LetGo, MemRecord

-----------------------------------------------------------------------------
(* Steps that leave the panes alone                                        *)

Busy == {"turn", "nudged", "confirm", "await"} \cup TurnEnded
PanesRest == /\ UNCHANGED <<pane, answer, marker>>
             /\ registered' \subseteq Pane /\ charged' \in Nat /\ sent' \in Nat

LEMMA PanesStay ==
    ASSUME DispInv, PanesRest, mem' \in MemRecord, ctl' \in CtlRecord,
           mem'.agent = mem.agent, mem'.role = mem.role, mem'.adopted = mem.adopted
    PROVE  DispTypeOK' /\ PanesInv'
<1>1. DispTypeOK'
    BY Zenon DEF DispInv, DispTypeOK, PanesRest
<1>2. \A p \in Pane : Stranger(p)' = Stranger(p)
    BY Zenon DEF Stranger, PanesRest
<1>3. Holder' = Holder
    BY Zenon DEF Holder, PanesRest
<1>4. PanesInv'
    BY <1>2, <1>3, Zenon DEF DispInv, PanesInv, PanesRest
<1>. QED BY <1>1, <1>4

LEMMA SurePanesStay ==
    ASSUME DispInv, PanesRest, ~marker.unsure
    PROVE  ~marker'.unsure /\ (Answered' => answer'.fresh /\ answer'.to = marker'.of)
           /\ \A p \in Pane : SurePane(p)'
BY Zenon DEF DispInv, SureInv, SurePane, PanesRest, Answered

\* The process goes on, and remembers the same of its agent.
LEMMA StayKeeps ==
    ASSUME DispInv, PanesRest, mem' \in MemRecord, SameMem(mem, mem'), ctl' \in CtlRecord,
           ChargedFirst', WhereInv', HadInv',
           ctl.pc \in {"turn", "nudged"} => ctl'.pc \in {"turn", "nudged"},
           ctl'.pc \in Busy =>
              ctl.pc \in Busy
                  \/ (Status0 = "working" /\ mem.mark = ctl.text /\ ctl.text \in Prompts),
           ctl'.pc = "taken" => ctl.pc = "taken" /\ ctl'.got = ctl.got /\ ctl'.text = ctl.text
    PROVE  DispInv'
<1>1. /\ mem'.agent = mem.agent /\ mem'.role = mem.role /\ mem'.adopted = mem.adopted
      /\ mem'.mark = mem.mark /\ mem'.new = mem.new /\ mem'.restless = mem.restless
      /\ pane' = pane /\ marker' = marker /\ answer' = answer
    BY DEF SameMem, PanesRest
<1>2. DispTypeOK' /\ PanesInv'
    BY <1>1, PanesStay
<1>3. MemInv'
    BY <1>1, Zenon DEF DispInv, MemInv, Opened
<1>4. RestInv'
    BY <1>1, Zenon DEF DispInv, RestInv, AtRest, Status
<1>5. SureTarget => SureTarget' \/ marker.unsure
  <2>1. SUFFICES ASSUME SureTarget, ~marker.unsure, mem.agent # NoPane,
            pane[mem.agent].agent # "none"
                 PROVE  /\ ctl'.pc \in Busy => pane[mem.agent].job = marker.of
                           /\ pane[mem.agent].box = <<>>
                        /\ mem.mark \in Prompts =>
                             /\ pane[mem.agent].box \in {<<>>, <<marker.of>>}
                             /\ pane[mem.agent].agent \in {"working", "blocked"} =>
                                   pane[mem.agent].job = marker.of
      BY <1>1, Zenon DEF SureTarget, Busy
  <2>2. CASE ctl.pc \in Busy
      BY <2>1, <2>2, Zenon DEF SureTarget, Busy
  <2>3. CASE Status0 = "working" /\ mem.mark = ctl.text /\ ctl.text \in Prompts
    <3>1. pane[mem.agent].agent = "working"
        BY <2>3, SMT DEF Status0, Status, Target
    <3>2. mem.agent \in Pane
        BY <2>1, SMT DEF DispInv, DispTypeOK, MemRecord
    <3>3. pane[mem.agent].box = <<>>
        BY <2>1, <3>1, <3>2 DEF DispInv, SureInv, SurePane
    <3>. QED BY <2>1, <2>3, <3>1, <3>3, Zenon DEF SureTarget
  <2>. QED BY <2>1, <2>2, <2>3, Zenon DEF SureTarget
<1>6. SureInv'
    BY <1>1, <1>5, SurePanesStay, Zenon DEF DispInv, SureInv
<1>. QED BY <1>2, <1>3, <1>4, <1>6 DEF DispInv

\* The process lets go of its agent.
LEMMA LetGoKeeps ==
    ASSUME DispInv, PanesRest, mem' \in MemRecord, ctl' \in CtlRecord,
           mem'.agent = mem.agent, mem'.role = mem.role, mem'.adopted = mem.adopted,
           mem'.new = mem.new, mem'.mark = NoText, mem'.restless = NotAtRest,
           ChargedFirst', WhereInv', HadInv', ctl'.pc \in Busy => ctl.pc \in Busy,
               ctl'.pc # "taken"
    PROVE  DispInv'
<1>1. pane' = pane /\ marker' = marker /\ answer' = answer
    BY DEF PanesRest
<1>2. DispTypeOK' /\ PanesInv'
    BY PanesStay
<1>3. NoText \notin Prompts
    BY DispatchAssumption, SMT DEF Prompts, NoText, Mend
<1>4. MemInv'
    BY <1>1, <1>3, Zenon DEF DispInv, MemInv, Opened
<1>5. RestInv'
  <2>1. SUFFICES ASSUME ~NotAtRest, mem.agent # NoPane PROVE AtRest(mem.agent)
      BY <1>1, Zenon DEF RestInv, AtRest, Status
  <2>. QED BY <2>1, Zenon DEF NotAtRest, AtRest, Status0, Target, Box
<1>6. SureInv'
    BY <1>1, <1>3, SurePanesStay, Zenon DEF DispInv, SureInv, SureTarget, Busy
<1>. QED BY <1>2, <1>4, <1>5, <1>6 DEF DispInv

\* The agent is marked with the text that did not come back.
LEMMA MarkKeeps ==
    ASSUME DispInv, PanesRest, mem' \in MemRecord, ctl' \in CtlRecord,
           mem'.agent = mem.agent, mem'.role = mem.role, mem'.adopted = mem.adopted,
           mem'.new = mem.new, ~mem.new, mem.agent # NoPane,
           mem'.mark = Nudge
               \/ (mem'.mark = ctl.text /\ marker.of = ctl.text /\ ctl.text \in Prompts),
           ~marker.unsure /\ mem'.mark = ctl.text /\ pane[mem.agent].agent # "none" =>
              /\ pane[mem.agent].box \in {<<>>, <<marker.of>>}
              /\ pane[mem.agent].agent \in {"working", "blocked"}
                 => pane[mem.agent].job = marker.of,
           ChargedFirst', WhereInv', HadInv', ctl'.pc \notin Busy \cup {"taken"}
    PROVE  DispInv'
<1>1. pane' = pane /\ marker' = marker /\ answer' = answer
    BY DEF PanesRest
<1>2. DispTypeOK' /\ PanesInv'
    BY PanesStay
<1>3. NoText \notin Prompts /\ Nudge \notin Prompts /\ Nudge # NoText
    BY DispatchAssumption, SMT DEF Prompts, NoText, Mend, Nudge
<1>4. MemInv'
    BY <1>1, <1>3, Zenon DEF DispInv, MemInv, Opened
<1>5. RestInv'
    BY <1>3, Zenon DEF RestInv
<1>6. ~marker.unsure => SureTarget'
    BY <1>1, <1>3, Zenon DEF SureTarget, Busy
<1>7. SureInv'
    BY <1>1, <1>6, SurePanesStay, Zenon DEF SureInv
<1>. QED BY <1>2, <1>4, <1>5, <1>7 DEF DispInv

-----------------------------------------------------------------------------
(* What the dispatcher raises, takes and leaves                            *)

LEMMA NamesDiffer == /\ NoText \notin Prompts /\ Nudge \notin Prompts /\ Typed \notin Prompts
                     /\ "restored" \notin Prompts /\ NoPane \notin Pane
                        /\ "restored" \notin Text
                     /\ Nudge # NoText /\ Typed # NoText /\ Nudge # Typed
BY DispatchAssumption, SMT DEF Prompts, NoText, Mend, Nudge, Typed, NoPane, Text

LEMMA RaisedKeeps ==
    ASSUME DispInv, NEW m \in MemRecord, SameMem(mem, m), NEW err, Raised(err, m),
           UNCHANGED <<pane, taskFiles, registered, charged, sent>>,
           ctl.pc \notin {"turn", "nudged", "off", "idle"}, err = "missing" => ctl.pc = "grace"
    PROVE  DispInv'
<1>1. /\ mem' \in MemRecord /\ SameMem(mem, mem')
      /\ ctl' \in CtlRecord /\ SameCtl /\ ctl'.pc \in {"follow", "charge", "idle"}
      /\ ctl'.pc = "follow" => ctl.pc = "grace"
    BY RaisedDoes, SMT DEF DispInv, SameMem
<1>2. PanesRest
    BY Zenon DEF PanesRest, taskFiles, DispInv, DispTypeOK
<1>3. ChargedFirst'
    BY <1>1, SMT DEF DispInv, ChargedFirst, Prepare
<1>4. WhereInv'
    BY <1>1, <1>2, SMT DEF DispInv, WhereInv, SameMem, SameCtl, PanesRest, Prepare, Stalled,
       TurnEnded, Answered
<1>5. HadInv'
    BY <1>1, SMT DEF DispInv, HadInv, SameCtl
<1>6. ctl'.pc \in Busy => ctl.pc \in Busy
    BY <1>1, SMT DEF Busy, TurnEnded
<1>. QED BY <1>1, <1>2, <1>3, <1>4, <1>5, <1>6, StayKeeps, SMT

LEMMA RefuseKeeps ==
    ASSUME DispInv, NEW err, Refuse(err), ctl.pc \notin {"turn", "nudged", "off", "idle"},
           err = "missing" => ctl.pc = "grace"
    PROVE  DispInv'
<1>1. mem \in MemRecord /\ SameMem(mem, mem)
    BY Zenon DEF DispInv, DispTypeOK, SameMem
<1>. QED BY <1>1, RaisedKeeps, Zenon DEF Refuse

\* The process goes from one place of the dispatch to another.
Moves(x) ==
    \/ ctl.pc = "ensure" /\ x = "settle" /\ mem.agent # NoPane
    \/ ctl.pc = "settle" /\ x = "collect" /\ mem.mark \in {NoText, "restored"}
    \/ ctl.pc = "settle" /\ x = "await" /\ Status0 = "working" /\ mem.mark = ctl.text
    \/ ctl.pc = "settle" /\ x = "enter" /\ mem.mark = ctl.text
    \/ ctl.pc = "confirm" /\ x = "await"
    \/ ctl.pc = "collect" /\ x = "restored" /\ ~ResumableAnswer
    \/ ctl.pc = "restored" /\ x = "ready" /\ mem.mark # "restored"
    \/ ctl.pc = "ready" /\ x = "park" /\ ~mem.new
    \/ ctl.pc = "judge" /\ x = "grace"
    \/ ctl.pc = "follow" /\ x \in {"chargeNudge", "resumed"}
    \/ ctl.pc = "resumed" /\ x = "chargeNudge"
    \/ ctl.pc = "release" /\ x = "idle"
LEMMA MoveKeeps ==
    ASSUME DispInv, NEW x, Moves(x), To(x),
           UNCHANGED <<pane, taskFiles, registered, charged, mem, sent>>
    PROVE  DispInv'
<1>1. x \in DispPcs
    BY SMT DEF Moves, DispPcs, Prepare, TurnEnded, Stalled
<1>2. ctl' \in CtlRecord /\ ctl'.pc = x /\ SameCtl
    BY <1>1, GoesTo DEF DispInv
<1>3. PanesRest /\ mem' \in MemRecord /\ SameMem(mem, mem')
    BY Zenon DEF PanesRest, taskFiles, DispInv, DispTypeOK, SameMem
<1>4. ChargedFirst'
    BY <1>2, SMT DEF DispInv, ChargedFirst, Prepare, Moves
<1>5. WhereInv'
    BY <1>2, SMT DEF DispInv, WhereInv, SameCtl, Prepare, Stalled, TurnEnded, Answered, Moves,
       taskFiles
<1>6. HadInv'
  <2>1. ResumableAnswer' = ResumableAnswer
      BY <1>2, Zenon DEF ResumableAnswer, Answered, SameCtl, taskFiles
  <2>. QED BY <1>2, <2>1, SMT DEF DispInv, HadInv, SameCtl, Moves
<1>7. ctl.pc = "settle" => ctl.text \in Prompts
    BY SMT DEF DispInv, WhereInv
<1>8. ctl'.pc \in Busy =>
         ctl.pc \in Busy \/ (Status0 = "working" /\ mem.mark = ctl.text /\ ctl.text \in Prompts)
    BY <1>2, <1>7, SMT DEF Busy, TurnEnded, Moves
<1>9. /\ ctl.pc \in {"turn", "nudged"} => ctl'.pc \in {"turn", "nudged"}
      /\ ctl'.pc = "taken" => ctl.pc = "taken" /\ ctl'.got = ctl.got /\ ctl'.text = ctl.text
    BY <1>2, SMT DEF Moves
<1>. QED BY <1>2, <1>3, <1>4, <1>5, <1>6, <1>8, <1>9, StayKeeps

\* The dispatcher returns what is in the answer file.
LEMMA TakeKeeps ==
    ASSUME DispInv, Take, Answered, ctl.pc = "collect" \/ ctl.pc \in TurnEnded \cup {"nudged"},
           ctl.pc = "collect" => ResumableAnswer
    PROVE  DispInv'
<1>1. NotAtRest \in BOOLEAN
    BY DEF NotAtRest
<1>2. /\ mem' \in MemRecord /\ mem'.restless = NotAtRest
      /\ mem'.agent = mem.agent /\ mem'.role = mem.role /\ mem'.adopted = mem.adopted
      /\ mem'.new = mem.new /\ mem'.mark = mem.mark
  <2>. DEFINE kept2 == mem.kept \ {mem.role}
              m1 == [mem EXCEPT !.kept = kept2]
  <2>1. kept2 \in SUBSET Pane /\ mem \in MemRecord
      BY SMT DEF DispInv, DispTypeOK, MemRecord
  <2>2. m1 \in MemRecord
      BY <2>1, MemFields, Zenon
  <2>3. mem' = [m1 EXCEPT !.restless = NotAtRest]
      BY SMT DEF Take
  <2>4. mem' \in MemRecord
      BY <1>1, <2>2, <2>3, MemFields, Zenon
  <2>. QED BY <1>1, <2>1, <2>4, SMT DEF Take, MemRecord
<1>3. ctl' \in CtlRecord /\ ctl'.pc = "taken" /\ ctl'.got = answer.to /\ ctl'.text = ctl.text
      /\ ctl'.had = ctl.had /\ ctl'.replacing = ctl.replacing
  <2>1. answer.to \in Text /\ ctl \in CtlRecord
      BY SMT DEF DispInv, DispTypeOK
  <2>2. [ctl EXCEPT !.pc = "taken"] \in CtlRecord
      BY <2>1, CtlFields DEF DispPcs
  <2>3. ctl' = [[ctl EXCEPT !.pc = "taken"] EXCEPT !.got = answer.to]
      BY Zenon DEF Take
  <2>4. ctl' \in CtlRecord
      BY <2>1, <2>2, <2>3, CtlFields, Zenon
  <2>. QED BY <2>1, <2>4, SMT DEF CtlRecord, Take
<1>4. PanesRest /\ marker' = marker
    BY Zenon DEF Take, PanesRest, taskFiles, DispInv, DispTypeOK
<1>5. DispTypeOK' /\ PanesInv'
    BY <1>2, <1>3, <1>4, PanesStay
<1>6. ChargedFirst'
    BY <1>3, SMT DEF Take, DispInv, ChargedFirst, Prepare
<1>7. WhereInv'
    BY <1>3, SMT DEF DispInv, WhereInv, Prepare, Stalled, TurnEnded
<1>8. HadInv'
    BY <1>3, SMT DEF DispInv, HadInv
<1>9. MemInv'
    BY <1>2, <1>4, Zenon DEF DispInv, MemInv, Opened, PanesRest
<1>10. RestInv'
  <2>1. SUFFICES ASSUME ~NotAtRest, mem.agent # NoPane PROVE AtRest(mem.agent) /\ pane' = pane
      BY <1>2, <1>4, Zenon DEF RestInv, AtRest, Status
  <2>. QED BY <1>4, <2>1, Zenon DEF NotAtRest, AtRest, Status0, Target, Box, PanesRest
<1>11. ~marker.unsure => SureTarget'
    BY <1>2, <1>3, <1>4, SMT DEF DispInv, SureInv, SureTarget, PanesRest, TurnEnded
<1>12. ~marker.unsure => ctl'.got = ctl'.text
  <2>1. ~marker.unsure => answer.to = marker.of
      BY DEF DispInv, SureInv
  <2>2. marker.of = ctl.text
      BY SMT DEF DispInv, WhereInv, ResumableAnswer, TurnEnded
  <2>. QED BY <1>3, <2>1, <2>2
<1>13. SureInv'
    BY <1>4, <1>11, <1>12, SurePanesStay, Zenon DEF SureInv
<1>. QED BY <1>5, <1>6, <1>7, <1>8, <1>9, <1>10, <1>13 DEF DispInv

-----------------------------------------------------------------------------
(* Steps of the process that touch no pane                                 *)

LEMMA BeginDispatchKeeps == ASSUME DispInv, NEW t \in Ask, BeginDispatch(t) PROVE DispInv'
<1>1. ctl'.pc = "charge" /\ ctl'.text = t /\ ctl'.had = FALSE
      /\ ctl' = [NoWork EXCEPT !.pc = "charge", !.text = t,
                               !.waiting = IF ctl.waiting = "yes" THEN "yes" ELSE "no"]
    BY SMT DEF BeginDispatch, NoWork
<1>2. ctl' \in CtlRecord
  <2>. DEFINE w == IF ctl.waiting = "yes" THEN "yes" ELSE "no"
              c1 == [NoWork EXCEPT !.pc = "charge"]
              c2 == [c1 EXCEPT !.text = t]
  <2>1. c1 \in CtlRecord
      BY NoWorkIs, CtlFields DEF DispPcs
  <2>2. t \in Prompts \cup {NoText} /\ w \in {"no", "may", "yes"}
      BY DEF Prompts
  <2>3. c2 \in CtlRecord
      BY <2>1, <2>2, CtlFields, Zenon
  <2>4. ctl' = [c2 EXCEPT !.waiting = w]
      BY <1>1, SMT
  <2>. HIDE DEF c2, w
  <2>. QED BY <2>2, <2>3, <2>4, CtlFields, Zenon
<1>3. PanesRest /\ mem' \in MemRecord /\ SameMem(mem, mem')
    BY Zenon DEF PanesRest, taskFiles, DispInv, DispTypeOK, SameMem, BeginDispatch
<1>4. ChargedFirst'
    BY <1>1, SMT DEF DispInv, ChargedFirst, Prepare, BeginDispatch
<1>5. WhereInv'
    BY <1>1, SMT DEF WhereInv, Prepare, Stalled, TurnEnded, Prompts
<1>6. HadInv'
    BY <1>1, SMT DEF HadInv
<1>7. ctl'.pc \notin Busy \cup {"taken"} /\ ctl.pc = "idle"
    BY <1>1, SMT DEF Busy, TurnEnded, BeginDispatch, On
<1>. QED BY <1>2, <1>3, <1>4, <1>5, <1>6, <1>7, StayKeeps

LEMMA ChargeKeeps == ASSUME DispInv, Charge PROVE DispInv'
<1>1. CASE charged >= MaxDispatches /\ Refuse("refused")
    BY <1>1, RefuseKeeps, SMT DEF Charge, On
<1>2. CASE /\ charged < MaxDispatches /\ charged' = charged + 1
           /\ ctl' = [ctl EXCEPT !.pc = "ensure", !.replacing = FALSE, !.had = ResumableAnswer]
           /\ UNCHANGED <<pane, taskFiles, registered, mem, sent>>
  <2>. DEFINE c1 == [ctl EXCEPT !.pc = "ensure"]
              c2 == [c1 EXCEPT !.replacing = FALSE]
  <2>1. c1 \in CtlRecord
      BY CtlFields DEF DispInv, DispTypeOK, DispPcs, Prepare
  <2>2. c2 \in CtlRecord
      BY <2>1, CtlFields, Zenon
  <2>3. ctl' = [c2 EXCEPT !.had = ResumableAnswer]
      BY <1>2, SMT
  <2>4. ResumableAnswer \in BOOLEAN
      BY SMT DEF ResumableAnswer, DispInv, DispTypeOK
  <2>5. ctl' \in CtlRecord
    <3>. HIDE DEF c2
    <3>. QED BY <2>2, <2>3, <2>4, CtlFields, Zenon
  <2>6. ctl'.pc = "ensure" /\ ctl'.replacing = FALSE /\ ctl'.had = ResumableAnswer
            /\ ctl'.text = ctl.text
      BY <1>2, <2>4, SMT DEF DispInv, DispTypeOK, CtlRecord
  <2>7. PanesRest /\ mem' \in MemRecord /\ SameMem(mem, mem')
    <3>1. charged + 1 \in Nat
        BY SMT DEF DispInv, DispTypeOK
    <3>. QED BY <1>2, <3>1, Zenon DEF PanesRest, taskFiles, DispInv, DispTypeOK, SameMem
  <2>8. ChargedFirst'
      BY <1>2, DispatchAssumption, SMT DEF DispInv, ChargedFirst, DispTypeOK
  <2>9. WhereInv'
      BY <2>6, SMT DEF DispInv, WhereInv, Prepare, Stalled, TurnEnded, Charge, On
  <2>10. HadInv'
    <3>1. ResumableAnswer' = ResumableAnswer
        BY <1>2, <2>6, Zenon DEF ResumableAnswer, Answered, taskFiles
    <3>. QED BY <2>6, <3>1, SMT DEF HadInv
  <2>11. ctl'.pc \notin Busy \cup {"taken"} /\ ctl.pc = "charge"
      BY <2>6, SMT DEF Busy, TurnEnded, Charge, On
  <2>. QED BY <2>5, <2>7, <2>8, <2>9, <2>10, <2>11, StayKeeps
<1>. QED BY <1>1, <1>2, Zenon DEF Charge

LEMMA ValidateKeeps == ASSUME DispInv, Validate PROVE DispInv'
<1>1. /\ ctl' \in CtlRecord /\ ctl'.pc \in {"release", "charge", "idle"}
      /\ ctl'.pc \notin {"off", "idle"} => ctl'.text \in Prompts
      /\ ctl'.had => ctl.had /\ ctl'.replacing = ctl.replacing
  <2>1. ctl \in CtlRecord /\ ctl.pc = "taken" /\ ctl.text \in Prompts
      BY SMT DEF DispInv, DispTypeOK, WhereInv, Validate, On
  <2>2. \A x \in {"release", "idle"} : [ctl EXCEPT !.pc = x] \in CtlRecord
      BY <2>1, CtlFields DEF DispPcs
  <2>3. ASSUME ctl' = [NoWork EXCEPT !.pc = "charge", !.text = Mend, !.mended = TRUE,
                                     !.waiting = ctl.waiting]
        PROVE  ctl' \in CtlRecord
    <3>. DEFINE c1 == [NoWork EXCEPT !.pc = "charge"]
                c2 == [c1 EXCEPT !.text = Mend]
                c3 == [c2 EXCEPT !.mended = TRUE]
    <3>1. c1 \in CtlRecord
        BY NoWorkIs, CtlFields DEF DispPcs
    <3>2. c2 \in CtlRecord
      <4>1. Mend \in Prompts \cup {NoText}
          BY DEF Prompts
      <4>. QED BY <3>1, <4>1, CtlFields, Zenon
    <3>3. c3 \in CtlRecord
      <4>1. TRUE \in BOOLEAN
          OBVIOUS
      <4>. HIDE DEF c2
      <4>. QED BY <3>2, <4>1, CtlFields, Zenon
    <3>4. ctl' = [c3 EXCEPT !.waiting = ctl.waiting] /\ ctl.waiting \in {"no", "may", "yes"}
        BY <2>1, <2>3, SMT DEF CtlRecord
    <3>. HIDE DEF c3
    <3>. QED BY <3>3, <3>4, CtlFields, Zenon
  <2>4. CASE ctl' = [ctl EXCEPT !.pc = "release"]
      BY <2>1, <2>2, <2>4, SMT DEF CtlRecord
  <2>5. CASE ctl' = [ctl EXCEPT !.pc = "idle"]
      BY <2>1, <2>2, <2>5, SMT DEF CtlRecord
  <2>6. CASE ctl' = [NoWork EXCEPT !.pc = "charge", !.text = Mend, !.mended = TRUE,
                                   !.waiting = ctl.waiting]
    <3>1. ctl'.pc = "charge" /\ ctl'.text = Mend /\ ctl'.had = FALSE
        BY <2>6, SMT DEF NoWork
    <3>. QED BY <2>3, <2>6, <3>1 DEF Prompts
  <2>. QED BY <2>4, <2>5, <2>6, Zenon DEF Validate
<1>2. PanesRest /\ mem' \in MemRecord /\ SameMem(mem, mem')
    BY Zenon DEF PanesRest, taskFiles, DispInv, DispTypeOK, SameMem, Validate
<1>3. ChargedFirst'
    BY <1>1, SMT DEF DispInv, ChargedFirst, Prepare, Validate
<1>4. WhereInv'
    BY <1>1, SMT DEF WhereInv, Prepare, Stalled, TurnEnded
<1>5. HadInv'
    BY <1>1, SMT DEF DispInv, HadInv
<1>6. ctl'.pc \notin Busy \cup {"taken"} /\ ctl.pc = "taken"
    BY <1>1, SMT DEF Busy, TurnEnded, Validate, On
<1>. QED BY <1>1, <1>2, <1>3, <1>4, <1>5, <1>6, StayKeeps

LEMMA ChargeNudgeKeeps == ASSUME DispInv, ChargeNudge PROVE DispInv'
<1>1. CASE charged >= MaxDispatches /\ Refuse("refused")
    BY <1>1, RefuseKeeps, SMT DEF ChargeNudge, On
<1>2. CASE /\ charged < MaxDispatches /\ charged' = charged + 1 /\ To("sendNudge")
           /\ UNCHANGED <<pane, taskFiles, registered, mem, sent>>
  <2>1. ctl' \in CtlRecord /\ ctl'.pc = "sendNudge" /\ SameCtl
      BY <1>2, GoesTo DEF DispInv, DispPcs, TurnEnded
  <2>2. PanesRest /\ mem' \in MemRecord /\ SameMem(mem, mem')
    <3>1. charged + 1 \in Nat
        BY SMT DEF DispInv, DispTypeOK
    <3>. QED BY <1>2, <3>1, Zenon DEF PanesRest, taskFiles, DispInv, DispTypeOK, SameMem
  <2>3. ChargedFirst'
      BY <1>2, DispatchAssumption, SMT DEF DispInv, ChargedFirst, DispTypeOK
  <2>4. WhereInv'
      BY <1>2, <2>1, SMT DEF DispInv, WhereInv, SameCtl, Prepare, Stalled, TurnEnded,
         ChargeNudge, On, taskFiles
  <2>5. HadInv'
      BY <2>1, SMT DEF DispInv, HadInv, SameCtl
  <2>6. ctl.pc \in Busy /\ ctl'.pc # "taken" /\ ctl.pc \notin {"turn", "nudged"}
      BY <2>1, SMT DEF Busy, TurnEnded, ChargeNudge, On
  <2>. QED BY <2>1, <2>2, <2>3, <2>4, <2>5, <2>6, StayKeeps
<1>. QED BY <1>1, <1>2, Zenon DEF ChargeNudge

LEMMA BlockedKeeps ==
    ASSUME DispInv, Blocked, ctl.pc \notin {"turn", "nudged", "off", "idle"} PROVE DispInv'
<1>1. PICK err \in {"approval", "refused"} : Refuse(err)
    BY DEF Blocked
<1>. QED BY <1>1, RefuseKeeps

\* A turn is over: the agent is let go of before its answer is judged.
LEMMA TurnOverKeeps ==
    ASSUME DispInv, NEW m \in MemRecord, SameMem(mem, m), TurnIsOver(m),
           UNCHANGED <<pane, taskFiles, registered, charged, sent>>,
           ctl.pc \in {"confirm", "await", "turn"}
    PROVE  DispInv'
<1>1. NotAtRest \in BOOLEAN
    BY DEF NotAtRest
<1>2. /\ mem' \in MemRecord /\ mem'.mark = NoText /\ mem'.restless = NotAtRest
      /\ mem'.agent = mem.agent /\ mem'.role = mem.role /\ mem'.adopted = mem.adopted
      /\ mem'.new = mem.new
    BY <1>1, LetGoIs DEF TurnIsOver, SameMem
<1>3. ctl' \in CtlRecord /\ ctl'.pc = "judge" /\ SameCtl
    BY GoesTo DEF DispInv, DispPcs, TurnEnded, TurnIsOver
<1>4. PanesRest
    BY Zenon DEF PanesRest, taskFiles, DispInv, DispTypeOK
<1>5. ChargedFirst'
    BY <1>3, SMT DEF DispInv, ChargedFirst, Prepare
<1>6. ~mem.new /\ marker.of = ctl.text /\ mem.agent # NoPane /\ ctl.text \in Prompts
    BY NamesDiffer, SMT DEF DispInv, WhereInv, MemInv, Stalled
<1>7. WhereInv'
    BY <1>2, <1>3, <1>4, <1>6, SMT DEF WhereInv, SameCtl, Prepare, Stalled, TurnEnded, PanesRest
<1>8. HadInv'
    BY <1>3, SMT DEF DispInv, HadInv, SameCtl
<1>9. ctl.pc \in Busy /\ ctl'.pc # "taken"
    BY <1>3, SMT DEF Busy
<1>. QED BY <1>2, <1>3, <1>4, <1>5, <1>7, <1>8, <1>9, LetGoKeeps

\* An agent that stands still at an empty box is let go of, and is used.
LEMMA FreedKeeps ==
    ASSUME DispInv, mem' = LetGo(mem), NEW x, To(x),
           UNCHANGED <<pane, taskFiles, registered, charged, sent>>,
           (ctl.pc = "settle" /\ x = "collect") \/ (ctl.pc = "restored" /\ x = "ready")
    PROVE  DispInv'
<1>1. NotAtRest \in BOOLEAN /\ mem \in MemRecord
    BY DEF NotAtRest, DispInv, DispTypeOK
<1>2. /\ mem' \in MemRecord /\ mem'.mark = NoText /\ mem'.restless = NotAtRest
      /\ mem'.agent = mem.agent /\ mem'.role = mem.role /\ mem'.adopted = mem.adopted
      /\ mem'.new = mem.new
    BY <1>1, LetGoIs
<1>3. x \in DispPcs
    BY DEF DispPcs, Prepare
<1>4. ctl' \in CtlRecord /\ ctl'.pc = x /\ SameCtl
    BY <1>3, GoesTo DEF DispInv
<1>5. PanesRest
    BY Zenon DEF PanesRest, taskFiles, DispInv, DispTypeOK
<1>6. ChargedFirst'
    BY <1>4, SMT DEF DispInv, ChargedFirst, Prepare
<1>7. WhereInv'
    BY <1>2, <1>4, <1>5, SMT DEF DispInv, WhereInv, SameCtl, Prepare, Stalled, TurnEnded,
       PanesRest
<1>8. HadInv'
  <2>1. ResumableAnswer' = ResumableAnswer
      BY <1>4, Zenon DEF ResumableAnswer, Answered, SameCtl, taskFiles
  <2>. QED BY <1>4, <2>1, SMT DEF DispInv, HadInv, SameCtl
<1>9. ctl'.pc \notin Busy \cup {"taken"}
    BY <1>4, SMT DEF Busy, TurnEnded
<1>. QED BY <1>2, <1>4, <1>5, <1>6, <1>7, <1>8, <1>9, LetGoKeeps

LEMMA AgentKnownKeeps == ASSUME DispInv, AgentKnown PROVE DispInv'
BY MoveKeeps, Zenon DEF AgentKnown, Moves, On

LEMMA SettleKeeps == ASSUME DispInv, Settle PROVE DispInv'
<1>1. ctl.pc = "settle"
    BY DEF Settle, On
<1>2. \A err \in {"unclean"} : Refuse(err) => DispInv'
    BY <1>1, RefuseKeeps, SMT
<1>3. CASE To("collect") /\ mem.mark \in {NoText, "restored"}
           /\ UNCHANGED <<pane, taskFiles, registered, charged, mem, sent>>
    BY <1>1, <1>3, MoveKeeps, Zenon DEF Moves
<1>4. CASE Blocked
    BY <1>1, <1>4, BlockedKeeps, SMT
<1>5. CASE Status0 = "working" /\ mem.mark = ctl.text /\ To("await")
           /\ UNCHANGED <<pane, taskFiles, registered, charged, mem, sent>>
    BY <1>1, <1>5, MoveKeeps, Zenon DEF Moves
<1>6. CASE To("collect") /\ mem' = LetGo(mem)
          /\ UNCHANGED <<pane, taskFiles, registered, charged, sent>>
    BY <1>1, <1>6, FreedKeeps, Zenon
<1>7. CASE MyStalledText /\ To("enter")
           /\ UNCHANGED <<pane, taskFiles, registered, charged, mem, sent>>
    BY <1>1, <1>7, MoveKeeps, Zenon DEF Moves, MyStalledText
<1>. QED BY <1>2, <1>3, <1>4, <1>5, <1>6, <1>7, Zenon DEF Settle

LEMMA ConfirmKeeps == ASSUME DispInv, Confirm PROVE DispInv'
<1>1. ctl.pc = "confirm" /\ UNCHANGED <<pane, taskFiles, registered, charged, sent>>
      /\ mem \in MemRecord /\ SameMem(mem, mem)
    BY Zenon DEF Confirm, On, DispInv, DispTypeOK, SameMem
<1>2. CASE To("await") /\ UNCHANGED mem
    BY <1>1, <1>2, MoveKeeps, Zenon DEF Moves
<1>3. CASE TurnIsOver(mem)
    BY <1>1, <1>3, TurnOverKeeps, Zenon
<1>4. CASE Raised("unclean", mem)
    BY <1>1, <1>4, RaisedKeeps, SMT
<1>. QED BY <1>2, <1>3, <1>4, Zenon DEF Confirm

LEMMA AwaitTurnKeeps == ASSUME DispInv, AwaitTurn PROVE DispInv'
<1>1. ctl.pc = "await" /\ UNCHANGED <<pane, taskFiles, registered, charged, sent>>
      /\ mem \in MemRecord /\ SameMem(mem, mem)
    BY Zenon DEF AwaitTurn, On, DispInv, DispTypeOK, SameMem
<1>2. CASE TurnIsOver(mem)
    BY <1>1, <1>2, TurnOverKeeps, Zenon
<1>3. CASE Raised("unclean", mem)
    BY <1>1, <1>3, RaisedKeeps, SMT
<1>4. CASE Raised("refused", mem)
    BY <1>1, <1>4, RaisedKeeps, SMT
<1>. QED BY <1>2, <1>3, <1>4, Zenon DEF AwaitTurn

LEMMA CollectKeeps == ASSUME DispInv, Collect PROVE DispInv'
<1>1. ctl.pc = "collect"
    BY DEF Collect, On
<1>2. CASE ResumableAnswer /\ Take
    BY <1>1, <1>2, TakeKeeps, Zenon DEF ResumableAnswer
<1>3. CASE ~ResumableAnswer /\ To("restored")
           /\ UNCHANGED <<pane, taskFiles, registered, charged, mem, sent>>
    BY <1>1, <1>3, MoveKeeps, Zenon DEF Moves
<1>. QED BY <1>2, <1>3, Zenon DEF Collect

LEMMA CheckRestoredKeeps == ASSUME DispInv, CheckRestored PROVE DispInv'
<1>1. ctl.pc = "restored" /\ UNCHANGED <<taskFiles, charged, sent>>
      /\ mem \in MemRecord /\ SameMem(mem, mem)
    BY Zenon DEF CheckRestored, On, DispInv, DispTypeOK, SameMem
<1>2. CASE mem.mark # "restored" /\ To("ready") /\ UNCHANGED <<pane, registered, mem>>
    BY <1>1, <1>2, MoveKeeps, Zenon DEF Moves
<1>3. CASE mem' = LetGo(mem) /\ To("ready") /\ UNCHANGED <<pane, registered>>
    BY <1>1, <1>3, FreedKeeps, Zenon
<1>4. CASE (\E err \in {"approval", "refused"} : Raised(err, mem))
          /\ UNCHANGED <<pane, registered>>
  <2>1. PICK err \in {"approval", "refused"} : Raised(err, mem)
      BY <1>4
  <2>. QED BY <1>1, <1>4, <2>1, RaisedKeeps, SMT
<1>5. CASE Raised("unclean", mem) /\ UNCHANGED <<pane, registered>>
    BY <1>1, <1>5, RaisedKeeps, SMT
<1>. QED BY <1>2, <1>3, <1>4, <1>5, Zenon DEF CheckRestored

LEMMA AwaitReadyKeeps == ASSUME DispInv, AwaitReady PROVE DispInv'
<1>1. ctl.pc = "ready" /\ UNCHANGED <<pane, taskFiles, registered, charged, sent>>
      /\ mem \in MemRecord /\ SameMem(mem, mem)
    BY Zenon DEF AwaitReady, On, DispInv, DispTypeOK, SameMem
<1>2. CASE ~mem.new /\ To("park") /\ UNCHANGED mem
    BY <1>1, <1>2, MoveKeeps, Zenon DEF Moves
<1>3. CASE Status0 = "idle" /\ Box = <<>> /\ To("park") /\ mem' = [mem EXCEPT !.new = FALSE]
  <2>1. mem' \in MemRecord
    <3>1. FALSE \in BOOLEAN
        OBVIOUS
    <3>. QED BY <1>1, <1>3, <3>1, MemFields, Zenon
  <2>2. /\ mem'.agent = mem.agent /\ mem'.role = mem.role /\ mem'.adopted = mem.adopted
        /\ mem'.mark = mem.mark /\ mem'.new = FALSE /\ mem'.restless = mem.restless
      BY <1>1, <1>3, SMT DEF MemRecord
  <2>3. ctl' \in CtlRecord /\ ctl'.pc = "park" /\ SameCtl
      BY <1>3, GoesTo DEF DispInv, DispPcs, Prepare
  <2>4. PanesRest
      BY <1>1, Zenon DEF PanesRest, taskFiles, DispInv, DispTypeOK
  <2>5. DispTypeOK' /\ PanesInv'
      BY <2>1, <2>2, <2>3, <2>4, PanesStay
  <2>6. ChargedFirst'
      BY <1>1, <2>3, SMT DEF DispInv, ChargedFirst, Prepare
  <2>7. WhereInv'
      BY <1>1, <2>2, <2>3, SMT DEF DispInv, WhereInv, SameCtl, Prepare, Stalled, TurnEnded
  <2>8. HadInv'
      BY <1>1, <2>3, SMT DEF DispInv, HadInv, SameCtl
  <2>9. MemInv'
      BY <2>2, <2>4, Zenon DEF DispInv, MemInv, Opened, PanesRest
  <2>10. RestInv'
    <3>1. pane' = pane /\ Status(mem.agent) = "idle" /\ pane[mem.agent].box = <<>>
        BY <1>3, <2>4, Zenon DEF Status0, Target, Box, PanesRest
    <3>2. mem.agent # NoPane /\ mem.mark = NoText /\ ~mem.restless => ~pane[mem.agent].owes
        BY <1>1, SMT DEF DispInv, RestInv, AtRest
    <3>3. mem.agent # NoPane /\ mem.mark = NoText /\ ~mem.restless => AtRest(mem.agent)
        BY <3>1, <3>2, SMT DEF AtRest
    <3>. QED BY <2>2, <3>1, <3>3, Zenon DEF RestInv, AtRest, Status
  <2>11. ~marker.unsure => SureTarget'
      BY <1>1, <2>2, <2>3, <2>4, SMT DEF DispInv, SureInv, SureTarget, PanesRest, TurnEnded
  <2>12. SureInv'
      BY <2>3, <2>4, <2>11, SurePanesStay, Zenon DEF SureInv, PanesRest
  <2>. QED BY <2>5, <2>6, <2>7, <2>8, <2>9, <2>10, <2>12 DEF DispInv
<1>4. CASE \E err \in {"approval", "refused"} : Raised(err, mem)
  <2>1. PICK err \in {"approval", "refused"} : Raised(err, mem)
      BY <1>4
  <2>. QED BY <1>1, <2>1, RaisedKeeps, SMT
<1>5. CASE Raised("unclean", mem)
    BY <1>1, <1>5, RaisedKeeps, SMT
<1>. QED BY <1>2, <1>3, <1>4, <1>5, Zenon DEF AwaitReady

LEMMA JudgeAnswerKeeps == ASSUME DispInv, JudgeAnswer PROVE DispInv'
<1>1. ctl.pc = "judge"
    BY DEF JudgeAnswer, On
<1>2. CASE Blocked
    BY <1>1, <1>2, BlockedKeeps, SMT
<1>3. CASE To("grace") /\ UNCHANGED <<pane, taskFiles, registered, charged, mem, sent>>
    BY <1>1, <1>3, MoveKeeps, Zenon DEF Moves
<1>. QED BY <1>2, <1>3, Zenon DEF JudgeAnswer

LEMMA GraceKeeps == ASSUME DispInv, Grace PROVE DispInv'
<1>1. ctl.pc = "grace"
    BY DEF Grace, On
<1>2. CASE Answered /\ Take
    BY <1>1, <1>2, TakeKeeps, SMT DEF TurnEnded
<1>3. CASE Refuse("missing")
    BY <1>1, <1>3, RefuseKeeps, SMT
<1>. QED BY <1>2, <1>3, Zenon DEF Grace

LEMMA FollowUpKeeps == ASSUME DispInv, FollowUp PROVE DispInv'
<1>1. ctl.pc = "follow"
    BY DEF FollowUp, On
<1>2. CASE Answered /\ Take
    BY <1>1, <1>2, TakeKeeps, SMT DEF TurnEnded
<1>3. CASE Blocked
    BY <1>1, <1>3, BlockedKeeps, SMT
<1>4. CASE Refuse("refused")
    BY <1>1, <1>4, RefuseKeeps, SMT
<1>5. CASE To(IF Status0 = "idle" THEN "chargeNudge" ELSE "resumed")
           /\ UNCHANGED <<pane, taskFiles, registered, charged, mem, sent>>
  <2>1. PICK x \in {"chargeNudge", "resumed"} : To(x)
      BY <1>5, Zenon
  <2>2. Moves(x)
      BY <1>1, <2>1, Zenon DEF Moves
  <2>. QED BY <1>5, <2>1, <2>2, MoveKeeps
<1>. QED BY <1>2, <1>3, <1>4, <1>5, Zenon DEF FollowUp

LEMMA WaitResumedKeeps == ASSUME DispInv, WaitResumed PROVE DispInv'
<1>1. ctl.pc = "resumed"
    BY DEF WaitResumed, On
<1>2. CASE Answered /\ Take
    BY <1>1, <1>2, TakeKeeps, SMT DEF TurnEnded
<1>3. CASE Blocked
    BY <1>1, <1>3, BlockedKeeps, SMT
<1>4. CASE Refuse("refused")
    BY <1>1, <1>4, RefuseKeeps, SMT
<1>5. CASE To("chargeNudge") /\ UNCHANGED <<pane, taskFiles, registered, charged, mem, sent>>
  <2>1. Moves("chargeNudge")
      BY <1>1, Zenon DEF Moves
  <2>. QED BY <1>5, <2>1, MoveKeeps
<1>. QED BY <1>2, <1>3, <1>4, <1>5, Zenon DEF WaitResumed

\* An agent is let go of, and the dispatcher raises what it saw.
LEMMA LetGoRaisedKeeps ==
    ASSUME DispInv, NEW err \in {"approval", "refused", "missing"}, Raised(err, LetGo(mem)),
           UNCHANGED <<pane, taskFiles, registered, charged, sent>>, ctl.pc = "nudged"
    PROVE  DispInv'
<1>1. NotAtRest \in BOOLEAN /\ mem \in MemRecord
    BY DEF NotAtRest, DispInv, DispTypeOK
<1>2. /\ LetGo(mem) \in MemRecord /\ LetGo(mem).mark = NoText /\ LetGo(mem).restless = NotAtRest
      /\ LetGo(mem).agent = mem.agent /\ LetGo(mem).role = mem.role
      /\ LetGo(mem).adopted = mem.adopted /\ LetGo(mem).new = mem.new
    BY <1>1, LetGoIs
<1>3. /\ mem' \in MemRecord /\ SameMem(LetGo(mem), mem')
      /\ ctl' \in CtlRecord /\ SameCtl /\ ctl'.pc \in {"follow", "charge", "idle"}
    BY <1>2, RaisedDoes DEF DispInv
<1>4. PanesRest
    BY Zenon DEF PanesRest, taskFiles, DispInv, DispTypeOK
<1>5. ChargedFirst'
    BY <1>3, SMT DEF DispInv, ChargedFirst, Prepare
<1>6. WhereInv'
    BY <1>2, <1>3, <1>4, SMT DEF DispInv, WhereInv, SameCtl, SameMem, Prepare, Stalled,
       TurnEnded, PanesRest
<1>7. HadInv'
    BY <1>3, SMT DEF DispInv, HadInv, SameCtl
<1>8. ctl.pc \in Busy /\ ctl'.pc # "taken"
    BY <1>3, SMT DEF Busy
<1>9. /\ mem'.mark = NoText /\ mem'.restless = NotAtRest /\ mem'.agent = mem.agent
      /\ mem'.role = mem.role /\ mem'.adopted = mem.adopted /\ mem'.new = mem.new
    BY <1>2, <1>3, SMT DEF SameMem
<1>. QED BY <1>3, <1>4, <1>5, <1>6, <1>7, <1>8, <1>9, LetGoKeeps

\* The agent is marked with the text that did not come back, and the dispatcher raises it.
LEMMA MarkRaisedKeeps ==
    ASSUME DispInv, NEW m \in MemRecord, NEW err \in {"refused", "transient"}, Raised(err, m),
           UNCHANGED <<pane, taskFiles, registered, charged>>, sent' \in Nat, ChargedFirst',
           m.agent = mem.agent, m.role = mem.role, m.adopted = mem.adopted, m.new = mem.new,
           m.mark = Nudge \/ m.mark = ctl.text,
           ctl.pc \in {"send", "turn", "sendNudge", "nudged"},
           ~marker.unsure /\ m.mark = ctl.text /\ pane[mem.agent].agent # "none" =>
              /\ pane[mem.agent].box \in {<<>>, <<marker.of>>}
              /\ pane[mem.agent].agent \in {"working", "blocked"}
                 => pane[mem.agent].job = marker.of
    PROVE  DispInv'
<1>1. /\ mem' \in MemRecord /\ SameMem(m, mem')
      /\ ctl' \in CtlRecord /\ SameCtl /\ ctl'.pc \in {"charge", "idle"}
    BY RaisedDoes, SMT DEF DispInv
<1>2. PanesRest
    BY Zenon DEF PanesRest, taskFiles, DispInv, DispTypeOK
<1>3. ~mem.new /\ mem.agent # NoPane /\ ctl.text \in Prompts /\ marker.of = ctl.text
    BY SMT DEF DispInv, WhereInv, TurnEnded, Prepare
<1>4. WhereInv'
    BY <1>1, <1>3, SMT DEF WhereInv, SameCtl, Prepare, Stalled, TurnEnded
<1>5. HadInv'
    BY <1>1, SMT DEF DispInv, HadInv, SameCtl
<1>6. ctl'.pc \notin Busy \cup {"taken"}
    BY <1>1, SMT DEF Busy, TurnEnded
<1>7. /\ mem'.mark = m.mark /\ mem'.agent = mem.agent
      /\ mem'.role = mem.role /\ mem'.adopted = mem.adopted /\ mem'.new = mem.new
    BY <1>1, SMT DEF SameMem
<1>. QED BY <1>1, <1>2, <1>3, <1>4, <1>5, <1>6, <1>7, MarkKeeps

LEMMA MarkIs ==
    ASSUME NEW m \in MemRecord, NEW t \in Text
    PROVE  /\ [m EXCEPT !.mark = t] \in MemRecord
           /\ [m EXCEPT !.mark = t].mark = t /\ [m EXCEPT !.mark = t].agent = m.agent
           /\ [m EXCEPT !.mark = t].role = m.role /\ [m EXCEPT !.mark = t].adopted = m.adopted
           /\ [m EXCEPT !.mark = t].new = m.new
<1>1. [m EXCEPT !.mark = t] \in MemRecord
    BY MemFields, Zenon
<1>. QED BY <1>1, SMT DEF MemRecord
FailedMem(stalled) == [mem EXCEPT !.mark = ctl.text,
    !.stall = IF stalled THEN ctl.text ELSE NoText]
LEMMA FailedIs ==
    ASSUME DispInv, NEW b \in BOOLEAN
    PROVE  /\ FailedMem(b) \in MemRecord /\ FailedMem(b).mark = ctl.text
           /\ FailedMem(b).agent = mem.agent /\ FailedMem(b).role = mem.role
           /\ FailedMem(b).adopted = mem.adopted /\ FailedMem(b).new = mem.new
<1>1. mem \in MemRecord /\ ctl.text \in Text /\ NoText \in Text
    BY SMT DEF DispInv, DispTypeOK, CtlRecord, Text
<1>. DEFINE m1 == [mem EXCEPT !.mark = ctl.text]
            t == IF b THEN ctl.text ELSE NoText
<1>2. m1 \in MemRecord /\ t \in Text
    BY <1>1, MarkIs
<1>3. FailedMem(b) = [m1 EXCEPT !.stall = t]
    BY SMT DEF FailedMem
<1>4. FailedMem(b) \in MemRecord
  <2>. HIDE DEF m1, t
  <2>. QED BY <1>2, <1>3, MemFields, Zenon
<1>. QED BY <1>1, <1>4, SMT DEF FailedMem, MemRecord

LEMMA TurnKeeps == ASSUME DispInv, Turn PROVE DispInv'
<1>1. ctl.pc = "turn" /\ UNCHANGED <<pane, taskFiles, registered, charged, sent>>
          /\ mem \in MemRecord
    BY Zenon DEF Turn, On, DispInv, DispTypeOK
<1>2. CASE TurnIsOver([mem EXCEPT !.stall = NoText])
  <2>1. [mem EXCEPT !.stall = NoText] \in MemRecord
            /\ SameMem(mem, [mem EXCEPT !.stall = NoText])
      BY <1>1, StallIs DEF Text
  <2>. QED BY <1>1, <1>2, <2>1, TurnOverKeeps, SMT
<1>3. CASE \E err \in {"transient", "refused"} : Failed(err, FALSE)
  <2>1. PICK err \in {"transient", "refused"} : Raised(err, FailedMem(FALSE))
      BY <1>3 DEF Failed, FailedMem
  <2>2. /\ FailedMem(FALSE) \in MemRecord /\ FailedMem(FALSE).mark = ctl.text
        /\ FailedMem(FALSE).agent = mem.agent /\ FailedMem(FALSE).role = mem.role
        /\ FailedMem(FALSE).adopted = mem.adopted /\ FailedMem(FALSE).new = mem.new
      BY FailedIs
  <2>3. ctl'.pc \in {"follow", "charge", "idle"} /\ sent' \in Nat
      BY <1>1, <2>1, <2>2, RaisedDoes, Zenon DEF DispInv, DispTypeOK
  <2>4. ChargedFirst'
      BY <1>1, <2>3, SMT DEF DispInv, ChargedFirst, Prepare
  <2>5. ~marker.unsure /\ pane[mem.agent].agent # "none" =>
              /\ pane[mem.agent].box \in {<<>>, <<marker.of>>}
              /\ pane[mem.agent].agent \in {"working", "blocked"}
                 => pane[mem.agent].job = marker.of
      BY <1>1, SMT DEF DispInv, SureInv, SureTarget, WhereInv
  <2>. QED BY <1>1, <2>1, <2>2, <2>3, <2>4, <2>5, MarkRaisedKeeps
<1>4. Turn => \/ TurnIsOver([mem EXCEPT !.stall = NoText])
              \/ \E err \in {"transient", "refused"} : Failed(err, FALSE)
    BY Zenon DEF Turn
<1>. QED BY <1>2, <1>3, <1>4, Zenon

LEMMA NudgedKeeps == ASSUME DispInv, Nudged PROVE DispInv'
<1>1. ctl.pc = "nudged" /\ mem \in MemRecord
    BY Zenon DEF Nudged, On, DispInv, DispTypeOK
<1>2. CASE (\E err \in {"approval", "refused"} : Raised(err, LetGo(mem)))
           /\ UNCHANGED <<pane, taskFiles, registered, charged, sent>>
  <2>1. PICK err \in {"approval", "refused"} : Raised(err, LetGo(mem))
      BY <1>2
  <2>. QED BY <1>1, <1>2, <2>1, LetGoRaisedKeeps, SMT
<1>3. CASE Answered /\ Take
    BY <1>1, <1>3, TakeKeeps, SMT
<1>4. CASE Raised("missing", LetGo(mem))
          /\ UNCHANGED <<pane, taskFiles, registered, charged, sent>>
    BY <1>1, <1>4, LetGoRaisedKeeps, SMT
<1>5. CASE NudgeFailed /\ UNCHANGED <<pane, taskFiles, registered, charged, sent>>
  <2>. DEFINE m == [mem EXCEPT !.mark = Nudge]
  <2>1. /\ m \in MemRecord /\ m.mark = Nudge /\ m.agent = mem.agent /\ m.role = mem.role
        /\ m.adopted = mem.adopted /\ m.new = mem.new
      BY <1>1, MarkIs DEF Text
  <2>2. Raised("refused", m)
      BY <1>5 DEF NudgeFailed
  <2>. HIDE DEF m
  <2>3. ctl'.pc \in {"follow", "charge", "idle"} /\ sent' \in Nat
      BY <1>5, <2>1, <2>2, RaisedDoes, Zenon DEF DispInv, DispTypeOK
  <2>4. ChargedFirst'
      BY <1>5, <2>3, SMT DEF DispInv, ChargedFirst, Prepare
  <2>5. ctl.text # Nudge
      BY <1>1, NamesDiffer, SMT DEF DispInv, WhereInv
  <2>. QED BY <1>1, <1>5, <2>1, <2>2, <2>3, <2>4, <2>5, MarkRaisedKeeps, SMT
<1>. QED BY <1>2, <1>3, <1>4, <1>5, Zenon DEF Nudged

-----------------------------------------------------------------------------
(* The answer file and its marker                                          *)

LEMMA ParkAnswerKeeps == ASSUME DispInv, ParkAnswer PROVE DispInv'
<1>1. ctl.pc = "park" /\ UNCHANGED <<pane, marker, registered, charged, mem, sent>>
      /\ answer' = NoAnswer
    BY DEF ParkAnswer, On
<1>2. ctl' \in CtlRecord /\ ctl'.pc = "mark" /\ SameCtl
    BY GoesTo DEF DispInv, DispPcs, Prepare, ParkAnswer
<1>3. ~Answered' /\ answer' \in [to : Text, fresh : BOOLEAN, valid : BOOLEAN]
    BY <1>1, SMT DEF Answered, NoAnswer, Text
<1>4. DispTypeOK'
    BY <1>1, <1>2, <1>3, Zenon DEF DispInv, DispTypeOK
<1>5. PanesInv'
    BY <1>1, Zenon DEF DispInv, PanesInv, Holder, Stranger
<1>6. ChargedFirst'
    BY <1>1, <1>2, SMT DEF DispInv, ChargedFirst, Prepare
<1>7. MemInv'
    BY <1>1, Zenon DEF DispInv, MemInv, Opened
<1>8. WhereInv'
    BY <1>1, <1>2, <1>3, SMT DEF DispInv, WhereInv, SameCtl, Prepare, Stalled, TurnEnded
<1>9. RestInv'
    BY <1>1, <1>2, SMT DEF DispInv, RestInv, AtRest, Status
<1>10. ~marker.unsure => SureTarget' /\ \A p \in Pane : SurePane(p)'
  <2>1. ~marker.unsure => SureTarget'
      BY <1>1, <1>2, SMT DEF DispInv, SureInv, SureTarget, TurnEnded
  <2>. QED BY <1>1, <2>1, Zenon DEF DispInv, SureInv, SurePane
<1>11. SureInv'
    BY <1>1, <1>2, <1>3, <1>10, SMT DEF SureInv
<1>12. HadInv'
    BY <1>1, <1>2, SMT DEF DispInv, HadInv, SameCtl
<1>. QED BY <1>4, <1>5, <1>6, <1>7, <1>8, <1>9, <1>11, <1>12 DEF DispInv

LEMMA WriteMarkerKeeps == ASSUME DispInv, WriteMarker PROVE DispInv'
<1>1. ctl.pc = "mark" /\ UNCHANGED <<pane, registered, charged, mem, sent>>
      /\ marker' = [of |-> ctl.text, unsure |-> mem.restless]
      /\ answer' = [answer EXCEPT !.fresh = FALSE]
    BY DEF WriteMarker, On
<1>2. ctl' \in CtlRecord /\ ctl'.pc = "send" /\ SameCtl
    BY GoesTo DEF DispInv, DispPcs, Prepare, WriteMarker
<1>3. ctl.text \in Prompts /\ mem.mark = NoText /\ mem.agent # NoPane /\ ~mem.new
      /\ mem.restless \in BOOLEAN /\ mem.agent \in Pane
  <2>1. ctl.text \in Prompts /\ mem.mark = NoText /\ mem.agent # NoPane /\ ~mem.new
      BY <1>1, SMT DEF DispInv, WhereInv, Prepare
  <2>2. mem.restless \in BOOLEAN /\ mem.agent \in Pane \cup {NoPane}
      BY SMT DEF DispInv, DispTypeOK, MemRecord
  <2>. QED BY <2>1, <2>2
<1>4. marker'.of = ctl.text /\ marker'.unsure = mem.restless
      /\ marker' \in [of : Prompts \cup {NoText}, unsure : BOOLEAN]
    BY <1>1, <1>3, SMT
<1>5. answer' \in [to : Text, fresh : BOOLEAN, valid : BOOLEAN]
  <2>1. \A b \in BOOLEAN : [answer EXCEPT !.fresh = b]
                            \in [to : Text, fresh : BOOLEAN, valid : BOOLEAN]
      BY SMT DEF DispInv, DispTypeOK
  <2>2. FALSE \in BOOLEAN
      OBVIOUS
  <2>. QED BY <1>1, <2>1, <2>2, Zenon
<1>6. ~mem.restless => ~Answered'
  <2>1. ~mem.restless => answer = NoAnswer
      BY <1>1, SMT DEF DispInv, WhereInv, Answered
  <2>2. [NoAnswer EXCEPT !.fresh = FALSE] = NoAnswer
    <3>1. \A r \in [to : Text, fresh : BOOLEAN, valid : BOOLEAN] :
             \A b \in BOOLEAN : r.fresh = b => [r EXCEPT !.fresh = b] = r
        BY SMT
    <3>2. NoAnswer.fresh = FALSE /\ FALSE \in BOOLEAN
          /\ NoAnswer \in [to : Text, fresh : BOOLEAN, valid : BOOLEAN]
        BY SMT DEF NoAnswer, Text
    <3>. QED BY <3>1, <3>2, Zenon
  <2>. QED BY <1>1, <2>1, <2>2, Zenon DEF Answered
<1>7. DispTypeOK'
    BY <1>1, <1>2, <1>4, <1>5, Zenon DEF DispInv, DispTypeOK
<1>8. PanesInv'
    BY <1>1, Zenon DEF DispInv, PanesInv, Holder, Stranger
<1>9. ChargedFirst'
    BY <1>1, <1>2, SMT DEF DispInv, ChargedFirst, Prepare
<1>10. MemInv'
    BY <1>1, <1>3, NamesDiffer, Zenon DEF DispInv, MemInv, Opened
<1>11. WhereInv'
    BY <1>1, <1>2, <1>3, <1>4, SMT DEF WhereInv, SameCtl, Prepare, Stalled, TurnEnded
<1>12. RestInv'
    BY <1>1, <1>2, SMT DEF DispInv, RestInv, AtRest, Status
<1>13. ~mem.restless => \A p \in Pane : SurePane(p)'
  <2>1. SUFFICES ASSUME ~mem.restless, NEW p \in Pane, pane[p].agent # "none"
                 PROVE  ~pane[p].owes /\ pane[p].box \in {<<>>, <<Typed>>}
                        /\ (pane[p].box # <<>> => pane[p].agent \in {"idle", "dead"})
    <3>1. <<Typed>> # <<Nudge>> /\ <<>> # <<Nudge>>
        BY SMT DEF Typed, Nudge
    <3>. QED BY <1>1, <3>1, Zenon DEF SurePane
  <2>2. CASE p = mem.agent
      BY <1>1, <1>3, <2>1, <2>2, SMT DEF DispInv, RestInv, AtRest
  <2>3. CASE p # mem.agent
      BY <1>3, <2>1, <2>3, Zenon DEF DispInv, PanesInv, Stranger
  <2>. QED BY <2>2, <2>3
<1>14. SureTarget'
    BY <1>1, <1>2, <1>3, NamesDiffer, SMT DEF SureTarget, TurnEnded
<1>15. SureInv'
    BY <1>2, <1>4, <1>6, <1>13, <1>14, SMT DEF SureInv
<1>16. HadInv'
    BY <1>1, <1>2, SMT DEF DispInv, HadInv, SameCtl
<1>. QED BY <1>7, <1>8, <1>9, <1>10, <1>11, <1>12, <1>15, <1>16 DEF DispInv

-----------------------------------------------------------------------------
(* A pane and its agent change                                             *)

Lone(r) == r.agent # "none" => /\ ~r.owes /\ r.box \in {<<>>, <<Typed>>}
                               /\ r.box # <<>> => r.agent \in {"idle", "dead"}
Whole(r) == /\ r.at \in {"new", "gone"} => r.agent = "none"
            /\ r.at # "gone" /\ r.agent = "none" => ~r.owes /\ r.box = <<>>
            /\ r.at = "gone" => r.box = <<>>
Sure(r) == r.agent # "none" =>
              /\ r.owes => r.job = marker.of
              /\ r.box \in {<<>>, <<marker.of>>, <<Nudge>>, <<Typed>>}
              /\ r.box # <<>> => r.agent \in {"idle", "dead"}
              /\ r.box = <<Nudge>> => r.job = marker.of

\* One pane becomes r, and no other bears the role's name.
OnePane(p, r) == /\ pane' = [pane EXCEPT ![p] = r] /\ Whole(r)
                 /\ r.agent # "none" => p \in Holder \/ Holder = {}
                 /\ mem.agent \notin {NoPane, p} => Lone(r)
LEMMA OnePaneIs ==
    ASSUME DispInv, NEW p \in Pane, NEW r \in PaneRecord, OnePane(p, r), mem'.agent = mem.agent
    PROVE  /\ pane' \in [Pane -> PaneRecord] /\ pane'[p] = r
           /\ \A q \in Pane \ {p} : pane'[q] = pane[q]
           /\ PanesInv'
<1>1. pane \in [Pane -> PaneRecord]
    BY DEF DispInv, DispTypeOK
<1>2. /\ pane' \in [Pane -> PaneRecord] /\ pane'[p] = r
      /\ \A q \in Pane \ {p} : pane'[q] = pane[q]
    BY <1>1, SMT DEF OnePane
<1>3. \A q \in Pane : Whole(pane[q])
    BY Zenon DEF DispInv, PanesInv, Whole
<1>4. \A q \in Pane : Whole(pane'[q])
    BY <1>2, <1>3, Zenon DEF OnePane
<1>5. \A q, q2 \in Holder' : q = q2
  <2>1. Holder' \subseteq Holder \cup {p}
      BY <1>2, Zenon DEF Holder
  <2>2. p \in Holder' => r.agent # "none"
      BY <1>2, Zenon DEF Holder
  <2>3. \A q, q2 \in Holder : q = q2
      BY Zenon DEF DispInv, PanesInv
  <2>. QED BY <2>1, <2>2, <2>3, SMT DEF OnePane
<1>6. mem'.agent # NoPane => \A q \in Pane \ {mem'.agent} : Stranger(q)'
  <2>1. SUFFICES ASSUME mem.agent # NoPane, NEW q \in Pane \ {mem.agent} PROVE Lone(pane'[q])
      BY Zenon DEF Stranger, Lone
  <2>2. CASE q = p
      BY <1>2, <2>1, <2>2, SMT DEF OnePane
  <2>3. CASE q # p
      BY <1>2, <2>1, <2>3, Zenon DEF DispInv, PanesInv, Stranger, Lone
  <2>. QED BY <2>2, <2>3
<1>7. PanesInv'
    BY <1>4, <1>5, <1>6, Zenon DEF PanesInv, Whole
<1>. QED BY <1>2, <1>7

\* The agent, Herdr or the operator changes a pane.
WorldOn(p, r) ==
    /\ OnePane(p, r) /\ Elsewhere /\ marker' = marker
    /\ p \in {mem.agent, mem.role, mem.adopted} =>
          r.at \in {"run", "gone"} \/ (r.at = "elsewhere" /\ r.agent = "none")
    /\ p = mem.agent /\ mem.mark = NoText /\ ~mem.restless
       /\ ctl.pc \notin {"turn", "nudged"} =>
          /\ ~r.owes /\ r.box = <<>>
          /\ mem.new \/ r.at = "gone" \/ r.agent \notin {"working", "blocked"}
    /\ ~marker.unsure =>
          /\ Sure(r)
          /\ p = mem.agent /\ r.agent # "none" =>
                /\ ctl.pc \in Busy => r.job = marker.of /\ r.box = <<>>
                /\ mem.mark \in Prompts =>
                      /\ r.box \in {<<>>, <<marker.of>>}
                      /\ r.agent \in {"working", "blocked"} => r.job = marker.of
LEMMA WorldKeeps ==
    ASSUME DispInv, NEW p \in Pane, NEW r \in PaneRecord, WorldOn(p, r),
           answer' \in [to : Text, fresh : BOOLEAN, valid : BOOLEAN],
           ~marker.unsure /\ Answered' => answer'.fresh /\ answer'.to = marker.of,
           WhereInv', HadInv'
    PROVE  DispInv'
<1>1. /\ registered' = registered /\ charged' = charged /\ mem' = mem /\ ctl' = ctl
      /\ sent' = sent /\ marker' = marker
    BY DEF WorldOn, Elsewhere
<1>2. /\ pane' \in [Pane -> PaneRecord] /\ pane'[p] = r
      /\ \A q \in Pane \ {p} : pane'[q] = pane[q]
      /\ PanesInv'
    BY <1>1, OnePaneIs DEF WorldOn
<1>3. DispTypeOK'
    BY <1>1, <1>2, Zenon DEF DispInv, DispTypeOK
<1>4. ChargedFirst'
    BY <1>1, Zenon DEF DispInv, ChargedFirst
<1>5. mem \in MemRecord
    BY DEF DispInv, DispTypeOK
<1>6. MemInv'
  <2>1. \A q \in {mem.agent, mem.role, mem.adopted} : q \in Pane \cup {NoPane}
      BY <1>5, SMT DEF MemRecord
  <2>2. \A q \in {mem.agent, mem.role, mem.adopted} : Opened(q)
            => (q # NoPane => \/ pane'[q].at \in {"run", "gone"}
                              \/ pane'[q].at = "elsewhere" /\ pane'[q].agent = "none")
      BY <1>2, <2>1, SMT DEF Opened, WorldOn
  <2>. QED BY <1>1, <2>2, Zenon DEF DispInv, MemInv, Opened
<1>7. RestInv'
  <2>1. SUFFICES ASSUME mem.agent # NoPane, mem.mark = NoText, ~mem.restless,
                        ctl.pc \notin {"turn", "nudged"}
                 PROVE  IF mem.new THEN ~pane'[mem.agent].owes /\ pane'[mem.agent].box = <<>>
                                   ELSE AtRest(mem.agent)'
      BY <1>1, Zenon DEF RestInv
  <2>2. mem.agent \in Pane
      BY <1>5, <2>1, SMT DEF MemRecord
  <2>3. CASE p = mem.agent
    <3>1. ~r.owes /\ r.box = <<>>
              /\ (mem.new \/ r.at = "gone" \/ r.agent \notin {"working", "blocked"})
        BY <2>1, <2>3, Zenon DEF WorldOn
    <3>. QED BY <1>1, <1>2, <2>3, <3>1, SMT DEF AtRest, Status
  <2>4. CASE p # mem.agent
    <3>1. pane'[mem.agent] = pane[mem.agent]
        BY <1>2, <2>2, <2>4
    <3>. QED BY <1>1, <2>1, <3>1, Zenon DEF DispInv, RestInv, AtRest, Status
  <2>. QED BY <2>3, <2>4
<1>8. ASSUME ~marker.unsure PROVE (\A q \in Pane : SurePane(q)') /\ SureTarget'
  <2>1. \A q \in Pane : Sure(pane[q])
      BY <1>8, Zenon DEF DispInv, SureInv, SurePane, Sure
  <2>2. \A q \in Pane : Sure(pane'[q])
      BY <1>2, <1>8, <2>1, Zenon DEF WorldOn
  <2>3. \A q \in Pane : SurePane(q)'
      BY <1>1, <2>2, Zenon DEF SurePane, Sure
  <2>4. SureTarget'
    <3>1. SUFFICES ASSUME mem.agent # NoPane, pane'[mem.agent].agent # "none"
                   PROVE  /\ ctl.pc \in Busy =>
                                pane'[mem.agent].job = marker.of /\ pane'[mem.agent].box = <<>>
                          /\ mem.mark \in Prompts =>
                                /\ pane'[mem.agent].box \in {<<>>, <<marker.of>>}
                                /\ pane'[mem.agent].agent \in {"working", "blocked"} =>
                                      pane'[mem.agent].job = marker.of
        BY <1>1, Zenon DEF SureTarget, Busy
    <3>2. mem.agent \in Pane
        BY <1>5, <3>1, SMT DEF MemRecord
    <3>3. CASE p = mem.agent
        BY <1>2, <1>8, <3>1, <3>3, Zenon DEF WorldOn
    <3>4. CASE p # mem.agent
      <4>1. pane'[mem.agent] = pane[mem.agent]
          BY <1>2, <3>2, <3>4
      <4>. QED BY <1>8, <3>1, <4>1, Zenon DEF DispInv, SureInv, SureTarget, Busy
    <3>. QED BY <3>3, <3>4
  <2>. QED BY <2>3, <2>4
<1>9. SureInv'
    BY <1>1, <1>8, Zenon DEF DispInv, SureInv
<1>. QED BY <1>2, <1>3, <1>4, <1>6, <1>7, <1>9 DEF DispInv

\* The world leaves what the process is at and what it remembers alone.
LEMMA FilesStay ==
    ASSUME DispInv, UNCHANGED <<marker, mem, ctl>>, answer' = answer
    PROVE  /\ WhereInv' /\ HadInv'
           /\ answer' \in [to : Text, fresh : BOOLEAN, valid : BOOLEAN]
           /\ ~marker.unsure /\ Answered' => answer'.fresh /\ answer'.to = marker.of
<1>1. Answered' = Answered /\ ResumableAnswer' = ResumableAnswer
    BY Zenon DEF Answered, ResumableAnswer
<1>2. WhereInv'
    BY <1>1, Zenon DEF DispInv, WhereInv
<1>3. HadInv'
    BY <1>1, Zenon DEF DispInv, HadInv
<1>. QED BY <1>1, <1>2, <1>3, Zenon DEF DispInv, DispTypeOK, SureInv

\* What is known of a pane with an agent.
LEMMA AgentPane ==
    ASSUME DispInv, NEW p \in Pane, pane[p].agent # "none"
    PROVE  /\ pane[p] \in PaneRecord /\ pane[p].at \in {"run", "elsewhere"} /\ p \in Holder
           /\ Status(p) = pane[p].agent /\ Whole(pane[p])
           /\ mem.agent \notin {NoPane, p} => Lone(pane[p])
           /\ p \in {mem.agent, mem.role, mem.adopted} => pane[p].at = "run"
           /\ ~marker.unsure => Sure(pane[p])
           /\ p = mem.agent /\ mem.mark = NoText /\ ~mem.restless
              /\ ctl.pc \notin {"turn", "nudged"} =>
                 /\ ~pane[p].owes /\ pane[p].box = <<>>
                 /\ mem.new \/ pane[p].agent \notin {"working", "blocked"}
           /\ ~marker.unsure /\ p = mem.agent =>
                /\ ctl.pc \in Busy => pane[p].job = marker.of /\ pane[p].box = <<>>
                /\ mem.mark \in Prompts =>
                      /\ pane[p].box \in {<<>>, <<marker.of>>}
                      /\ pane[p].agent \in {"working", "blocked"} => pane[p].job = marker.of
<1>1. pane[p] \in PaneRecord
    BY DEF DispInv, DispTypeOK
<1>2. Whole(pane[p])
    BY Zenon DEF DispInv, PanesInv, Whole
<1>3. pane[p].at \in {"run", "elsewhere"}
    BY <1>1, <1>2, SMT DEF Whole, PaneRecord
<1>4. p \in Holder
    BY <1>3, Zenon DEF Holder
<1>5. p # NoPane
    BY NamesDiffer
<1>6. Status(p) = pane[p].agent
    BY <1>3, <1>5, SMT DEF Status
<1>7. mem.agent \notin {NoPane, p} => Lone(pane[p])
    BY Zenon DEF DispInv, PanesInv, Stranger, Lone
<1>8. p \in {mem.agent, mem.role, mem.adopted} => pane[p].at = "run"
    BY <1>3, <1>5, SMT DEF DispInv, MemInv, Opened
<1>9. ~marker.unsure => Sure(pane[p])
    BY Zenon DEF DispInv, SureInv, SurePane, Sure
<1>10. p = mem.agent /\ mem.mark = NoText /\ ~mem.restless
           /\ ctl.pc \notin {"turn", "nudged"} =>
                 /\ ~pane[p].owes /\ pane[p].box = <<>>
                 /\ mem.new \/ pane[p].agent \notin {"working", "blocked"}
    BY <1>5, <1>6, SMT DEF DispInv, RestInv, AtRest
<1>11. ~marker.unsure /\ p = mem.agent =>
                /\ ctl.pc \in Busy => pane[p].job = marker.of /\ pane[p].box = <<>>
                /\ mem.mark \in Prompts =>
                      /\ pane[p].box \in {<<>>, <<marker.of>>}
                      /\ pane[p].agent \in {"working", "blocked"} => pane[p].job = marker.of
    BY <1>5, Zenon DEF DispInv, SureInv, SureTarget, Busy
<1>. QED BY <1>1, <1>2, <1>3, <1>4, <1>6, <1>7, <1>8, <1>9, <1>10, <1>11

\* A pane whose status is known has an agent.
LEMMA StatusIs ==
    ASSUME DispInv, NEW p \in Pane, Status(p) \in {"idle", "working", "blocked", "dead"}
    PROVE  pane[p].agent = Status(p) /\ pane[p].agent # "none"
BY SMT DEF Status

\* An agent does something, at the pane it has.
ActsIn(p, r) ==
    /\ pane' = [pane EXCEPT ![p] = r] /\ Elsewhere /\ marker' = marker /\ pane[p].agent # "none"
    /\ r.agent # "none" /\ r.at = pane[p].at /\ r.box = pane[p].box /\ r.job = pane[p].job
    /\ r.owes => pane[p].owes
    /\ r.box # <<>> /\ pane[p].agent \in {"idle", "dead"} => r.agent \in {"idle", "dead"}
    /\ r.agent \in {"working", "blocked"} => pane[p].agent \in {"working", "blocked"}
       \/ pane[p].owes
LEMMA AgentActs ==
    ASSUME DispInv, NEW p \in Pane, NEW r \in PaneRecord, ActsIn(p, r)
    PROVE  WorldOn(p, r)
<1>1. /\ pane[p].at \in {"run", "elsewhere"} /\ p \in Holder
      /\ mem.agent \notin {NoPane, p} => Lone(pane[p])
      /\ p \in {mem.agent, mem.role, mem.adopted} => pane[p].at = "run"
    BY AgentPane DEF ActsIn
<1>4. /\ pane' = [pane EXCEPT ![p] = r] /\ Elsewhere /\ marker' = marker
         /\ pane[p].agent # "none"
      /\ r.agent # "none" /\ r.at = pane[p].at /\ r.box = pane[p].box /\ r.job = pane[p].job
      /\ r.owes => pane[p].owes
      /\ r.box # <<>> /\ pane[p].agent \in {"idle", "dead"} => r.agent \in {"idle", "dead"}
      /\ r.agent \in {"working", "blocked"} => pane[p].agent \in {"working", "blocked"}
         \/ pane[p].owes
    BY DEF ActsIn
<1>6. OnePane(p, r)
  <2>1. Whole(r)
      BY <1>1, <1>4 DEF Whole
  <2>2. mem.agent \notin {NoPane, p} => Lone(r)
      BY <1>1, <1>4, Zenon DEF Lone
  <2>. QED BY <1>1, <1>4, <2>1, <2>2, Zenon DEF OnePane
<1>7. p = mem.agent /\ mem.mark = NoText /\ ~mem.restless /\ ctl.pc \notin {"turn", "nudged"} =>
          /\ ~r.owes /\ r.box = <<>>
          /\ mem.new \/ r.at = "gone" \/ r.agent \notin {"working", "blocked"}
  <2>1. p = mem.agent /\ mem.mark = NoText /\ ~mem.restless
            /\ ctl.pc \notin {"turn", "nudged"} =>
                 /\ ~pane[p].owes /\ pane[p].box = <<>>
                 /\ mem.new \/ pane[p].agent \notin {"working", "blocked"}
      BY <1>4, AgentPane
  <2>. QED BY <1>4, <2>1
<1>8. ~marker.unsure =>
          /\ Sure(r)
          /\ p = mem.agent =>
                /\ ctl.pc \in Busy => r.job = marker.of /\ r.box = <<>>
                /\ mem.mark \in Prompts =>
                      /\ r.box \in {<<>>, <<marker.of>>}
                      /\ r.agent \in {"working", "blocked"} => r.job = marker.of
  <2>1. ~marker.unsure =>
          /\ Sure(pane[p])
          /\ p = mem.agent =>
                /\ ctl.pc \in Busy => pane[p].job = marker.of /\ pane[p].box = <<>>
                /\ mem.mark \in Prompts =>
                      /\ pane[p].box \in {<<>>, <<marker.of>>}
                      /\ pane[p].agent \in {"working", "blocked"} => pane[p].job = marker.of
      BY <1>4, AgentPane
  <2>2. ~marker.unsure => Sure(r)
      BY <1>4, <2>1, Zenon DEF Sure
  <2>3. ~marker.unsure /\ p = mem.agent =>
                /\ ctl.pc \in Busy => r.job = marker.of /\ r.box = <<>>
                /\ mem.mark \in Prompts =>
                      /\ r.box \in {<<>>, <<marker.of>>}
                      /\ r.agent \in {"working", "blocked"} => r.job = marker.of
      BY <1>4, <2>1, Zenon DEF Sure
  <2>. QED BY <2>2, <2>3
<1>9. WorldOn(p, r)
    BY <1>1, <1>4, <1>6, <1>7, <1>8, Zenon DEF WorldOn
<1>. QED BY <1>9

LEMMA AgentStopsKeeps == ASSUME DispInv, NEW p \in Pane, AgentStops(p) PROVE DispInv'
<1>1. PICK as \in {"idle", "blocked"} : pane' = [pane EXCEPT ![p].agent = as]
    BY DEF AgentStops
<1>2. pane[p].agent = "working" /\ Elsewhere /\ marker' = marker /\ answer' = answer
    BY StatusIs, SMT DEF AgentStops, taskFiles
<1>. DEFINE r == [pane[p] EXCEPT !.agent = as]
<1>3. pane \in [Pane -> PaneRecord] /\ pane[p] \in PaneRecord
    BY DEF DispInv, DispTypeOK
<1>4. pane' = [pane EXCEPT ![p] = r]
    BY <1>1, Zenon
<1>5. r \in PaneRecord
    BY <1>3, PaneFields
<1>6. ActsIn(p, r)
  <2>1. r.agent = as /\ r.owes = pane[p].owes /\ r.at = pane[p].at /\ r.box = pane[p].box
        /\ r.job = pane[p].job
      BY <1>3, SMT DEF PaneRecord
  <2>. HIDE DEF r
  <2>. QED BY <1>2, <1>4, <2>1, Zenon DEF ActsIn
<1>7. UNCHANGED <<marker, mem, ctl>>
    BY <1>2 DEF Elsewhere
<1>. QED BY <1>2, <1>5, <1>6, <1>7, AgentActs, FilesStay, WorldKeeps

LEMMA AgentGoesOnKeeps == ASSUME DispInv, NEW p \in Pane, AgentGoesOn(p) PROVE DispInv'
<1>2. /\ \/ pane[p].agent = "idle" /\ pane[p].owes /\ pane[p].box = <<>>
         \/ pane[p].agent = "blocked"
      /\ Elsewhere /\ marker' = marker /\ answer' = answer
      /\ pane' = [pane EXCEPT ![p].agent = "working"]
    BY StatusIs, SMT DEF AgentGoesOn, taskFiles
<1>. DEFINE r == [pane[p] EXCEPT !.agent = "working"]
<1>3. pane \in [Pane -> PaneRecord] /\ pane[p] \in PaneRecord
    BY DEF DispInv, DispTypeOK
<1>4. pane' = [pane EXCEPT ![p] = r]
    BY <1>2, Zenon
<1>5. r \in PaneRecord
    BY <1>3, PaneFields
<1>6. ActsIn(p, r)
  <2>1. r.agent = "working" /\ r.owes = pane[p].owes /\ r.at = pane[p].at /\ r.box = pane[p].box
        /\ r.job = pane[p].job
      BY <1>3, SMT DEF PaneRecord
  <2>. HIDE DEF r
  <2>. QED BY <1>2, <1>4, <2>1, Zenon DEF ActsIn
<1>7. UNCHANGED <<marker, mem, ctl>>
    BY <1>2 DEF Elsewhere
<1>. QED BY <1>2, <1>5, <1>6, <1>7, AgentActs, FilesStay, WorldKeeps

LEMMA AgentDiesKeeps == ASSUME DispInv, NEW p \in Pane, AgentDies(p) PROVE DispInv'
<1>2. /\ pane[p].agent # "none" /\ Elsewhere /\ marker' = marker /\ answer' = answer
      /\ pane' = [pane EXCEPT ![p].agent = "dead", ![p].owes = FALSE]
    BY StatusIs, SMT DEF AgentDies, taskFiles
<1>. DEFINE r1 == [pane[p] EXCEPT !.agent = "dead"]
            r == [r1 EXCEPT !.owes = FALSE]
<1>3. pane \in [Pane -> PaneRecord] /\ pane[p] \in PaneRecord /\ FALSE \in BOOLEAN
    BY DEF DispInv, DispTypeOK
<1>4. pane' = [pane EXCEPT ![p] = r]
    BY <1>2, <1>3, Zenon
<1>5. r1 \in PaneRecord
    BY <1>3, PaneFields
<1>6. r \in PaneRecord
  <2>. HIDE DEF r1
  <2>. QED BY <1>3, <1>5, PaneFields, Zenon
<1>7. r.agent = "dead" /\ r.owes = FALSE /\ r.at = pane[p].at /\ r.box = pane[p].box
      /\ r.job = pane[p].job
    BY <1>3, SMT DEF PaneRecord
<1>8. ActsIn(p, r)
  <2>. HIDE DEF r
  <2>. QED BY <1>2, <1>4, <1>7, Zenon DEF ActsIn
<1>9. UNCHANGED <<marker, mem, ctl>>
    BY <1>2 DEF Elsewhere
<1>. QED BY <1>2, <1>6, <1>8, <1>9, AgentActs, FilesStay, WorldKeeps

LEMMA AgentAnswersKeeps ==
    ASSUME DispInv, NEW p \in Pane, NEW v \in BOOLEAN, AgentAnswers(p, v) PROVE DispInv'
<1>1. /\ pane[p].agent # "none" /\ pane[p].agent \in {"idle", "working"} /\ Elsewhere
      /\ marker' = marker /\ pane[p].owes
      /\ answer' = [to |-> pane[p].job, fresh |-> TRUE, valid |-> v]
      /\ pane' = [pane EXCEPT ![p].owes = FALSE]
    BY StatusIs, SMT DEF AgentAnswers
<1>. DEFINE r == [pane[p] EXCEPT !.owes = FALSE]
<1>2. pane \in [Pane -> PaneRecord] /\ pane[p] \in PaneRecord /\ FALSE \in BOOLEAN
      /\ pane[p].job \in Text
    BY SMT DEF DispInv, DispTypeOK, PaneRecord
<1>3. r \in PaneRecord
    BY <1>2, PaneFields, Zenon
<1>4. r.agent = pane[p].agent /\ r.owes = FALSE /\ r.at = pane[p].at /\ r.box = pane[p].box
      /\ r.job = pane[p].job
    BY <1>2, SMT DEF PaneRecord
<1>5. pane' = [pane EXCEPT ![p] = r]
    BY <1>1, Zenon
<1>6. ActsIn(p, r)
  <2>. HIDE DEF r
  <2>. QED BY <1>1, <1>4, <1>5, Zenon DEF ActsIn
<1>7. UNCHANGED <<marker, mem, ctl>>
    BY <1>1 DEF Elsewhere
<1>8. answer' \in [to : Text, fresh : BOOLEAN, valid : BOOLEAN] /\ Answered' /\ answer'.fresh
      /\ answer'.to = pane[p].job
    BY <1>1, <1>2, SMT DEF Answered, NoAnswer
<1>9. ~marker.unsure => answer'.to = marker.of
    BY <1>1, <1>8, Zenon DEF DispInv, SureInv, SurePane
<1>10. WhereInv'
  <2>1. ~(ctl.pc = "mark" /\ ~mem.restless)
    <3>1. SUFFICES ASSUME ctl.pc = "mark", ~mem.restless PROVE ~pane[p].owes
        BY <1>1
    <3>2. mem.agent # NoPane /\ mem.mark = NoText
        BY <3>1, SMT DEF DispInv, WhereInv, Prepare
    <3>3. CASE p = mem.agent
        BY <1>1, <3>1, <3>2, <3>3, AgentPane, SMT
    <3>4. CASE p # mem.agent
        BY <1>1, <3>2, <3>4, AgentPane, SMT DEF Lone
    <3>. QED BY <3>3, <3>4
  <2>. QED BY <1>7, <2>1, Zenon DEF DispInv, WhereInv
<1>11. HadInv'
  <2>1. ResumableAnswer => ResumableAnswer'
      BY <1>7, <1>8, Zenon DEF ResumableAnswer
  <2>. QED BY <1>7, <2>1, Zenon DEF DispInv, HadInv
<1>. QED BY <1>3, <1>6, <1>8, <1>9, <1>10, <1>11, AgentActs, WorldKeeps

\* A box that is submitted puts its agent to work.
StartedRec(p, text) ==
    [[[[pane[p] EXCEPT !.agent = "working"] EXCEPT !.box = <<>>]
        EXCEPT !.owes = pane[p].owes \/ text # Typed]
        EXCEPT !.job = IF text \in {Nudge, Typed} THEN pane[p].job ELSE text]
LEMMA StartedIs ==
    ASSUME DispInv, NEW p \in Pane, NEW text \in Text
    PROVE  \E r \in PaneRecord :
              /\ Started(p, text) = [pane EXCEPT ![p] = r]
              /\ r.agent = "working" /\ r.box = <<>> /\ r.at = pane[p].at
              /\ r.job = (IF text \in {Nudge, Typed} THEN pane[p].job ELSE text)
              /\ r.owes => pane[p].owes \/ text # Typed
<1>1. pane \in [Pane -> PaneRecord] /\ pane[p] \in PaneRecord
    BY DEF DispInv, DispTypeOK
<1>2. Started(p, text) = [pane EXCEPT ![p] = StartedRec(p, text)]
    BY <1>1, Zenon DEF Started, StartedRec
<1>. DEFINE r1 == [pane[p] EXCEPT !.agent = "working"]
            r2 == [r1 EXCEPT !.box = <<>>]
            o == pane[p].owes \/ text # Typed
            r3 == [r2 EXCEPT !.owes = o]
            j == IF text \in {Nudge, Typed} THEN pane[p].job ELSE text
            r4 == [r3 EXCEPT !.job = j]
<1>3. o \in BOOLEAN /\ j \in Text /\ <<>> \in Seq(Text)
    BY <1>1, SMT DEF PaneRecord
<1>4. r1 \in PaneRecord
    BY <1>1, PaneFields
<1>. HIDE DEF r1, o, j
<1>5. r2 \in PaneRecord
    BY <1>3, <1>4, PaneFields, Zenon
<1>6. r2.agent = r1.agent /\ r2.box = <<>> /\ r2.at = r1.at /\ r2.job = r1.job
    BY <1>4, SMT DEF PaneRecord
<1>. HIDE DEF r2
<1>7. r3 \in PaneRecord
    BY <1>3, <1>5, PaneFields, Zenon
<1>8. r3.agent = r2.agent /\ r3.box = r2.box /\ r3.at = r2.at /\ r3.owes = o
    BY <1>5, SMT DEF PaneRecord
<1>. HIDE DEF r3
<1>9. r4 \in PaneRecord
    BY <1>3, <1>7, PaneFields, Zenon
<1>10. r4.agent = r3.agent /\ r4.box = r3.box /\ r4.at = r3.at /\ r4.owes = r3.owes
           /\ r4.job = j
    BY <1>7, SMT DEF PaneRecord
<1>11. r4 = StartedRec(p, text)
    BY Zenon DEF r1, r2, r3, r4, o, j, StartedRec
<1>. HIDE DEF r4
<1>12. r1.agent = "working" /\ r1.at = pane[p].at
    BY <1>1, SMT DEF r1, PaneRecord
<1>13. r4.owes => pane[p].owes \/ text # Typed
    BY <1>8, <1>10, Zenon DEF o
<1>14. r4.job = (IF text \in {Nudge, Typed} THEN pane[p].job ELSE text)
    BY <1>10 DEF j
<1>15. Started(p, text) = [pane EXCEPT ![p] = r4] /\ r4.agent = "working" /\ r4.box = <<>>
       /\ r4.at = pane[p].at
    BY <1>2, <1>6, <1>8, <1>10, <1>11, <1>12, Zenon
<1>. QED BY <1>9, <1>13, <1>14, <1>15

LEMMA OperatorPressesEnterKeeps ==
    ASSUME DispInv, NEW p \in Pane, OperatorPressesEnter(p) PROVE DispInv'
<1>. DEFINE text == Head(pane[p].box)
<1>1. /\ pane[p].agent = "idle" /\ pane[p].box # <<>> /\ pane' = Started(p, text)
      /\ Elsewhere /\ marker' = marker /\ answer' = answer
    BY StatusIs, SMT DEF OperatorPressesEnter, taskFiles
<1>2. pane[p] \in PaneRecord /\ text \in Text
    BY <1>1, SMT DEF DispInv, DispTypeOK, PaneRecord
<1>3. \A t : pane[p].box = <<t>> => text = t
    BY SMT
<1>. HIDE DEF text
<1>4. PICK r \in PaneRecord :
              /\ Started(p, text) = [pane EXCEPT ![p] = r]
              /\ r.agent = "working" /\ r.box = <<>> /\ r.at = pane[p].at
              /\ r.job = (IF text \in {Nudge, Typed} THEN pane[p].job ELSE text)
              /\ r.owes => pane[p].owes \/ text # Typed
    BY <1>2, StartedIs
<1>5. pane[p].agent # "none"
    BY <1>1
<1>6. /\ pane[p].at \in {"run", "elsewhere"} /\ p \in Holder
      /\ mem.agent \notin {NoPane, p} => Lone(pane[p])
      /\ p \in {mem.agent, mem.role, mem.adopted} => pane[p].at = "run"
    BY <1>5, AgentPane
<1>7. OnePane(p, r)
  <2>1. Whole(r)
      BY <1>4, <1>6, SMT DEF Whole
  <2>2. mem.agent \notin {NoPane, p} => Lone(r)
      BY <1>1, <1>3, <1>4, <1>6, Zenon DEF Lone
  <2>. QED BY <1>1, <1>4, <1>6, <2>1, <2>2, Zenon DEF OnePane
<1>8. ~(p = mem.agent /\ mem.mark = NoText /\ ~mem.restless /\ ctl.pc \notin {"turn", "nudged"})
    BY <1>1, <1>5, AgentPane
<1>9. ~marker.unsure =>
          /\ Sure(r)
          /\ p = mem.agent =>
                /\ ctl.pc \in Busy => r.job = marker.of /\ r.box = <<>>
                /\ mem.mark \in Prompts =>
                      /\ r.box \in {<<>>, <<marker.of>>}
                      /\ r.agent \in {"working", "blocked"} => r.job = marker.of
  <2>1. SUFFICES ASSUME ~marker.unsure
                 PROVE  /\ Sure(r)
                        /\ p = mem.agent =>
                             /\ ctl.pc \in Busy => r.job = marker.of /\ r.box = <<>>
                             /\ mem.mark \in Prompts =>
                                   /\ r.box \in {<<>>, <<marker.of>>}
                                   /\ r.agent \in {"working", "blocked"} => r.job = marker.of
      OBVIOUS
  <2>2. /\ Sure(pane[p])
        /\ p = mem.agent =>
              /\ ctl.pc \in Busy => pane[p].box = <<>>
              /\ mem.mark \in Prompts => pane[p].box \in {<<>>, <<marker.of>>}
      BY <1>5, <2>1, AgentPane
  <2>3. text \in {marker.of, Nudge, Typed}
      BY <1>1, <1>3, <1>5, <2>2, Zenon DEF Sure
  <2>4. marker.of \notin {Nudge, Typed}
      BY NamesDiffer, SMT DEF DispInv, DispTypeOK, NoText, Nudge, Typed
  <2>5. text = marker.of => r.job = marker.of
      BY <1>4, <2>4, Zenon
  <2>6. text = Nudge => pane[p].box = <<Nudge>> /\ r.job = pane[p].job
    <3>1. pane[p].box \in {<<marker.of>>, <<Nudge>>, <<Typed>>}
        BY <1>1, <1>5, <2>2, Zenon DEF Sure
    <3>2. Nudge # Typed
        BY NamesDiffer
    <3>. QED BY <1>3, <1>4, <2>4, <3>1, <3>2, Zenon
  <2>7. text = Typed => r.job = pane[p].job /\ (r.owes => pane[p].owes)
      BY <1>4, Zenon
  <2>8. r.owes => r.job = marker.of
      BY <1>5, <2>2, <2>3, <2>5, <2>6, <2>7, Zenon DEF Sure
  <2>9. Sure(r)
    <3>1. <<>> # <<Nudge>>
        BY SMT
    <3>. QED BY <1>4, <2>8, <3>1, Zenon DEF Sure
  <2>10. p = mem.agent /\ mem.mark \in Prompts => r.job = marker.of
    <3>1. p = mem.agent /\ mem.mark \in Prompts => text = marker.of
        BY <1>1, <1>3, <2>2, Zenon
    <3>. QED BY <2>5, <3>1
  <2>. QED BY <1>1, <1>4, <2>2, <2>9, <2>10, Zenon
<1>10. WorldOn(p, r)
    BY <1>1, <1>4, <1>6, <1>7, <1>8, <1>9, Zenon DEF WorldOn
<1>11. UNCHANGED <<marker, mem, ctl>>
    BY <1>1 DEF Elsewhere
<1>. QED BY <1>1, <1>10, <1>11, FilesStay, WorldKeeps

\* Panes that are gone.
LEMMA GoneIs ==
    ASSUME DispInv, NEW S
    PROVE  /\ Gone(S) \in [Pane -> PaneRecord]
           /\ \A p \in Pane : IF p \in S THEN /\ Gone(S)[p].at = "gone"
                                                 /\ Gone(S)[p].agent = "none"
                                              /\ Gone(S)[p].box = <<>>
                                                 /\ Gone(S)[p].owes = pane[p].owes
                                         ELSE Gone(S)[p] = pane[p]
<1>1. pane \in [Pane -> PaneRecord]
    BY DEF DispInv, DispTypeOK
<1>2. \A r \in PaneRecord :
           [r EXCEPT !.at = "gone", !.agent = "none", !.box = <<>>] \in PaneRecord
  <2>1. TAKE r \in PaneRecord
  <2>. DEFINE r1 == [r EXCEPT !.at = "gone"]
              r2 == [r1 EXCEPT !.agent = "none"]
  <2>2. r1 \in PaneRecord
      BY <2>1, PaneFields
  <2>3. r2 \in PaneRecord
    <3>. HIDE DEF r1
    <3>. QED BY <2>2, PaneFields, Zenon
  <2>4. <<>> \in Seq(Text)
      OBVIOUS
  <2>5. [r2 EXCEPT !.box = <<>>] \in PaneRecord
    <3>. HIDE DEF r2
    <3>. QED BY <2>3, <2>4, PaneFields, Zenon
  <2>6. [r2 EXCEPT !.box = <<>>] = [r EXCEPT !.at = "gone", !.agent = "none", !.box = <<>>]
      BY Zenon
  <2>. QED BY <2>5, <2>6, Zenon
<1>3. \A r \in PaneRecord : /\ [r EXCEPT !.at = "gone", !.agent = "none", !.box = <<>>].at
                                = "gone"
                            /\ [r EXCEPT !.at = "gone", !.agent = "none", !.box = <<>>].agent
                                = "none"
                            /\ [r EXCEPT !.at = "gone", !.agent = "none", !.box = <<>>].box
                                = <<>>
                            /\ [r EXCEPT !.at = "gone", !.agent = "none", !.box = <<>>].owes
                                = r.owes
    BY SMT DEF PaneRecord
<1>4. \A p \in Pane : pane[p] \in PaneRecord
    BY <1>1
<1>5. \A p \in Pane : Gone(S)[p] =
           IF p \in S THEN [pane[p] EXCEPT !.at = "gone", !.agent = "none", !.box = <<>>]
                                              ELSE pane[p]
    BY Zenon DEF Gone
<1>6. \A p \in Pane : Gone(S)[p] \in PaneRecord
    BY <1>2, <1>4, <1>5, Zenon
<1>7. Gone(S) \in [Pane -> PaneRecord]
    BY <1>6, Zenon DEF Gone
<1>. QED BY <1>3, <1>4, <1>5, <1>7, ZenonT(60)

\* A pane is closed, by an operator or by the command of the process.
LEMMA PaneGoes ==
    ASSUME DispInv, NEW p \in Pane, pane' = Gone({p}), Elsewhere, UNCHANGED taskFiles
    PROVE  DispInv'
<1>1. pane' = Gone({p}) /\ Elsewhere /\ marker' = marker /\ answer' = answer
    BY DEF taskFiles
<1>0. /\ Gone({p}) \in [Pane -> PaneRecord]
      /\ \A q \in Pane : IF q \in {p} THEN /\ Gone({p})[q].at = "gone"
                                              /\ Gone({p})[q].agent = "none"
                                           /\ Gone({p})[q].box = <<>>
                                              /\ Gone({p})[q].owes = pane[q].owes
                                      ELSE Gone({p})[q] = pane[q]
    BY GoneIs
<1>. DEFINE r == Gone({p})[p]
<1>2. /\ r \in PaneRecord /\ r.at = "gone" /\ r.agent = "none" /\ r.box = <<>>
      /\ r.owes = pane[p].owes
    BY <1>0, Zenon
<1>3. pane' = [pane EXCEPT ![p] = r]
  <2>1. pane \in [Pane -> PaneRecord] /\ Gone({p}) \in [Pane -> PaneRecord]
        /\ \A q \in Pane : q # p => Gone({p})[q] = pane[q]
      BY <1>0, Zenon DEF DispInv, DispTypeOK
  <2>. DEFINE g == Gone({p})
  <2>2. g \in [Pane -> PaneRecord] /\ pane' = g /\ r = g[p] /\ \A q \in Pane : q # p
            => g[q] = pane[q]
      BY <1>1, <2>1
  <2>. HIDE DEF g, r
  <2>3. g = [pane EXCEPT ![p] = r]
      BY <2>1, <2>2, SMT
  <2>. QED BY <2>2, <2>3, Zenon
<1>. HIDE DEF r
<1>4. OnePane(p, r)
    BY <1>2, <1>3, Zenon DEF OnePane, Whole, Lone
<1>5. p = mem.agent /\ mem.mark = NoText /\ ~mem.restless /\ ctl.pc \notin {"turn", "nudged"} =>
          ~r.owes /\ r.box = <<>>
  <2>1. p # NoPane
      BY NamesDiffer
  <2>. QED BY <1>2, <2>1, SMT DEF DispInv, RestInv, AtRest
<1>6. WorldOn(p, r)
    BY <1>1, <1>2, <1>4, <1>5, Zenon DEF WorldOn, Sure
<1>7. UNCHANGED <<marker, mem, ctl>>
    BY <1>1 DEF Elsewhere
<1>. QED BY <1>1, <1>2, <1>6, <1>7, FilesStay, WorldKeeps

LEMMA OperatorClosesKeeps == ASSUME DispInv, NEW p \in Pane, OperatorCloses(p) PROVE DispInv'
BY PaneGoes DEF OperatorCloses

LEMMA StrangerOpensKeeps == ASSUME DispInv, NEW p \in Pane, StrangerOpens(p) PROVE DispInv'
<1>1. PICK at \in {"run", "elsewhere"}, box \in {<<>>, <<Typed>>} :
         pane' = [pane EXCEPT ![p].at = at, ![p].agent = "idle", ![p].box = box]
    BY DEF StrangerOpens
<1>2. /\ Elsewhere /\ marker' = marker /\ answer' = answer /\ Holder = {} /\ pane[p].at = "new"
    BY DEF StrangerOpens, taskFiles
<1>3. pane[p] \in PaneRecord /\ ~pane[p].owes
    BY <1>2, SMT DEF DispInv, DispTypeOK, PanesInv
<1>. DEFINE r1 == [pane[p] EXCEPT !.at = at]
            r2 == [r1 EXCEPT !.agent = "idle"]
            r == [r2 EXCEPT !.box = box]
<1>4. r1 \in PaneRecord
    BY <1>3, PaneFields
<1>5. r2 \in PaneRecord
  <2>. HIDE DEF r1
  <2>. QED BY <1>4, PaneFields, Zenon
<1>6. r \in PaneRecord
  <2>1. box \in Seq(Text)
    <3>1. Typed \in Text
        BY DEF Text
    <3>2. <<>> \in Seq(Text) /\ <<Typed>> \in Seq(Text)
        BY <3>1, SMT
    <3>. QED BY <3>2, Zenon
  <2>. HIDE DEF r2
  <2>. QED BY <1>5, <2>1, PaneFields, Zenon
<1>7. r.at = at /\ r.agent = "idle" /\ r.box = box /\ r.owes = pane[p].owes
    BY <1>3, SMT DEF PaneRecord
<1>8. pane' = [pane EXCEPT ![p] = r]
    BY <1>1, Zenon
<1>. HIDE DEF r
<1>9. OnePane(p, r)
    BY <1>2, <1>3, <1>7, <1>8, SMT DEF OnePane, Whole, Lone
<1>10. p \notin {mem.agent, mem.role, mem.adopted}
    BY <1>2, NamesDiffer, SMT DEF DispInv, MemInv, Opened
<1>11. Sure(r)
  <2>1. <<Typed>> # <<Nudge>> /\ <<>> # <<Nudge>>
      BY SMT DEF Typed, Nudge
  <2>. QED BY <1>3, <1>7, <2>1, Zenon DEF Sure
<1>12. WorldOn(p, r)
    BY <1>2, <1>9, <1>10, <1>11, Zenon DEF WorldOn
<1>13. UNCHANGED <<marker, mem, ctl>>
    BY <1>2 DEF Elsewhere
<1>. QED BY <1>2, <1>6, <1>12, <1>13, FilesStay, WorldKeeps

LEMMA IdReusedKeeps == ASSUME DispInv, NEW p \in Pane, IdReused(p) PROVE DispInv'
<1>1. /\ pane[p].at = "gone" /\ pane' = [pane EXCEPT ![p].at = "elsewhere", ![p].owes = FALSE]
      /\ Elsewhere /\ marker' = marker /\ answer' = answer
    BY DEF IdReused, taskFiles
<1>2. pane[p] \in PaneRecord /\ pane[p].agent = "none" /\ pane[p].box = <<>>
    BY <1>1, SMT DEF DispInv, DispTypeOK, PanesInv
<1>. DEFINE r1 == [pane[p] EXCEPT !.at = "elsewhere"]
            r == [r1 EXCEPT !.owes = FALSE]
<1>3. r1 \in PaneRecord
    BY <1>2, PaneFields
<1>4. r \in PaneRecord
  <2>. HIDE DEF r1
  <2>. QED BY <1>3, PaneFields, Zenon
<1>5. r.at = "elsewhere" /\ r.agent = "none" /\ r.box = <<>> /\ r.owes = FALSE
    BY <1>2, SMT DEF PaneRecord
<1>6. pane' = [pane EXCEPT ![p] = r]
    BY <1>1, Zenon
<1>. HIDE DEF r
<1>7. OnePane(p, r)
    BY <1>2, <1>5, <1>6, SMT DEF OnePane, Whole, Lone
<1>8. WorldOn(p, r)
    BY <1>1, <1>5, <1>7, Zenon DEF WorldOn, Sure
<1>9. UNCHANGED <<marker, mem, ctl>>
    BY <1>1 DEF Elsewhere
<1>. QED BY <1>1, <1>4, <1>8, <1>9, FilesStay, WorldKeeps

-----------------------------------------------------------------------------
(* Steps of a process without an agent                                     *)

\* Panes close, or open, or stay; none gets an agent.
PanesQuiet == /\ pane' \in [Pane -> PaneRecord]
              /\ \A p \in Pane :
                    \/ pane'[p] = pane[p]
                    \/ pane'[p].at = "gone" /\ pane'[p].agent = "none" /\ pane'[p].box = <<>>
                    \/ /\ pane[p].at = "new" /\ pane'[p].at = "run" /\ pane'[p].agent = "none"
                       /\ ~pane'[p].owes /\ pane'[p].box = <<>>
LEMMA GoneIsQuiet ==
    ASSUME DispInv, NEW S, pane' = Gone(S)
    PROVE  PanesQuiet
<1>1. /\ Gone(S) \in [Pane -> PaneRecord]
      /\ \A p \in Pane : IF p \in S THEN /\ Gone(S)[p].at = "gone" /\ Gone(S)[p].agent = "none"
                                         /\ Gone(S)[p].box = <<>>
                                            /\ Gone(S)[p].owes = pane[p].owes
                                    ELSE Gone(S)[p] = pane[p]
    BY GoneIs
<1>. QED BY <1>1, Zenon DEF PanesQuiet
LEMMA SameIsQuiet == ASSUME DispInv, pane' = pane PROVE PanesQuiet
BY Zenon DEF PanesQuiet, DispInv, DispTypeOK

LEMMA WithoutAgentKeeps ==
    ASSUME DispInv, PanesQuiet, UNCHANGED <<answer, marker>>,
           mem' \in MemRecord, mem'.agent = NoPane, mem'.mark = NoText,
           Opened(mem.role)', Opened(mem.adopted)',
           ctl' \in CtlRecord, ctl'.pc # "taken",
           registered' \subseteq Pane, charged' \in Nat, sent' \in Nat,
           ChargedFirst', WhereInv', HadInv'
    PROVE  DispInv'
<1>1. DispTypeOK'
    BY Zenon DEF DispInv, DispTypeOK, PanesQuiet
<1>2. PanesInv'
  <2>1. \A p \in Pane : Whole(pane[p])
      BY Zenon DEF DispInv, PanesInv, Whole
  <2>2. \A p \in Pane : Whole(pane'[p])
      BY <2>1, Zenon DEF PanesQuiet, Whole
  <2>3. Holder' \subseteq Holder
      BY SMT DEF Holder, PanesQuiet
  <2>4. \A p, q \in Holder' : p = q
      BY <2>3, Zenon DEF DispInv, PanesInv
  <2>. QED BY <2>2, <2>4, Zenon DEF PanesInv, Whole
<1>3. MemInv'
    BY NamesDiffer, Zenon DEF MemInv, Opened
<1>4. RestInv'
    BY Zenon DEF RestInv
<1>5. ASSUME ~marker.unsure PROVE \A p \in Pane : SurePane(p)'
  <2>1. \A p \in Pane : Sure(pane[p])
      BY <1>5, Zenon DEF DispInv, SureInv, SurePane, Sure
  <2>2. \A p \in Pane : Sure(pane'[p])
      BY <2>1, Zenon DEF PanesQuiet, Sure
  <2>. QED BY <2>2, Zenon DEF SurePane, Sure
<1>6. SureInv'
    BY <1>5, Zenon DEF DispInv, SureInv, SureTarget, Answered
<1>. QED BY <1>1, <1>2, <1>3, <1>4, <1>6 DEF DispInv

LEMMA EmptyMemKnows == /\ EmptyMem.agent = NoPane /\ EmptyMem.role = NoPane
                       /\ EmptyMem.adopted = NoPane /\ EmptyMem.mark = NoText
BY SMT DEF EmptyMem

\* A process that starts, ends or dies remembers nothing.
LEMMA FreshKeeps ==
    ASSUME DispInv, PanesQuiet, UNCHANGED <<answer, marker, charged, sent>>, mem' = EmptyMem,
           ctl' \in CtlRecord, ctl'.pc \in {"off", "idle"}, ctl'.had = FALSE,
               registered' \subseteq Pane
    PROVE  DispInv'
<1>1. /\ mem' \in MemRecord /\ mem'.agent = NoPane /\ mem'.mark = NoText
      /\ mem'.role = NoPane /\ mem'.adopted = NoPane
    BY EmptyMemIs, EmptyMemKnows, Zenon
<1>2. Opened(mem.role)' /\ Opened(mem.adopted)'
    BY <1>1, Zenon DEF Opened
<1>3. ChargedFirst'
    BY SMT DEF DispInv, ChargedFirst, Prepare
<1>4. WhereInv'
    BY SMT DEF WhereInv, Prepare, Stalled, TurnEnded
<1>5. HadInv' /\ charged' \in Nat /\ sent' \in Nat /\ ctl'.pc # "taken"
    BY SMT DEF HadInv, DispInv, DispTypeOK
<1>. QED BY <1>1, <1>2, <1>3, <1>4, <1>5, WithoutAgentKeeps

LEMMA StartProcessKeeps == ASSUME DispInv, StartProcess PROVE DispInv'
<1>1. ctl' = [NoWork EXCEPT !.pc = "idle"] /\ mem' = EmptyMem
      /\ UNCHANGED <<pane, taskFiles, registered, charged, sent>>
    BY DEF StartProcess
<1>2. ctl' \in CtlRecord
    BY <1>1, NoWorkIs, CtlFields DEF DispPcs
<1>3. ctl'.pc = "idle" /\ ctl'.had = FALSE
    BY <1>1, SMT DEF NoWork
<1>4. PanesQuiet
    BY <1>1, SameIsQuiet
<1>. QED BY <1>1, <1>2, <1>3, <1>4, FreshKeeps, Zenon DEF taskFiles, DispInv, DispTypeOK

LEMMA RecallIs ==
    ASSUME DispInv
    PROVE  /\ OwnPaneIds \subseteq Pane
           /\ \A m \in {RecallOwned, RecallNone} :
                 /\ m \in MemRecord /\ m.agent = NoPane /\ m.role = NoPane
                 /\ m.adopted = NoPane /\ m.mark = NoText /\ m.own \subseteq Pane
<1>1. mem \in MemRecord /\ registered \subseteq Pane
    BY DEF DispInv, DispTypeOK
<1>2. OwnPaneIds \subseteq Pane /\ mem.kept \subseteq Pane
    BY <1>1, SMT DEF OwnPaneIds, MemRecord
<1>3. ASSUME NEW S \in SUBSET Pane, NEW K \in SUBSET Pane,
             NEW m, m = [EmptyMem EXCEPT !.own = S, !.kept = K]
      PROVE  /\ m \in MemRecord /\ m.agent = NoPane /\ m.role = NoPane
             /\ m.adopted = NoPane /\ m.mark = NoText /\ m.own \subseteq Pane
  <2>. DEFINE m1 == [EmptyMem EXCEPT !.own = S]
              m2 == [m1 EXCEPT !.kept = K]
  <2>1. m1 \in MemRecord /\ m1.agent = EmptyMem.agent /\ m1.role = EmptyMem.role
        /\ m1.adopted = EmptyMem.adopted /\ m1.mark = EmptyMem.mark /\ m1.own = S
      BY EmptyMemIs, SMT DEF MemRecord
  <2>2. m2 \in MemRecord /\ m2.agent = m1.agent /\ m2.role = m1.role
        /\ m2.adopted = m1.adopted /\ m2.mark = m1.mark /\ m2.own = m1.own
    <3>. HIDE DEF m1
    <3>. QED BY <2>1, SMT DEF MemRecord
  <2>3. m2 = m
      BY <1>3, Zenon
  <2>. HIDE DEF m1, m2
  <2>. QED BY <2>1, <2>2, <2>3, EmptyMemKnows
<1>4. OwnPaneIds \in SUBSET Pane /\ OwnPaneIds \cup registered \in SUBSET Pane
      /\ mem.kept \in SUBSET Pane
    BY <1>1, <1>2
<1>5. /\ RecallOwned \in MemRecord /\ RecallOwned.agent = NoPane /\ RecallOwned.role = NoPane
      /\ RecallOwned.adopted = NoPane /\ RecallOwned.mark = NoText
      /\ RecallOwned.own \subseteq Pane
  <2>. DEFINE S == OwnPaneIds \cup registered
  <2>1. S \in SUBSET Pane /\ RecallOwned = [EmptyMem EXCEPT !.own = S, !.kept = mem.kept]
      BY <1>4 DEF RecallOwned
  <2>. HIDE DEF S
  <2>. QED BY <1>3, <1>4, <2>1
<1>6. /\ RecallNone \in MemRecord /\ RecallNone.agent = NoPane /\ RecallNone.role = NoPane
      /\ RecallNone.adopted = NoPane /\ RecallNone.mark = NoText
      /\ RecallNone.own \subseteq Pane
    BY <1>3, <1>4 DEF RecallNone
<1>. QED BY <1>2, <1>5, <1>6

\* The process that begins to close what is its own, or just ends.
LEMMA EndProcessKeeps == ASSUME DispInv, EndProcess PROVE DispInv'
<1>1. UNCHANGED <<pane, taskFiles, registered, charged, sent>>
    BY DEF EndProcess
<1>2. PanesQuiet
    BY <1>1, SameIsQuiet
<1>3. CASE ctl' = NoWork /\ mem' = EmptyMem
  <2>1. ctl' \in CtlRecord /\ ctl'.pc = "off" /\ ctl'.had = FALSE
      BY <1>3, NoWorkIs, SMT DEF NoWork
  <2>. QED BY <1>1, <1>2, <1>3, <2>1, FreshKeeps, Zenon DEF taskFiles, DispInv, DispTypeOK
<1>4. CASE ctl' = [NoWork EXCEPT !.pc = "idle"] /\ mem' \in {RecallOwned, RecallNone}
  <2>1. ctl' \in CtlRecord
      BY <1>4, NoWorkIs, CtlFields DEF DispPcs
  <2>2. ctl'.pc = "idle" /\ ctl'.had = FALSE
      BY <1>4, SMT DEF NoWork
  <2>3. /\ mem' \in MemRecord /\ mem'.agent = NoPane /\ mem'.mark = NoText
        /\ mem'.role = NoPane /\ mem'.adopted = NoPane
      BY <1>4, RecallIs, Zenon
  <2>4. Opened(mem.role)' /\ Opened(mem.adopted)'
      BY <2>3, Zenon DEF Opened
  <2>5. ChargedFirst'
      BY <1>1, <2>2, SMT DEF DispInv, ChargedFirst, Prepare
  <2>6. WhereInv'
      BY <2>2, SMT DEF WhereInv, Prepare, Stalled, TurnEnded
  <2>7. HadInv' /\ charged' \in Nat /\ sent' \in Nat /\ ctl'.pc # "taken"
            /\ registered' \subseteq Pane
      BY <1>1, <2>2, SMT DEF HadInv, DispInv, DispTypeOK
  <2>. QED BY <1>1, <1>2, <2>1, <2>3, <2>4, <2>5, <2>6, <2>7, WithoutAgentKeeps DEF taskFiles
<1>. QED BY <1>3, <1>4, Zenon DEF EndProcess

LEMMA ProcessEndsKeeps == ASSUME DispInv, ProcessEnds PROVE DispInv'
<1>1. ctl' = NoWork /\ mem' = EmptyMem
          /\ UNCHANGED <<pane, taskFiles, registered, charged, sent>>
    BY DEF ProcessEnds
<1>2. ctl' \in CtlRecord /\ ctl'.pc = "off" /\ ctl'.had = FALSE
    BY <1>1, NoWorkIs, SMT DEF NoWork
<1>3. PanesQuiet
    BY <1>1, SameIsQuiet
<1>. QED BY <1>1, <1>2, <1>3, FreshKeeps, Zenon DEF taskFiles, DispInv, DispTypeOK

LEMMA CrashKeeps == ASSUME DispInv, Crash PROVE DispInv'
<1>1. ctl' = NoWork /\ mem' = EmptyMem
          /\ UNCHANGED <<pane, taskFiles, registered, charged, sent>>
    BY DEF Crash
<1>2. ctl' \in CtlRecord /\ ctl'.pc = "off" /\ ctl'.had = FALSE
    BY <1>1, NoWorkIs, SMT DEF NoWork
<1>3. PanesQuiet
    BY <1>1, SameIsQuiet
<1>. QED BY <1>1, <1>2, <1>3, FreshKeeps, Zenon DEF taskFiles, DispInv, DispTypeOK

\* A pane that is gone takes the agent in it out of the process's memory.
LEMMA ForgetIs ==
    ASSUME DispInv, NEW S, mem.agent = NoPane \/ mem.role \in S
    PROVE  /\ ForgetPane(mem, S) \in MemRecord
           /\ ForgetPane(mem, S).agent = NoPane /\ ForgetPane(mem, S).mark = NoText
           /\ ForgetPane(mem, S).role \in {NoPane, mem.role}
           /\ ForgetPane(mem, S).adopted \in {NoPane, mem.adopted}
<1>. DEFINE own2 == mem.own \ S
            kept2 == mem.kept \ S
            adopted2 == IF mem.adopted \in S THEN NoPane ELSE mem.adopted
            role2 == IF mem.role \in S THEN NoPane ELSE mem.role
            agent2 == IF mem.agent \in S \/ mem.role \in S THEN NoPane ELSE mem.agent
            mark2 == IF mem.agent \in S THEN NoText ELSE mem.mark
            stall2 == IF mem.agent \in S THEN NoText ELSE mem.stall
            restless2 == IF mem.agent \in S THEN FALSE ELSE mem.restless
            m1 == [mem EXCEPT !.own = own2]
            m2 == [m1 EXCEPT !.kept = kept2]
            m3 == [m2 EXCEPT !.adopted = adopted2]
            m4 == [m3 EXCEPT !.role = role2]
            m5 == [m4 EXCEPT !.agent = agent2]
            m6 == [m5 EXCEPT !.mark = mark2]
            m7 == [m6 EXCEPT !.stall = stall2]
            m8 == [m7 EXCEPT !.restless = restless2]
<1>1. mem \in MemRecord
    BY DEF DispInv, DispTypeOK
<1>2. /\ own2 \in SUBSET Pane /\ kept2 \in SUBSET Pane
      /\ adopted2 \in Pane \cup {NoPane} /\ role2 \in Pane \cup {NoPane}
      /\ agent2 \in Pane \cup {NoPane} /\ mark2 \in Text \cup {"restored"} /\ stall2 \in Text
    BY <1>1, SMT DEF MemRecord, Text
<1>3. restless2 \in BOOLEAN
  <2>1. mem.restless \in BOOLEAN /\ FALSE \in BOOLEAN
      BY <1>1, SMT DEF MemRecord
  <2>. QED BY <2>1, Zenon
<1>4. agent2 = NoPane /\ mark2 = NoText
  <2>1. mem.agent # NoPane => mem.role = mem.agent
      BY Zenon DEF DispInv, MemInv
  <2>2. mem.agent = NoPane => mem.mark = NoText
      BY Zenon DEF DispInv, MemInv
  <2>. QED BY <2>1, <2>2, Zenon
<1>5. role2 \in {NoPane, mem.role} /\ adopted2 \in {NoPane, mem.adopted}
    BY Zenon
<1>6. ForgetPane(mem, S) = m8
    BY Zenon DEF ForgetPane
<1>. HIDE DEF own2, kept2, adopted2, role2, agent2, mark2, stall2, restless2
<1>11. m1 \in MemRecord
    BY <1>1, <1>2, MemFields, Zenon
<1>. HIDE DEF m1
<1>12. m2 \in MemRecord
    BY <1>2, <1>11, MemFields, Zenon
<1>. HIDE DEF m2
<1>13. m3 \in MemRecord /\ m3.adopted = adopted2
  <2>1. m3 \in MemRecord
      BY <1>2, <1>12, MemFields, Zenon
  <2>. QED BY <1>12, <2>1, SMT DEF MemRecord
<1>. HIDE DEF m3
<1>14. m4 \in MemRecord /\ m4.adopted = m3.adopted /\ m4.role = role2
  <2>1. m4 \in MemRecord
      BY <1>2, <1>13, MemFields, Zenon
  <2>. QED BY <1>13, <2>1, SMT DEF MemRecord
<1>. HIDE DEF m4
<1>15. m5 \in MemRecord /\ m5.adopted = m4.adopted /\ m5.role = m4.role /\ m5.agent = agent2
  <2>1. m5 \in MemRecord
      BY <1>2, <1>14, MemFields, Zenon
  <2>. QED BY <1>14, <2>1, SMT DEF MemRecord
<1>. HIDE DEF m5
<1>16. m6 \in MemRecord /\ m6.adopted = m5.adopted /\ m6.role = m5.role /\ m6.agent = m5.agent
       /\ m6.mark = mark2
  <2>1. m6 \in MemRecord
      BY <1>2, <1>15, MemFields, Zenon
  <2>. QED BY <1>15, <2>1, SMT DEF MemRecord
<1>. HIDE DEF m6
<1>17. m7 \in MemRecord /\ m7.adopted = m6.adopted /\ m7.role = m6.role /\ m7.agent = m6.agent
       /\ m7.mark = m6.mark
  <2>1. m7 \in MemRecord
      BY <1>2, <1>16, MemFields, Zenon
  <2>. QED BY <1>16, <2>1, SMT DEF MemRecord
<1>. HIDE DEF m7
<1>18. m8 \in MemRecord
    BY <1>3, <1>17, MemFields, Zenon
<1>19. m8.adopted = m7.adopted /\ m8.role = m7.role /\ m8.agent = m7.agent /\ m8.mark = m7.mark
    BY <1>17, SMT DEF MemRecord
<1>. HIDE DEF m8
<1>. QED BY <1>4, <1>5, <1>6, <1>13, <1>14, <1>15, <1>16, <1>17, <1>18, <1>19, Zenon

LEMMA ForgetKeeps ==
    ASSUME DispInv, NEW S, mem.agent = NoPane \/ mem.role \in S, mem' = ForgetPane(mem, S),
           registered' \subseteq Pane, UNCHANGED <<pane, answer, marker, charged, sent>>,
           ctl' \in CtlRecord, ctl'.pc # "taken", ChargedFirst', WhereInv', HadInv'
    PROVE  DispInv'
<1>1. PanesQuiet
    BY SameIsQuiet
<1>2. /\ mem' \in MemRecord /\ mem'.agent = NoPane /\ mem'.mark = NoText
      /\ mem'.role \in {NoPane, mem.role} /\ mem'.adopted \in {NoPane, mem.adopted}
    BY ForgetIs
<1>3. \A p \in {mem.role, mem.adopted} : Opened(p) /\ p \in Pane \cup {NoPane}
    BY SMT DEF DispInv, MemInv, DispTypeOK, MemRecord
<1>6. Opened(mem.role)' /\ Opened(mem.adopted)'
    BY <1>2, <1>3, Zenon DEF Opened
<1>7. charged' \in Nat /\ sent' \in Nat
    BY DEF DispInv, DispTypeOK
<1>. QED BY <1>1, <1>2, <1>6, <1>7, WithoutAgentKeeps

\* A step that leaves all of it alone but for the pane it closes.
LEMMA StillKeeps ==
    ASSUME DispInv, UNCHANGED <<pane, answer, marker, registered, charged, mem, ctl, sent>>
    PROVE  DispInv'
<1>1. DispTypeOK' /\ ChargedFirst'
    BY Zenon DEF DispInv, DispTypeOK, ChargedFirst
<1>2. PanesInv' /\ MemInv'
  <2>1. Holder' = Holder /\ \A p \in Pane : Stranger(p)' = Stranger(p)
      BY Zenon DEF Holder, Stranger
  <2>2. PanesInv'
      BY <2>1, Zenon DEF DispInv, PanesInv
  <2>3. MemInv'
      BY Zenon DEF DispInv, MemInv, Opened
  <2>. QED BY <2>2, <2>3
<1>3. WhereInv' /\ HadInv'
    BY FilesStay
<1>4. RestInv'
    BY Zenon DEF DispInv, RestInv, AtRest, Status
<1>5. SureInv'
    BY Zenon DEF DispInv, SureInv, SurePane, SureTarget, Answered
<1>. QED BY <1>1, <1>2, <1>3, <1>4, <1>5 DEF DispInv

LEMMA ReleaseRoleKeeps == ASSUME DispInv, ReleaseRole PROVE DispInv'
<1>1. ctl.pc = "release" /\ UNCHANGED <<pane, taskFiles, registered, charged, mem, sent>>
    BY DEF ReleaseRole, On
<1>2. CASE To("idle")
  <2>1. Moves("idle")
      BY <1>1, Zenon DEF Moves
  <2>. QED BY <1>1, <1>2, <2>1, MoveKeeps, Zenon
<1>3. CASE UNCHANGED ctl
    BY <1>1, <1>3, StillKeeps DEF taskFiles
<1>. QED BY <1>2, <1>3, Zenon DEF ReleaseRole

-----------------------------------------------------------------------------
(* Closing a pane                                                          *)

LEMMA ForgottenKeeps ==
    ASSUME DispInv, ClosingInv, closing.at \in {"look", "close", "closed"}, NEW p,
           p = closing.pane,
           PaneForgotten(p), UNCHANGED <<pane, taskFiles, charged, sent>>
    PROVE  DispInv'
<1>1. registered' = registered \ {p} /\ mem' = ForgetPane(mem, {p})
    BY DEF PaneForgotten
<1>2. mem.agent = NoPane \/ mem.role \in {p}
    BY SMT DEF DispInv, ClosingInv, MemInv, On
<1>3. registered' \subseteq Pane /\ UNCHANGED <<pane, answer, marker, charged, sent>>
    BY <1>1, SMT DEF DispInv, DispTypeOK, taskFiles
<1>4. ctl \in CtlRecord /\ ctl.pc \in {"release", "ensure", "restored", "idle"}
    BY DEF DispInv, DispTypeOK, ClosingInv
<1>5. ResumableAnswer = (Answered /\ marker.of = ctl.text /\ answer.fresh)
      /\ ResumableAnswer' = (Answered /\ marker.of = ctl'.text /\ answer.fresh)
    BY <1>3, Zenon DEF ResumableAnswer, Answered
<1>6. CASE ctl.pc = "release"
  <2>1. ctl' = [ctl EXCEPT !.pc = "idle"]
      BY <1>6 DEF PaneForgotten, On
  <2>2. ctl' \in CtlRecord /\ ctl'.pc = "idle" /\ SameCtl
      BY <2>1, GoesTo DEF DispInv, DispPcs, To
  <2>3. ChargedFirst'
      BY <1>3, <1>6, <2>2, SMT DEF DispInv, ChargedFirst, Prepare
  <2>4. WhereInv'
      BY <2>2, SMT DEF WhereInv, Prepare, Stalled, TurnEnded
  <2>5. HadInv'
      BY <1>6, <2>2, SMT DEF DispInv, HadInv, SameCtl
  <2>. QED BY <1>1, <1>2, <1>3, <2>2, <2>3, <2>4, <2>5, ForgetKeeps
<1>7. CASE ctl.pc = "restored"
  <2>1. ctl.text \in Prompts /\ ~ctl.had
      BY <1>7, SMT DEF DispInv, WhereInv, HadInv, Prepare, Stalled
  <2>. DEFINE c1 == [ctl EXCEPT !.pc = "ensure"]
  <2>2. c1 \in CtlRecord
      BY CtlFields DEF DispInv, DispTypeOK, DispPcs, Prepare
  <2>3. ctl' = [c1 EXCEPT !.replacing = TRUE] /\ TRUE \in BOOLEAN
      BY <1>7, Zenon DEF PaneForgotten, On
  <2>4. ctl' \in CtlRecord
    <3>. HIDE DEF c1
    <3>. QED BY <2>2, <2>3, CtlFields, Zenon
  <2>5. ctl'.pc = "ensure" /\ ctl'.text = ctl.text /\ ctl'.had = ctl.had
      BY <1>4, <2>3, SMT DEF CtlRecord
  <2>6. ChargedFirst'
      BY <1>3, <1>7, <2>5, SMT DEF DispInv, ChargedFirst, Prepare
  <2>7. WhereInv'
      BY <2>1, <2>5, SMT DEF WhereInv, Prepare, Stalled, TurnEnded
  <2>8. HadInv' /\ ctl'.pc # "taken"
      BY <2>1, <2>5, Zenon DEF HadInv
  <2>. QED BY <1>1, <1>2, <1>3, <2>4, <2>6, <2>7, <2>8, ForgetKeeps
<1>8. CASE ctl.pc \in {"ensure", "idle"}
  <2>1. ctl' = ctl
      BY <1>8, Zenon DEF PaneForgotten, On
  <2>2. ChargedFirst'
      BY <1>3, <2>1, Zenon DEF DispInv, ChargedFirst
  <2>3. WhereInv'
      BY <1>8, <2>1, SMT DEF DispInv, WhereInv, Prepare, Stalled, TurnEnded
  <2>4. HadInv' /\ ctl'.pc # "taken"
      BY <1>5, <1>8, <2>1, Zenon DEF DispInv, HadInv
  <2>. QED BY <1>1, <1>2, <1>3, <1>4, <2>1, <2>2, <2>3, <2>4, ForgetKeeps
<1>. QED BY <1>4, <1>6, <1>7, <1>8

LEMMA StaysOpenKeeps ==
    ASSUME DispInv, ClosingInv, closing.at \in {"look", "close", "closed"}, NEW p \in Pane,
           p = closing.pane, StaysOpen(p), UNCHANGED <<pane, taskFiles, charged, sent>>
    PROVE  DispInv'
<1>1. UNCHANGED registered /\ ctl.pc \in {"release", "ensure", "restored", "idle"}
    BY DEF StaysOpen, ClosingInv
<1>2. mem \in MemRecord /\ ctl \in CtlRecord /\ SameMem(mem, mem)
    BY Zenon DEF DispInv, DispTypeOK, SameMem
<1>3. CASE ctl.pc = "restored"
  <2>1. Raised("unclean", mem)
      BY <1>3 DEF StaysOpen, On
  <2>. QED BY <1>1, <1>2, <1>3, <2>1, RaisedKeeps, SMT
<1>4. CASE ctl.pc = "release"
  <2>1. To("idle") /\ UNCHANGED mem
      BY <1>4 DEF StaysOpen, On
  <2>2. Moves("idle")
      BY <1>4, Zenon DEF Moves
  <2>. QED BY <1>1, <2>1, <2>2, MoveKeeps, Zenon
<1>5. CASE ctl.pc = "idle"
  <2>1. UNCHANGED <<ctl, mem>>
      BY <1>5 DEF StaysOpen, On
  <2>. QED BY <1>1, <2>1, StillKeeps DEF taskFiles
<1>6. CASE ctl.pc = "ensure"
  <2>1. UNCHANGED ctl /\ mem' = [mem EXCEPT !.own = @ \cup {p}, !.adopted = NoPane]
      BY <1>6, Zenon DEF StaysOpen, On
  <2>2. mem.agent = NoPane /\ mem.mark = NoText
      BY <1>6, SMT DEF ClosingInv, DispInv, MemInv
  <2>. DEFINE own2 == mem.own \cup {p}
              m1 == [mem EXCEPT !.own = own2]
  <2>3. own2 \in SUBSET Pane
      BY <1>2, SMT DEF MemRecord
  <2>4. m1 \in MemRecord
      BY <1>2, <2>3, MemFields, Zenon
  <2>5. mem' = [m1 EXCEPT !.adopted = NoPane]
      BY <2>1, Zenon
  <2>6. mem' \in MemRecord
    <3>. HIDE DEF m1
    <3>. QED BY <2>4, <2>5, MemFields, Zenon
  <2>7. mem'.agent = mem.agent /\ mem'.role = mem.role /\ mem'.mark = mem.mark
        /\ mem'.adopted = NoPane
      BY <1>2, <2>1, SMT DEF MemRecord
  <2>8. Opened(mem.role)' /\ Opened(mem.adopted)'
    <3>1. Opened(mem.role)
        BY DEF DispInv, MemInv
    <3>. QED BY <2>7, <3>1, Zenon DEF Opened
  <2>9. ChargedFirst' /\ HadInv'
    <3>1. ResumableAnswer' = ResumableAnswer
        BY <2>1, Zenon DEF ResumableAnswer, Answered, taskFiles
    <3>. QED BY <2>1, <3>1, Zenon DEF DispInv, ChargedFirst, HadInv
  <2>10. WhereInv'
      BY <1>6, <2>1, SMT DEF DispInv, WhereInv, Prepare, Stalled, TurnEnded
  <2>11. PanesQuiet
      BY SameIsQuiet
  <2>12. registered' \subseteq Pane /\ charged' \in Nat /\ sent' \in Nat /\ ctl'.pc # "taken"
         /\ UNCHANGED <<answer, marker>>
      BY <1>1, <1>6, <2>1, SMT DEF DispInv, DispTypeOK, taskFiles
  <2>. QED BY <1>2, <2>1, <2>2, <2>6, <2>7, <2>8, <2>9, <2>10, <2>11, <2>12, WithoutAgentKeeps
<1>. QED BY <1>1, <1>3, <1>4, <1>5, <1>6

\* The looks, and the command between them.
LEMMA LookAtPaneKeeps ==
    ASSUME DispInv, ClosingInv, NEW p \in Pane, LookAtPane(p)
    PROVE  DispInv'
<1>1. closing.at = "look" /\ p = closing.pane /\ UNCHANGED <<pane, taskFiles, charged, sent>>
    BY DEF LookAtPane
<1>2. CASE UNCHANGED <<registered, mem, ctl>>
    BY <1>1, <1>2, StillKeeps DEF taskFiles
<1>3. CASE PaneForgotten(p)
    BY <1>1, <1>3, ForgottenKeeps
<1>4. CASE StaysOpen(p)
    BY <1>1, <1>4, StaysOpenKeeps
<1>. QED BY <1>2, <1>3, <1>4, Zenon DEF LookAtPane
LEMMA ConfirmCloseKeeps ==
    ASSUME DispInv, ClosingInv, NEW p \in Pane, ConfirmClose(p)
    PROVE  DispInv'
<1>1. closing.at = "closed" /\ p = closing.pane /\ UNCHANGED <<pane, taskFiles, charged, sent>>
    BY DEF ConfirmClose
<1>2. CASE PaneForgotten(p)
    BY <1>1, <1>2, ForgottenKeeps
<1>3. CASE StaysOpen(p)
    BY <1>1, <1>3, StaysOpenKeeps
<1>. QED BY <1>2, <1>3, Zenon DEF ConfirmClose
LEMMA EndPaneKeeps == ASSUME DispInv, NEW p \in Pane, EndPane(p) PROVE DispInv'
BY StillKeeps DEF EndPane, taskFiles
LEMMA SendCloseKeeps == ASSUME DispInv, ClosingInv, NEW p \in Pane, SendClose(p) PROVE DispInv'
<1>1. UNCHANGED <<taskFiles, charged, sent>> /\ closing.at = "close" /\ p = closing.pane
    BY DEF SendClose
<1>2. CASE UNCHANGED <<pane, registered, mem, ctl>>
    BY <1>1, <1>2, StillKeeps DEF taskFiles
<1>3. CASE pane' = Gone({p}) /\ UNCHANGED <<registered, mem, ctl>>
  <2>1. Elsewhere
      BY <1>1, <1>3 DEF Elsewhere
  <2>. QED BY <1>1, <1>3, <2>1, PaneGoes
<1>4. CASE UNCHANGED pane /\ StaysOpen(p)
    BY <1>1, <1>4, StaysOpenKeeps
<1>. QED BY <1>2, <1>3, <1>4, Zenon DEF SendClose

-----------------------------------------------------------------------------
(* Finding or starting an agent                                            *)

LEMMA OpenPaneKeeps == ASSUME DispInv, NEW p \in Pane, NEW b \in BOOLEAN, OpenPane(p, b)
    PROVE DispInv'
<1>1. /\ ctl.pc = "ensure" /\ mem.agent = NoPane /\ pane[p].at = "new"
      /\ pane' = [pane EXCEPT ![p].at = "run"] /\ UNCHANGED <<taskFiles, charged, sent>>
    BY DEF OpenPane, On
<1>2. pane \in [Pane -> PaneRecord] /\ pane[p] \in PaneRecord /\ mem \in MemRecord
          /\ ctl \in CtlRecord
    BY DEF DispInv, DispTypeOK
<1>3. PanesQuiet
  <2>. DEFINE r == [pane[p] EXCEPT !.at = "run"]
  <2>1. r \in PaneRecord
      BY <1>2, PaneFields
  <2>2. r.at = "run" /\ r.agent = pane[p].agent /\ r.owes = pane[p].owes /\ r.box = pane[p].box
      BY <1>2, SMT DEF PaneRecord
  <2>3. pane' = [pane EXCEPT ![p] = r]
      BY <1>1, Zenon
  <2>. HIDE DEF r
  <2>4. pane' \in [Pane -> PaneRecord] /\ pane'[p] = r /\ \A q \in Pane : q # p
            => pane'[q] = pane[q]
      BY <1>2, <2>1, <2>3, SMT
  <2>5. pane[p].agent = "none" /\ ~pane[p].owes /\ pane[p].box = <<>>
      BY <1>1, SMT DEF DispInv, PanesInv
  <2>. QED BY <1>1, <2>2, <2>4, <2>5, Zenon DEF PanesQuiet
<1>4. CASE ctl' = NoWork /\ mem' = EmptyMem /\ UNCHANGED registered
  <2>1. ctl' \in CtlRecord /\ ctl'.pc = "off" /\ ctl'.had = FALSE
      BY <1>4, NoWorkIs, SMT DEF NoWork
  <2>. QED BY <1>1, <1>3, <1>4, <2>1, FreshKeeps, Zenon DEF taskFiles, DispInv, DispTypeOK
<1>5. CASE /\ registered' = registered \cup {p}
              /\ mem' = [mem EXCEPT !.own = @ \cup {p}, !.role = p]
           /\ To("start")
  <2>. DEFINE own2 == mem.own \cup {p}
              m1 == [mem EXCEPT !.own = own2]
  <2>1. own2 \in SUBSET Pane /\ p \in Pane \cup {NoPane} /\ p # NoPane
      BY <1>2, NamesDiffer, SMT DEF MemRecord
  <2>2. m1 \in MemRecord
      BY <1>2, <2>1, MemFields, Zenon
  <2>3. mem' = [m1 EXCEPT !.role = p]
      BY <1>5, Zenon
  <2>4. mem' \in MemRecord
    <3>. HIDE DEF m1
    <3>. QED BY <2>1, <2>2, <2>3, MemFields, Zenon
  <2>5. mem'.agent = mem.agent /\ mem'.role = p /\ mem'.adopted = mem.adopted
            /\ mem'.mark = mem.mark
      BY <1>2, <1>5, SMT DEF MemRecord
  <2>6. mem'.agent = NoPane /\ mem'.mark = NoText
      BY <1>1, <2>5, Zenon DEF DispInv, MemInv
  <2>7. ctl' \in CtlRecord /\ ctl'.pc = "start" /\ SameCtl
      BY <1>5, GoesTo DEF DispInv, DispPcs, Prepare
  <2>8. ChargedFirst'
      BY <1>1, <2>7, SMT DEF DispInv, ChargedFirst, Prepare
  <2>9. WhereInv'
      BY <1>1, <2>1, <2>5, <2>6, <2>7, SMT DEF DispInv, WhereInv, SameCtl, Prepare, Stalled,
         TurnEnded
  <2>10. HadInv'
    <3>1. ResumableAnswer' = ResumableAnswer
        BY <1>1, <2>7, Zenon DEF ResumableAnswer, Answered, SameCtl, taskFiles
    <3>. QED BY <1>1, <2>7, <3>1, SMT DEF DispInv, HadInv, SameCtl
  <2>11. pane'[p].at = "run"
      BY <1>1, <1>2, SMT
  <2>12. mem.adopted # NoPane =>
            \/ pane'[mem.adopted].at \in {"run", "gone"}
            \/ pane'[mem.adopted].at = "elsewhere" /\ pane'[mem.adopted].agent = "none"
    <3>1. mem.adopted # NoPane => mem.adopted \in Pane /\ Opened(mem.adopted)
        BY <1>2, SMT DEF DispInv, MemInv, MemRecord
    <3>2. mem.adopted \in Pane => \/ pane'[mem.adopted] = pane[mem.adopted]
                                  \/ pane'[mem.adopted].at \in {"run", "gone"}
        BY <1>3, Zenon DEF PanesQuiet
    <3>. QED BY <3>1, <3>2, Zenon DEF Opened
  <2>13. Opened(mem.role)' /\ Opened(mem.adopted)'
      BY <2>5, <2>11, <2>12, Zenon DEF Opened
  <2>14. registered' \subseteq Pane /\ charged' \in Nat /\ sent' \in Nat /\ ctl'.pc # "taken"
         /\ UNCHANGED <<answer, marker>>
      BY <1>1, <1>5, <2>7, SMT DEF DispInv, DispTypeOK, taskFiles
  <2>. QED BY <1>3, <2>4, <2>6, <2>7, <2>8, <2>9, <2>10, <2>13, <2>14, WithoutAgentKeeps
<1>. QED BY <1>4, <1>5, Zenon DEF OpenPane

\* Where nobody else holds the role's name, no other pane has an agent.
LEMMA LoneHolder ==
    ASSUME DispInv, NEW p, Holder \subseteq {p}
    PROVE  \A q \in Pane \ {p} : pane[q].agent = "none"
<1>1. \A q \in Pane : pane[q] \in PaneRecord
    BY DEF DispInv, DispTypeOK
<1>2. \A q \in Pane : pane[q].agent # "none" => pane[q].at \in {"run", "elsewhere"}
    BY <1>1, SMT DEF DispInv, PanesInv, PaneRecord
<1>. QED BY <1>2, Zenon DEF Holder

\* An agent that was restored by Herdr is adopted.
LEMMA AdoptedKeeps ==
    ASSUME DispInv, PanesRest, NEW p \in Pane, Holder = {p}, pane[p].at = "run",
           mem' \in MemRecord, mem'.agent = p, mem'.role = p, mem'.adopted = p,
               mem'.mark = "restored",
           ctl' \in CtlRecord, ctl'.pc \in {"settle", "charge", "idle"},
           ChargedFirst', WhereInv', HadInv'
    PROVE  DispInv'
<1>1. pane' = pane /\ marker' = marker /\ answer' = answer
    BY DEF PanesRest
<1>2. DispTypeOK'
    BY Zenon DEF DispInv, DispTypeOK, PanesRest
<1>3. PanesInv'
  <2>1. \A q \in Pane \ {p} : pane[q].agent = "none"
      BY LoneHolder
  <2>2. Holder' = Holder
      BY <1>1, Zenon DEF Holder
  <2>. QED BY <1>1, <2>1, <2>2, Zenon DEF DispInv, PanesInv, Stranger
<1>4. "restored" \notin Prompts /\ "restored" # NoText
    BY NamesDiffer DEF NoText
<1>5. MemInv'
    BY <1>1, <1>4, NamesDiffer, SMT DEF MemInv, Opened
<1>6. RestInv'
    BY <1>4, Zenon DEF RestInv
<1>7. ctl'.pc \notin Busy \cup {"taken"}
    BY SMT DEF Busy, TurnEnded
<1>8. SureTarget'
    BY <1>4, <1>7, Zenon DEF SureTarget, Busy
<1>9. SureInv'
    BY <1>1, <1>7, <1>8, SurePanesStay, Zenon DEF SureInv
<1>. QED BY <1>2, <1>3, <1>5, <1>6, <1>9 DEF DispInv

LEMMA AdoptKeeps == ASSUME DispInv, NEW p \in Pane, Adopt(p) PROVE DispInv'
<1>1. ctl.pc = "ensure" /\ mem.agent = NoPane /\ Holder = {p}
          /\ UNCHANGED <<taskFiles, charged, sent>>
      /\ mem \in MemRecord /\ SameMem(mem, mem)
    BY Zenon DEF Adopt, On, DispInv, DispTypeOK, SameMem
<1>2. CASE Raised("refused", mem) /\ UNCHANGED <<pane, registered>>
    BY <1>1, <1>2, RaisedKeeps, SMT
<1>3. CASE (\E err \in {"approval", "refused"} : Raised(err, mem))
          /\ UNCHANGED <<pane, registered>>
  <2>1. PICK err \in {"approval", "refused"} : Raised(err, mem)
      BY <1>3
  <2>. QED BY <1>1, <1>3, <2>1, RaisedKeeps, SMT
<1>. DEFINE m == [mem EXCEPT !.agent = p, !.role = p, !.adopted = p, !.mark = "restored"]
<1>4. CASE /\ pane[p].at = "run" /\ registered' = registered \cup {p} /\ UNCHANGED pane
           /\ IF ctl.replacing THEN Raised("unclean", m) ELSE mem' = m /\ To("settle")
  <2>. DEFINE m1 == [mem EXCEPT !.agent = p]
              m2 == [m1 EXCEPT !.role = p]
              m3 == [m2 EXCEPT !.adopted = p]
              m4 == [m3 EXCEPT !.mark = "restored"]
  <2>1. p \in Pane \cup {NoPane}
      OBVIOUS
  <2>2. m1 \in MemRecord
      BY <1>1, <2>1, MemFields
  <2>3. m2 \in MemRecord
    <3>. HIDE DEF m1
    <3>. QED BY <2>1, <2>2, MemFields, Zenon
  <2>4. m3 \in MemRecord
    <3>. HIDE DEF m2
    <3>. QED BY <2>1, <2>3, MemFields, Zenon
  <2>5. m4 \in MemRecord
    <3>. HIDE DEF m3
    <3>. QED BY <2>4, MemFields, Zenon
  <2>6. m = m4
      BY Zenon
  <2>7. m.agent = p /\ m.role = p /\ m.adopted = p /\ m.mark = "restored"
      BY <1>1, SMT DEF MemRecord
  <2>8. m \in MemRecord
      BY <2>5, <2>6, Zenon
  <2>. HIDE DEF m
  <2>9. /\ mem' \in MemRecord /\ SameMem(m, mem')
        /\ ctl' \in CtlRecord /\ SameCtl /\ ctl'.pc \in {"settle", "charge", "idle"}
    <3>1. CASE Raised("unclean", m)
      <4>1. /\ mem' \in MemRecord /\ SameMem(m, mem')
            /\ ctl' \in CtlRecord /\ SameCtl /\ ctl'.pc \in {"follow", "charge", "idle"}
            /\ ctl'.pc = "follow" => "unclean" = "missing"
          BY <2>8, <3>1, RaisedDoes DEF DispInv
      <4>. QED BY <4>1, SMT
    <3>2. CASE mem' = m /\ To("settle")
      <4>1. ctl' \in CtlRecord /\ ctl'.pc = "settle" /\ SameCtl
          BY <3>2, GoesTo DEF DispInv, DispPcs, Prepare
      <4>. QED BY <2>8, <3>2, <4>1, Zenon DEF SameMem
    <3>. QED BY <1>4, <3>1, <3>2, Zenon
  <2>10. mem'.agent = p /\ mem'.role = p /\ mem'.adopted = p /\ mem'.mark = "restored"
             /\ p # NoPane
      BY <2>7, <2>9, NamesDiffer DEF SameMem
  <2>11. PanesRest
    <3>1. registered' \subseteq Pane
        BY <1>4, SMT DEF DispInv, DispTypeOK
    <3>. QED BY <1>1, <1>4, <3>1, Zenon DEF PanesRest, taskFiles, DispInv, DispTypeOK
  <2>12. ChargedFirst'
      BY <1>1, <2>9, SMT DEF DispInv, ChargedFirst, Prepare
  <2>13. WhereInv'
      BY <1>1, <2>9, <2>10, SMT DEF DispInv, WhereInv, SameCtl, Prepare, Stalled, TurnEnded
  <2>14. HadInv'
    <3>1. ResumableAnswer' = ResumableAnswer
        BY <1>1, <2>9, Zenon DEF ResumableAnswer, Answered, SameCtl, taskFiles
    <3>. QED BY <1>1, <2>9, <3>1, SMT DEF DispInv, HadInv, SameCtl
  <2>. QED BY <1>1, <1>4, <2>9, <2>10, <2>11, <2>12, <2>13, <2>14, AdoptedKeeps
<1>. QED BY <1>2, <1>3, <1>4, Zenon DEF Adopt

LEMMA CloseDeadKeeps == ASSUME DispInv, NEW p \in Pane, CloseDead(p) PROVE DispInv'
<1>1. /\ ctl.pc = "ensure" /\ mem.agent = NoPane /\ pane[p].at = "run"
      /\ UNCHANGED <<pane, taskFiles, charged, ctl, sent>>
      /\ mem' = [mem EXCEPT !.adopted = p] /\ registered' = registered \cup {p}
      /\ mem \in MemRecord /\ ctl' \in CtlRecord
    BY Zenon DEF CloseDead, On, DispInv, DispTypeOK
<1>2. ChargedFirst'
    BY <1>1, Zenon DEF DispInv, ChargedFirst
<1>3. HadInv'
  <2>1. ResumableAnswer' = ResumableAnswer
      BY <1>1, Zenon DEF ResumableAnswer, Answered, taskFiles
  <2>. QED BY <1>1, <2>1, Zenon DEF DispInv, HadInv
<1>4. WhereInv'
    BY <1>1, SMT DEF DispInv, WhereInv, Prepare, Stalled, TurnEnded
<1>5. mem' \in MemRecord
    BY <1>1, MemFields, Zenon
<1>6. mem'.agent = mem.agent /\ mem'.role = mem.role /\ mem'.mark = mem.mark
      /\ mem'.adopted = p
    BY <1>1, SMT DEF MemRecord
<1>7. mem'.agent = NoPane /\ mem'.mark = NoText /\ Opened(mem.role)' /\ Opened(mem.adopted)'
  <2>1. Opened(mem.role) /\ mem.mark = NoText
      BY <1>1 DEF DispInv, MemInv
  <2>. QED BY <1>1, <1>6, <2>1, Zenon DEF Opened
<1>8. PanesQuiet
    BY <1>1, SameIsQuiet
<1>9. registered' \subseteq Pane /\ charged' \in Nat /\ sent' \in Nat /\ ctl'.pc # "taken"
      /\ UNCHANGED <<answer, marker>>
    BY <1>1, SMT DEF DispInv, DispTypeOK, taskFiles
<1>. QED BY <1>1, <1>2, <1>3, <1>4, <1>5, <1>7, <1>8, <1>9, WithoutAgentKeeps

LEMMA StartAgentKeeps == ASSUME DispInv, StartAgent PROVE DispInv'
<1>1. ctl.pc = "start" /\ UNCHANGED <<taskFiles, registered, charged, sent>>
      /\ mem \in MemRecord /\ SameMem(mem, mem)
    BY Zenon DEF StartAgent, On, DispInv, DispTypeOK, SameMem
<1>2. CASE Raised("refused", mem) /\ UNCHANGED pane
    BY <1>1, <1>2, RaisedKeeps, SMT
<1>3. CASE /\ Holder = {} /\ pane[mem.role].at = "run"
           /\ \E as \in {"idle", "blocked"} : pane' = [pane EXCEPT ![mem.role].agent = as]
           /\ mem' = [mem EXCEPT !.agent = mem.role, !.new = TRUE]
           /\ To(IF ctl.replacing THEN "ready" ELSE "settle")
  <2>. DEFINE p == mem.role
  <2>1. PICK as \in {"idle", "blocked"} : pane' = [pane EXCEPT ![p].agent = as]
      BY <1>3
  <2>2. mem.agent = NoPane /\ p # NoPane /\ p \in Pane /\ p \in Pane \cup {NoPane}
            /\ mem.mark = NoText
      BY <1>1, SMT DEF DispInv, WhereInv, MemInv, MemRecord
  <2>3. pane[p] \in PaneRecord /\ ~pane[p].owes /\ pane[p].box = <<>> /\ pane[p].agent = "none"
    <3>1. pane[p] \in PaneRecord
        BY <2>2 DEF DispInv, DispTypeOK
    <3>2. pane[p].agent = "none"
        BY <1>3, <2>2, SMT DEF Holder
    <3>. QED BY <1>3, <2>2, <3>1, <3>2, SMT DEF DispInv, PanesInv
  <2>. DEFINE r == [pane[p] EXCEPT !.agent = as]
  <2>4. r \in PaneRecord
      BY <2>3, PaneFields
  <2>5. r.agent = as /\ r.at = pane[p].at /\ r.owes = pane[p].owes /\ r.box = pane[p].box
      BY <2>3, SMT DEF PaneRecord
  <2>6. pane' = [pane EXCEPT ![p] = r]
      BY <2>1, Zenon
  <2>. HIDE DEF r
  <2>7. /\ pane' \in [Pane -> PaneRecord] /\ pane'[p] = r
        /\ \A q \in Pane \ {p} : pane'[q] = pane[q]
      BY <2>2, <2>4, <2>6, SMT DEF DispInv, DispTypeOK
  <2>. DEFINE m1 == [mem EXCEPT !.agent = p]
  <2>8. m1 \in MemRecord
      BY <1>1, <2>2, MemFields
  <2>9. mem' \in MemRecord
    <3>1. mem' = [m1 EXCEPT !.new = TRUE] /\ TRUE \in BOOLEAN
        BY <1>3, Zenon
    <3>. HIDE DEF m1
    <3>. QED BY <2>8, <3>1, MemFields, Zenon
  <2>10. mem'.agent = p /\ mem'.role = p /\ mem'.adopted = mem.adopted /\ mem'.mark = NoText
             /\ mem'.new = TRUE
      BY <1>1, <1>3, <2>2, SMT DEF MemRecord
  <2>. HIDE DEF p
  <2>11. ctl' \in CtlRecord /\ ctl'.pc \in {"ready", "settle"} /\ SameCtl
         /\ (ctl'.pc = "ready" => ctl.replacing)
    <3>1. CASE ctl.replacing
      <4>1. To("ready")
          BY <1>3, <3>1, Zenon
      <4>. QED BY <3>1, <4>1, GoesTo DEF DispInv, DispPcs, Prepare
    <3>2. CASE ~ctl.replacing
      <4>1. To("settle")
          BY <1>3, <3>2, Zenon
      <4>2. ctl' \in CtlRecord /\ ctl'.pc = "settle" /\ SameCtl
          BY <4>1, GoesTo DEF DispInv, DispPcs, Prepare
      <4>. QED BY <4>2
    <3>. QED BY <3>1, <3>2
  <2>12. answer' = answer /\ marker' = marker /\ registered' = registered /\ charged' = charged
             /\ sent' = sent
      BY <1>1 DEF taskFiles
  <2>13. DispTypeOK'
      BY <2>7, <2>9, <2>11, <2>12, Zenon DEF DispInv, DispTypeOK
  <2>14. \A q \in Pane \ {p} : pane[q].agent = "none"
      BY <1>3, LoneHolder
  <2>15. PanesInv'
    <3>1. \A q \in Pane : Whole(pane[q])
        BY Zenon DEF DispInv, PanesInv, Whole
    <3>2. Whole(r)
      <4>1. r.at = "run" /\ ~r.owes /\ r.box = <<>>
          BY <1>3, <2>3, <2>5, Zenon DEF p
      <4>. QED BY <4>1, SMT DEF Whole
    <3>3. \A q \in Pane : Whole(pane'[q])
        BY <2>7, <3>1, <3>2, Zenon
    <3>4. Holder' \subseteq {p}
        BY <2>7, <2>14, Zenon DEF Holder
    <3>5. \A q \in Pane \ {p} : Stranger(q)'
        BY <2>7, <2>14, Zenon DEF Stranger
    <3>. QED BY <2>10, <3>3, <3>4, <3>5, Zenon DEF PanesInv, Whole
  <2>16. ChargedFirst'
      BY <1>1, <2>11, <2>12, SMT DEF DispInv, ChargedFirst, Prepare
  <2>17. MemInv'
    <3>1. pane'[p].at = "run"
        BY <1>3, <2>5, <2>7 DEF p
    <3>2. Opened(mem.adopted)'
      <4>1. Opened(mem.adopted) /\ (mem.adopted # NoPane => mem.adopted \in Pane)
          BY <1>1, SMT DEF DispInv, MemInv, MemRecord
      <4>2. mem'.adopted = mem.adopted
          BY <2>10
      <4>3. CASE mem.adopted = p
          BY <3>1, <4>2, <4>3, Zenon DEF Opened
      <4>4. CASE mem.adopted # p
          BY <2>7, <4>1, <4>2, <4>4, Zenon DEF Opened
      <4>. QED BY <4>3, <4>4
    <3>. QED BY <2>2, <2>10, <3>1, <3>2, NamesDiffer, Zenon DEF MemInv, Opened
  <2>18. WhereInv'
      BY <1>1, <2>2, <2>10, <2>11, SMT DEF DispInv, WhereInv, SameCtl, Prepare, Stalled,
         TurnEnded
  <2>19. RestInv'
      BY <2>3, <2>5, <2>7, <2>10, Zenon DEF RestInv
  <2>20. ~marker.unsure => \A q \in Pane : SurePane(q)'
    <3>1. Sure(r)
      <4>1. <<>> # <<Nudge>>
          BY SMT
      <4>. QED BY <2>3, <2>5, <4>1, Zenon DEF Sure
    <3>2. \A q \in Pane : Sure(pane'[q])
        BY <2>7, <2>14, <3>1, ZenonT(60) DEF Sure
    <3>. QED BY <2>12, <3>2, Zenon DEF SurePane, Sure
  <2>21. SureInv'
    <3>1. ctl'.pc \notin Busy \cup {"taken"}
        BY <2>11, SMT DEF Busy, TurnEnded
    <3>2. SureTarget'
        BY <2>10, <3>1, NamesDiffer, Zenon DEF SureTarget, Busy
    <3>. QED BY <2>12, <2>20, <3>1, <3>2, Zenon DEF DispInv, SureInv, Answered
  <2>22. HadInv'
    <3>1. ResumableAnswer' = ResumableAnswer
        BY <2>11, <2>12, Zenon DEF ResumableAnswer, Answered, SameCtl
    <3>. QED BY <1>1, <2>11, <3>1, SMT DEF DispInv, HadInv, SameCtl
  <2>. QED BY <2>13, <2>15, <2>16, <2>17, <2>18, <2>19, <2>21, <2>22 DEF DispInv
<1>. QED BY <1>2, <1>3, Zenon DEF StartAgent

-----------------------------------------------------------------------------
(* A prompt reaches the pane of the agent                                  *)

\* The process does something to its agent's pane.
AtTarget(r) ==
    /\ OnePane(mem.agent, r) /\ mem.agent # NoPane /\ r.at = pane[mem.agent].at
    /\ mem.agent \in Holder
    /\ UNCHANGED <<answer, marker, registered, charged>>
    /\ mem'.agent = mem.agent /\ mem'.role = mem.role /\ mem'.adopted = mem.adopted
    /\ mem'.new = mem.new
    /\ mem'.mark = mem.mark
       \/ (~mem.new /\ mem'.mark \in {Nudge, marker.of} /\ mem'.mark # NoText)
    /\ mem'.mark # NoText \/ ctl'.pc \in {"turn", "nudged"}
    /\ ~marker.unsure =>
          /\ Sure(r)
          /\ r.agent # "none" =>
                /\ ctl'.pc \in Busy => r.job = marker.of /\ r.box = <<>>
                /\ mem'.mark \in Prompts =>
                      /\ r.box \in {<<>>, <<marker.of>>}
                      /\ r.agent \in {"working", "blocked"} => r.job = marker.of
LEMMA TargetKeeps ==
    ASSUME DispInv, NEW r \in PaneRecord, AtTarget(r), mem' \in MemRecord,
           ctl' \in CtlRecord, ctl'.pc # "taken", sent' \in Nat,
           ChargedFirst', WhereInv', HadInv'
    PROVE  DispInv'
<1>. DEFINE p == mem.agent
<1>1. p \in Pane /\ p # NoPane
    BY SMT DEF DispInv, DispTypeOK, MemRecord, AtTarget
<1>2. /\ pane' \in [Pane -> PaneRecord] /\ pane'[p] = r
      /\ \A q \in Pane \ {p} : pane'[q] = pane[q]
      /\ PanesInv'
    BY <1>1, OnePaneIs DEF AtTarget
<1>3. /\ answer' = answer /\ marker' = marker /\ registered' = registered /\ charged' = charged
      /\ mem'.agent = p /\ mem'.role = mem.role /\ mem'.adopted = mem.adopted
         /\ mem'.new = mem.new
      /\ mem'.mark = mem.mark
         \/ (~mem.new /\ mem'.mark \in {Nudge, marker.of} /\ mem'.mark # NoText)
      /\ mem'.mark # NoText \/ ctl'.pc \in {"turn", "nudged"}
      /\ r.at = pane[p].at
    BY Zenon DEF AtTarget
<1>4. DispTypeOK'
    BY <1>2, <1>3, Zenon DEF DispInv, DispTypeOK
<1>5. MemInv'
  <2>1. \A q \in {mem.agent, mem.role, mem.adopted} : Opened(q) /\ (q # NoPane => q \in Pane)
    <3>1. /\ mem.agent # NoPane => mem.agent \in Pane
          /\ mem.role # NoPane => mem.role \in Pane
          /\ mem.adopted # NoPane => mem.adopted \in Pane
        BY SMT DEF DispInv, DispTypeOK, MemRecord
    <3>. QED BY <3>1, Zenon DEF DispInv, MemInv
  <2>2. \A q \in {mem.agent, mem.role, mem.adopted} : q # NoPane =>
            \/ pane'[q].at \in {"run", "gone"}
            \/ pane'[q].at = "elsewhere" /\ pane'[q].agent = "none"
    <3>1. pane[p].at \in {"run", "gone"}
        BY <1>1, <2>1, Zenon DEF AtTarget, Holder, Opened
    <3>2. TAKE q \in {mem.agent, mem.role, mem.adopted}
    <3>3. CASE q = p
        BY <1>2, <1>3, <3>1, <3>3
    <3>4. CASE q # p
        BY <1>2, <2>1, <3>4, Zenon DEF Opened
    <3>. QED BY <3>3, <3>4
  <2>3. mem'.mark \in Prompts => marker'.of = mem'.mark
      BY <1>3, NamesDiffer, Zenon DEF DispInv, MemInv
  <2>4. mem'.mark \notin {NoText, "restored"} => ~mem'.new
      BY <1>3, Zenon DEF DispInv, MemInv
  <2>5. mem.agent # NoPane => mem.role = mem.agent
      BY Zenon DEF DispInv, MemInv
  <2>. QED BY <1>1, <1>3, <2>2, <2>3, <2>4, <2>5, Zenon DEF MemInv, Opened
<1>6. RestInv'
    BY <1>3, Zenon DEF RestInv
<1>7. ASSUME ~marker.unsure PROVE (\A q \in Pane : SurePane(q)') /\ SureTarget'
  <2>1. \A q \in Pane : Sure(pane[q])
      BY <1>7, Zenon DEF DispInv, SureInv, SurePane, Sure
  <2>2. /\ Sure(r)
        /\ r.agent # "none" =>
              /\ ctl'.pc \in Busy => r.job = marker.of /\ r.box = <<>>
              /\ mem'.mark \in Prompts =>
                    /\ r.box \in {<<>>, <<marker.of>>}
                    /\ r.agent \in {"working", "blocked"} => r.job = marker.of
      BY <1>7 DEF AtTarget
  <2>3. \A q \in Pane : Sure(pane'[q])
      BY <1>2, <2>1, <2>2, Zenon
  <2>4. \A q \in Pane : SurePane(q)'
      BY <1>3, <2>3, Zenon DEF SurePane, Sure
  <2>5. SureTarget'
      BY <1>2, <1>3, <2>2, Zenon DEF SureTarget, Busy
  <2>. QED BY <2>4, <2>5
<1>8. SureInv'
    BY <1>3, <1>7, Zenon DEF DispInv, SureInv, Answered
<1>. QED BY <1>2, <1>4, <1>5, <1>6, <1>8 DEF DispInv

LEMMA SubmitStalledKeeps == ASSUME DispInv, SubmitStalled PROVE DispInv'
<1>. DEFINE spent == [mem EXCEPT !.stall = NoText]
<1>1. ctl.pc = "enter" /\ UNCHANGED <<taskFiles, registered, charged, sent>>
          /\ mem \in MemRecord
    BY Zenon DEF SubmitStalled, On, DispInv, DispTypeOK
<1>2. spent \in MemRecord /\ SameMem(mem, spent)
    BY <1>1, StallIs DEF Text
<1>3. CASE (\E err \in {"approval", "refused", "unclean"} : Raised(err, spent))
          /\ UNCHANGED pane
  <2>1. PICK err \in {"approval", "refused", "unclean"} : Raised(err, spent)
      BY <1>3
  <2>. HIDE DEF spent
  <2>. QED BY <1>1, <1>2, <1>3, <2>1, RaisedKeeps, SMT
<1>4. CASE /\ Status0 = "idle" /\ pane' = Started(Target, ctl.text) /\ mem' = spent
              /\ To("confirm")
  <2>1. /\ mem.agent # NoPane /\ mem.mark = ctl.text /\ ctl.text \in Prompts
           /\ marker.of = ctl.text
        /\ mem.agent \in Pane /\ ctl.text \in Text /\ ctl.text # NoText
           /\ ctl.text \notin {Nudge, Typed}
      BY <1>1, NamesDiffer, SMT DEF DispInv, WhereInv, MemInv, Stalled, DispTypeOK, MemRecord,
         Text
  <2>2. PICK r \in PaneRecord :
              /\ Started(mem.agent, ctl.text) = [pane EXCEPT ![mem.agent] = r]
              /\ r.agent = "working" /\ r.box = <<>> /\ r.at = pane[mem.agent].at
              /\ r.job = (IF ctl.text \in {Nudge, Typed} THEN pane[mem.agent].job ELSE ctl.text)
              /\ r.owes => pane[mem.agent].owes \/ ctl.text # Typed
      BY <2>1, StartedIs
  <2>3. r.job = marker.of
      BY <2>1, <2>2
  <2>4. pane[mem.agent].agent # "none"
      BY <1>4, <2>1, StatusIs, SMT DEF Status0, Target
  <2>5. pane[mem.agent].at \in {"run", "elsewhere"} /\ mem.agent \in Holder
      BY <2>1, <2>4, AgentPane
  <2>6. OnePane(mem.agent, r)
    <3>1. Whole(r)
        BY <2>2, <2>5, SMT DEF Whole
    <3>. QED BY <1>4, <2>2, <2>5, <3>1, Zenon DEF OnePane, Target
  <2>7. /\ mem' \in MemRecord /\ mem'.agent = mem.agent /\ mem'.role = mem.role
        /\ mem'.adopted = mem.adopted /\ mem'.mark = mem.mark /\ mem'.new = mem.new
      BY <1>2, <1>4 DEF SameMem
  <2>8. ctl' \in CtlRecord /\ ctl'.pc = "confirm" /\ SameCtl
      BY <1>4, GoesTo DEF DispInv, DispPcs, Stalled
  <2>9. AtTarget(r)
    <3>1. Sure(r)
      <4>1. <<>> # <<Nudge>>
          BY SMT
      <4>. QED BY <2>2, <2>3, <4>1, Zenon DEF Sure
    <3>. QED BY <1>1, <2>1, <2>2, <2>3, <2>5, <2>6, <2>7, <3>1, Zenon DEF AtTarget,
             taskFiles
  <2>10. ChargedFirst' /\ sent' \in Nat
    <3>1. ChargedFirst'
        BY <1>1, <2>8, SMT DEF DispInv, ChargedFirst, Prepare
    <3>. QED BY <1>1, <3>1 DEF DispInv, DispTypeOK
  <2>11. WhereInv'
      BY <1>1, <2>1, <2>7, <2>8, SMT DEF WhereInv, SameCtl, Prepare, Stalled, TurnEnded
  <2>12. HadInv'
      BY <2>8, SMT DEF DispInv, HadInv, SameCtl
  <2>13. ctl'.pc # "taken"
      BY <2>8
  <2>. QED BY <2>7, <2>8, <2>9, <2>10, <2>11, <2>12, <2>13, TargetKeeps
<1>. HIDE DEF spent
<1>5. SubmitStalled =>
        \/ (\E err \in {"approval", "refused", "unclean"} : Raised(err, spent))
           /\ UNCHANGED pane
        \/ Status0 = "idle" /\ pane' = Started(Target, ctl.text) /\ mem' = spent
           /\ To("confirm")
    BY Zenon DEF SubmitStalled, spent
<1>. QED BY <1>3, <1>4, <1>5, Zenon

LEMMA ReplaceRestoredKeeps == ASSUME DispInv, ReplaceRestored PROVE DispInv'
<1>1. ctl.pc = "restored" /\ UNCHANGED <<pane, taskFiles, registered, charged, sent>>
      /\ mem \in MemRecord /\ SameMem(mem, mem)
    BY Zenon DEF ReplaceRestored, On, DispInv, DispTypeOK, SameMem
<1>2. CASE Raised("unclean", mem)
    BY <1>1, <1>2, RaisedKeeps, SMT
<1>3. CASE UNCHANGED <<mem, ctl>>
    BY <1>1, <1>3, StillKeeps DEF taskFiles
<1>. QED BY <1>2, <1>3, Zenon DEF ReplaceRestored

\* What is known when a prompt is sent: the agent stands still at an empty box, unless it was
\* let go of at work.
LEMMA SendKnows ==
    ASSUME DispInv, ctl.pc = "send"
    PROVE  /\ mem.agent \in Pane /\ mem.agent # NoPane /\ mem.mark = NoText /\ ~mem.new
           /\ ctl.text \in Prompts /\ ctl.text \in Text /\ marker.of = ctl.text
              /\ sent < charged /\ ~ctl.had
           /\ ctl.text # NoText /\ ctl.text \notin {Nudge, Typed}
           /\ marker.unsure = mem.restless /\ mem \in MemRecord
           /\ ~marker.unsure => /\ Status0 \notin {"working", "blocked"}
                                /\ pane[mem.agent].box = <<>> /\ ~pane[mem.agent].owes
<1>1. /\ mem.agent \in Pane /\ mem.agent # NoPane /\ mem.mark = NoText /\ ~mem.new
      /\ ctl.text \in Prompts /\ marker.of = ctl.text /\ sent < charged /\ ~ctl.had
      /\ marker.unsure = mem.restless /\ mem \in MemRecord
    BY SMT DEF DispInv, WhereInv, ChargedFirst, HadInv, Prepare, DispTypeOK, MemRecord
<1>2. ctl.text \in Text /\ ctl.text # NoText /\ ctl.text \notin {Nudge, Typed}
    BY <1>1, NamesDiffer, SMT DEF Text
<1>3. ~mem.restless => AtRest(mem.agent)
    BY <1>1, SMT DEF DispInv, RestInv
<1>. QED BY <1>1, <1>2, <1>3, Zenon DEF AtRest, Status0, Target

\* The agent's box fills up.
LEMMA BoxIs ==
    ASSUME DispInv, NEW p \in Pane, NEW t \in Text
    PROVE  \E r \in PaneRecord :
              /\ [pane EXCEPT ![p].box = Append(@, t)] = [pane EXCEPT ![p] = r]
              /\ r.agent = pane[p].agent /\ r.at = pane[p].at /\ r.job = pane[p].job
              /\ r.owes = pane[p].owes /\ r.box = Append(pane[p].box, t)
<1>1. pane \in [Pane -> PaneRecord] /\ pane[p] \in PaneRecord
    BY DEF DispInv, DispTypeOK
<1>. DEFINE b == Append(pane[p].box, t)
            r == [pane[p] EXCEPT !.box = b]
<1>2. b \in Seq(Text)
    BY <1>1, SMT DEF PaneRecord
<1>3. [pane EXCEPT ![p].box = Append(@, t)] = [pane EXCEPT ![p] = r]
    BY Zenon
<1>. HIDE DEF b
<1>4. r \in PaneRecord
    BY <1>1, <1>2, PaneFields, Zenon
<1>5. /\ r.agent = pane[p].agent /\ r.at = pane[p].at /\ r.job = pane[p].job
      /\ r.owes = pane[p].owes /\ r.box = b
    BY <1>1, SMT DEF PaneRecord
<1>. HIDE DEF r
<1>. QED BY <1>3, <1>4, <1>5, Zenon DEF b

\* The prompt is typed, and its turn begins.
LEMMA SentKeeps ==
    ASSUME DispInv, ctl.pc = "send", NEW r \in PaneRecord, OnePane(mem.agent, r),
           r.at = pane[mem.agent].at, mem.agent \in Holder, To("turn"), sent' = sent + 1,
           UNCHANGED <<taskFiles, registered, charged, mem>>,
           ~marker.unsure => Sure(r) /\ (r.agent # "none" => r.job = marker.of /\ r.box = <<>>)
    PROVE  DispInv'
<1>1. /\ mem.agent \in Pane /\ mem.agent # NoPane /\ mem.mark = NoText /\ ~mem.new
      /\ ctl.text \in Prompts /\ marker.of = ctl.text /\ sent < charged /\ ~ctl.had
      /\ mem \in MemRecord
    BY SendKnows
<1>2. ctl' \in CtlRecord /\ ctl'.pc = "turn" /\ SameCtl
    BY GoesTo DEF DispInv, DispPcs
<1>3. sent' \in Nat /\ ChargedFirst'
  <2>1. sent + 1 \in Nat
      BY SMT DEF DispInv, DispTypeOK
  <2>2. ChargedFirst'
      BY <1>1, <1>2, SMT DEF DispInv, ChargedFirst, Prepare, DispTypeOK
  <2>. QED BY <2>1, <2>2
<1>4. WhereInv'
    BY <1>1, <1>2, SMT DEF WhereInv, SameCtl, Prepare, Stalled, TurnEnded, taskFiles
<1>5. HadInv'
    BY <1>1, <1>2, Zenon DEF HadInv, SameCtl
<1>6. AtTarget(r)
    BY <1>1, <1>2, NamesDiffer, Zenon DEF AtTarget, taskFiles
<1>. QED BY <1>1, <1>2, <1>3, <1>4, <1>5, <1>6, TargetKeeps

LEMMA SendKeeps == ASSUME DispInv, Send PROVE DispInv'
<1>1. ctl.pc = "send" /\ sent' = sent + 1 /\ UNCHANGED <<taskFiles, registered, charged>>
    BY DEF Send, On
<1>2. /\ mem.agent \in Pane /\ mem.agent # NoPane /\ mem.mark = NoText /\ ~mem.new
      /\ ctl.text \in Prompts /\ ctl.text \in Text /\ marker.of = ctl.text /\ sent < charged
         /\ ~ctl.had
      /\ ctl.text # NoText /\ ctl.text \notin {Nudge, Typed}
      /\ marker.unsure = mem.restless /\ mem \in MemRecord
      /\ ~marker.unsure => /\ Status0 \notin {"working", "blocked"}
                           /\ pane[mem.agent].box = <<>> /\ ~pane[mem.agent].owes
    BY <1>1, SendKnows
<1>3. sent' \in Nat
    BY <1>1, SMT DEF DispInv, DispTypeOK
<1>4. ASSUME Status0 \in {"idle", "working", "blocked", "dead"}
      PROVE  /\ pane[mem.agent].agent = Status0 /\ pane[mem.agent].agent # "none"
             /\ pane[mem.agent].at \in {"run", "elsewhere"} /\ mem.agent \in Holder
             /\ Whole(pane[mem.agent])
  <2>1. pane[mem.agent].agent = Status0 /\ pane[mem.agent].agent # "none"
      BY <1>2, <1>4, StatusIs DEF Status0, Target
  <2>. QED BY <1>2, <2>1, AgentPane
<1>5. CASE Status0 = "idle" /\ pane' = Started(Target, ctl.text) /\ To("turn") /\ UNCHANGED mem
  <2>1. PICK r \in PaneRecord :
              /\ Started(mem.agent, ctl.text) = [pane EXCEPT ![mem.agent] = r]
              /\ r.agent = "working" /\ r.box = <<>> /\ r.at = pane[mem.agent].at
              /\ r.job = (IF ctl.text \in {Nudge, Typed} THEN pane[mem.agent].job ELSE ctl.text)
              /\ r.owes => pane[mem.agent].owes \/ ctl.text # Typed
      BY <1>2, StartedIs
  <2>2. r.job = marker.of
      BY <1>2, <2>1
  <2>3. OnePane(mem.agent, r)
    <3>1. Whole(r)
        BY <1>4, <1>5, <2>1, SMT DEF Whole
    <3>. QED BY <1>4, <1>5, <2>1, <3>1, Zenon DEF OnePane, Target
  <2>4. Sure(r)
    <3>1. <<>> # <<Nudge>>
        BY SMT
    <3>. QED BY <2>1, <2>2, <3>1, Zenon DEF Sure
  <2>. QED BY <1>1, <1>4, <1>5, <2>1, <2>2, <2>3, <2>4, SentKeeps
<1>6. CASE Status0 = "blocked" /\ UNCHANGED <<pane, mem>> /\ To("turn")
  <2>. DEFINE r == pane[mem.agent]
  <2>1. r \in PaneRecord /\ pane \in [Pane -> PaneRecord]
      BY <1>2 DEF DispInv, DispTypeOK
  <2>2. pane' = [pane EXCEPT ![mem.agent] = r]
      BY <1>2, <1>6, <2>1, SMT
  <2>3. OnePane(mem.agent, r)
      BY <1>4, <1>6, <2>2, Zenon DEF OnePane
  <2>4. marker.unsure
      BY <1>2, <1>6
  <2>. QED BY <1>1, <1>4, <1>6, <2>1, <2>3, <2>4, SentKeeps
<1>7. CASE Status0 = "working" /\ pane' = [pane EXCEPT ![Target].box = Append(@, ctl.text)]
           /\ To("turn") /\ UNCHANGED mem
  <2>1. PICK r \in PaneRecord :
              /\ [pane EXCEPT ![mem.agent].box = Append(@, ctl.text)]
                  = [pane EXCEPT ![mem.agent] = r]
              /\ r.agent = pane[mem.agent].agent /\ r.at = pane[mem.agent].at
                 /\ r.job = pane[mem.agent].job
              /\ r.owes = pane[mem.agent].owes /\ r.box = Append(pane[mem.agent].box, ctl.text)
      BY <1>2, BoxIs
  <2>2. OnePane(mem.agent, r)
    <3>1. Whole(r)
        BY <1>4, <1>7, <2>1, SMTT(60) DEF Whole
    <3>. QED BY <1>4, <1>7, <2>1, <3>1, Zenon DEF OnePane, Target
  <2>3. marker.unsure
      BY <1>2, <1>7
  <2>. QED BY <1>1, <1>4, <1>7, <2>1, <2>2, <2>3, SentKeeps
<1>8. ASSUME NEW b \in BOOLEAN, NEW err \in {"transient", "refused"}, Failed(err, b)
      PROVE  /\ Raised(err, FailedMem(b)) /\ ChargedFirst' /\ ctl' \in CtlRecord /\ SameCtl
             /\ ctl'.pc \in {"charge", "idle"} /\ mem' \in MemRecord
             /\ FailedMem(b) \in MemRecord /\ FailedMem(b).mark = ctl.text
             /\ FailedMem(b).agent = mem.agent /\ FailedMem(b).role = mem.role
             /\ FailedMem(b).adopted = mem.adopted /\ FailedMem(b).new = mem.new
             /\ mem'.mark = ctl.text /\ mem'.agent = mem.agent /\ mem'.role = mem.role
             /\ mem'.adopted = mem.adopted /\ mem'.new = mem.new
  <2>1. /\ FailedMem(b) \in MemRecord /\ FailedMem(b).mark = ctl.text
        /\ FailedMem(b).agent = mem.agent /\ FailedMem(b).role = mem.role
        /\ FailedMem(b).adopted = mem.adopted /\ FailedMem(b).new = mem.new
      BY FailedIs
  <2>2. Raised(err, FailedMem(b))
      BY <1>8 DEF Failed, FailedMem
  <2>3. /\ mem' \in MemRecord /\ SameMem(FailedMem(b), mem')
        /\ ctl' \in CtlRecord /\ SameCtl /\ ctl'.pc \in {"follow", "charge", "idle"}
        /\ ctl'.pc = "follow" => err = "missing"
      BY <2>1, <2>2, RaisedDoes DEF DispInv
  <2>4. ctl'.pc \in {"charge", "idle"}
      BY <2>3, SMT
  <2>5. ChargedFirst'
      BY <1>1, <1>2, <2>4, SMT DEF DispInv, ChargedFirst, Prepare, DispTypeOK
  <2>. QED BY <2>1, <2>2, <2>3, <2>4, <2>5 DEF SameMem
<1>9. CASE UNCHANGED pane /\ \E err \in {"transient", "refused"} : Failed(err, FALSE)
  <2>1. PICK err \in {"transient", "refused"} : Failed(err, FALSE)
      BY <1>9
  <2>2. /\ Raised(err, FailedMem(FALSE)) /\ ChargedFirst'
        /\ FailedMem(FALSE) \in MemRecord /\ FailedMem(FALSE).mark = ctl.text
        /\ FailedMem(FALSE).agent = mem.agent /\ FailedMem(FALSE).role = mem.role
        /\ FailedMem(FALSE).adopted = mem.adopted /\ FailedMem(FALSE).new = mem.new
      BY <1>8, <2>1
  <2>3. ~marker.unsure /\ pane[mem.agent].agent # "none" =>
              /\ pane[mem.agent].box \in {<<>>, <<marker.of>>}
              /\ pane[mem.agent].agent \in {"working", "blocked"}
                 => pane[mem.agent].job = marker.of
    <3>1. pane[mem.agent].agent # "none" => Status0 = pane[mem.agent].agent
        BY <1>2, AgentPane DEF Status0, Target
    <3>. QED BY <1>2, <3>1
  <2>. QED BY <1>1, <1>3, <1>9, <2>1, <2>2, <2>3, MarkRaisedKeeps
<1>10. CASE Status0 = "idle" /\ pane' = [pane EXCEPT ![Target].box = Append(@, ctl.text)]
            /\ Failed("transient", TRUE)
  <2>1. /\ ChargedFirst' /\ ctl' \in CtlRecord /\ SameCtl /\ ctl'.pc \in {"charge", "idle"}
        /\ mem' \in MemRecord /\ mem'.mark = ctl.text /\ mem'.agent = mem.agent
        /\ mem'.role = mem.role /\ mem'.adopted = mem.adopted /\ mem'.new = mem.new
    <3>1. TRUE \in BOOLEAN /\ "transient" \in {"transient", "refused"}
        OBVIOUS
    <3>. QED BY <1>8, <1>10, <3>1
  <2>2. PICK r \in PaneRecord :
              /\ [pane EXCEPT ![mem.agent].box = Append(@, ctl.text)]
                  = [pane EXCEPT ![mem.agent] = r]
              /\ r.agent = pane[mem.agent].agent /\ r.at = pane[mem.agent].at
                 /\ r.job = pane[mem.agent].job
              /\ r.owes = pane[mem.agent].owes /\ r.box = Append(pane[mem.agent].box, ctl.text)
      BY <1>2, BoxIs
  <2>3. OnePane(mem.agent, r)
    <3>1. Whole(r)
        BY <1>4, <1>10, <2>2, SMTT(60) DEF Whole
    <3>. QED BY <1>4, <1>10, <2>2, <3>1, Zenon DEF OnePane, Target
  <2>4. ~marker.unsure => r.box = <<marker.of>> /\ ~r.owes /\ r.agent = "idle"
    <3>1. Append(<<>>, ctl.text) = <<ctl.text>>
        BY SMT
    <3>. QED BY <1>2, <1>4, <1>10, <2>2, <3>1
  <2>5. ~marker.unsure => Sure(r)
    <3>1. <<marker.of>> # <<Nudge>>
        BY <1>2, SMT
    <3>. QED BY <2>4, <3>1, Zenon DEF Sure
  <2>6. ctl'.pc \notin Busy \cup {"taken"}
      BY <2>1, SMT DEF Busy, TurnEnded
  <2>7. AtTarget(r)
      BY <1>1, <1>2, <1>4, <1>10, <2>1, <2>2, <2>3, <2>4, <2>5, <2>6, Zenon DEF AtTarget,
         taskFiles
  <2>8. WhereInv'
      BY <1>2, <2>1, SMT DEF WhereInv, SameCtl, Prepare, Stalled, TurnEnded
  <2>9. HadInv'
      BY <1>2, <2>1, Zenon DEF HadInv, SameCtl
  <2>. QED BY <1>3, <2>1, <2>6, <2>7, <2>8, <2>9, TargetKeeps
<1>11. Send => \/ Status0 = "idle" /\ pane' = Started(Target, ctl.text) /\ To("turn")
                  /\ UNCHANGED mem
               \/ Status0 = "blocked" /\ UNCHANGED <<pane, mem>> /\ To("turn")
               \/ /\ Status0 = "working"
                     /\ pane' = [pane EXCEPT ![Target].box = Append(@, ctl.text)]
                  /\ To("turn") /\ UNCHANGED mem
               \/ UNCHANGED pane /\ \E err \in {"transient", "refused"} : Failed(err, FALSE)
               \/ /\ Status0 = "idle"
                     /\ pane' = [pane EXCEPT ![Target].box = Append(@, ctl.text)]
                  /\ Failed("transient", TRUE)
    BY Zenon DEF Send
<1>. QED BY <1>5, <1>6, <1>7, <1>9, <1>10, <1>11, Zenon

LEMMA SendNudgeKeeps == ASSUME DispInv, SendNudge PROVE DispInv'
<1>1. ctl.pc = "sendNudge" /\ sent' = sent + 1 /\ UNCHANGED <<taskFiles, registered, charged>>
    BY DEF SendNudge, On
<1>2. /\ mem.agent \in Pane /\ mem.agent # NoPane /\ mem.mark = NoText /\ ~mem.new
      /\ ctl.text \in Prompts /\ marker.of = ctl.text /\ sent < charged /\ mem \in MemRecord
    BY <1>1, SMT DEF DispInv, WhereInv, ChargedFirst, TurnEnded, DispTypeOK, MemRecord
<1>3. sent' \in Nat /\ Nudge \in Text /\ Nudge \notin Prompts /\ Nudge # NoText
    BY <1>1, NamesDiffer, SMT DEF DispInv, DispTypeOK, Text
<1>4. ASSUME Status0 = "idle"
      PROVE  /\ pane[mem.agent].agent = "idle" /\ pane[mem.agent].agent # "none"
             /\ pane[mem.agent].at \in {"run", "elsewhere"} /\ mem.agent \in Holder
             /\ Whole(pane[mem.agent])
             /\ ~marker.unsure => /\ pane[mem.agent].job = marker.of
                                     /\ pane[mem.agent].box = <<>>
                                  /\ Sure(pane[mem.agent])
  <2>1. pane[mem.agent].agent = Status0 /\ pane[mem.agent].agent # "none"
      BY <1>2, <1>4, StatusIs DEF Status0, Target
  <2>2. "sendNudge" \in Busy
      BY DEF Busy, TurnEnded
  <2>. QED BY <1>1, <1>2, <1>4, <2>1, <2>2, AgentPane
<1>5. CASE Status0 = "idle" /\ pane' = Started(Target, Nudge) /\ To("nudged") /\ UNCHANGED mem
  <2>1. PICK r \in PaneRecord :
              /\ Started(mem.agent, Nudge) = [pane EXCEPT ![mem.agent] = r]
              /\ r.agent = "working" /\ r.box = <<>> /\ r.at = pane[mem.agent].at
              /\ r.job = (IF Nudge \in {Nudge, Typed} THEN pane[mem.agent].job ELSE Nudge)
              /\ r.owes => pane[mem.agent].owes \/ Nudge # Typed
      BY <1>2, <1>3, StartedIs
  <2>2. r.job = pane[mem.agent].job
      BY <2>1
  <2>3. OnePane(mem.agent, r)
    <3>1. Whole(r)
        BY <1>4, <1>5, <2>1, SMT DEF Whole
    <3>. QED BY <1>4, <1>5, <2>1, <3>1, Zenon DEF OnePane, Target
  <2>4. ~marker.unsure => Sure(r) /\ r.job = marker.of
    <3>1. <<>> # <<Nudge>>
        BY SMT
    <3>. QED BY <1>4, <1>5, <2>1, <2>2, <3>1, Zenon DEF Sure
  <2>5. ctl' \in CtlRecord /\ ctl'.pc = "nudged" /\ SameCtl
      BY <1>5, GoesTo DEF DispInv, DispPcs
  <2>6. ChargedFirst'
      BY <1>1, <1>2, <2>5, SMT DEF DispInv, ChargedFirst, Prepare, DispTypeOK
  <2>7. WhereInv'
      BY <1>1, <1>2, <1>5, <2>5, SMT DEF WhereInv, SameCtl, Prepare, Stalled, TurnEnded,
         taskFiles
  <2>8. HadInv'
      BY <2>5, SMT DEF DispInv, HadInv, SameCtl
  <2>9. AtTarget(r)
      BY <1>1, <1>2, <1>4, <1>5, <2>1, <2>3, <2>4, <2>5, NamesDiffer, Zenon DEF AtTarget,
         taskFiles
  <2>10. mem' \in MemRecord /\ ctl'.pc # "taken"
      BY <1>2, <1>5, <2>5
  <2>. QED BY <1>3, <2>5, <2>6, <2>7, <2>8, <2>9, <2>10, TargetKeeps
<1>. DEFINE m == [mem EXCEPT !.mark = Nudge]
<1>6. /\ m \in MemRecord /\ m.mark = Nudge /\ m.agent = mem.agent /\ m.role = mem.role
      /\ m.adopted = mem.adopted /\ m.new = mem.new
    BY <1>2, <1>3, MarkIs
<1>. HIDE DEF m
<1>7. ASSUME NudgeFailed
      PROVE  /\ Raised("refused", m) /\ ChargedFirst' /\ ctl' \in CtlRecord /\ SameCtl
             /\ ctl'.pc \in {"charge", "idle"} /\ mem' \in MemRecord /\ SameMem(m, mem')
  <2>1. Raised("refused", m)
      BY <1>7 DEF NudgeFailed, m
  <2>2. /\ mem' \in MemRecord /\ SameMem(m, mem')
        /\ ctl' \in CtlRecord /\ SameCtl /\ ctl'.pc \in {"follow", "charge", "idle"}
        /\ ctl'.pc = "follow" => "refused" = "missing"
      BY <1>6, <2>1, RaisedDoes DEF DispInv
  <2>3. ctl'.pc \in {"charge", "idle"}
      BY <2>2, SMT
  <2>4. ChargedFirst'
      BY <1>1, <1>2, <2>3, SMT DEF DispInv, ChargedFirst, Prepare, DispTypeOK
  <2>. QED BY <2>1, <2>2, <2>3, <2>4
<1>8. CASE NudgeFailed /\ pane' = pane
  <2>1. ctl.text # Nudge /\ "refused" \in {"refused", "transient"}
      BY <1>2, <1>3
  <2>. QED BY <1>1, <1>3, <1>6, <1>7, <1>8, <2>1, MarkRaisedKeeps
<1>9. CASE Status0 = "idle" /\ NudgeFailed
          /\ pane' = [pane EXCEPT ![Target].box = Append(@, Nudge)]
  <2>1. /\ ChargedFirst' /\ ctl' \in CtlRecord /\ SameCtl /\ ctl'.pc \in {"charge", "idle"}
        /\ mem' \in MemRecord /\ mem'.mark = Nudge /\ mem'.agent = mem.agent
        /\ mem'.role = mem.role /\ mem'.adopted = mem.adopted /\ mem'.new = mem.new
      BY <1>6, <1>7, <1>9 DEF SameMem
  <2>2. PICK r \in PaneRecord :
              /\ [pane EXCEPT ![mem.agent].box = Append(@, Nudge)]
                  = [pane EXCEPT ![mem.agent] = r]
              /\ r.agent = pane[mem.agent].agent /\ r.at = pane[mem.agent].at
                 /\ r.job = pane[mem.agent].job
              /\ r.owes = pane[mem.agent].owes /\ r.box = Append(pane[mem.agent].box, Nudge)
      BY <1>2, <1>3, BoxIs
  <2>3. OnePane(mem.agent, r)
    <3>1. Whole(r)
        BY <1>4, <1>9, <2>2, SMTT(60) DEF Whole
    <3>. QED BY <1>4, <1>9, <2>2, <3>1, Zenon DEF OnePane, Target
  <2>4. ~marker.unsure => Sure(r)
    <3>1. Append(<<>>, Nudge) = <<Nudge>>
        BY SMT
    <3>2. ~marker.unsure => r.box = <<Nudge>> /\ r.agent = "idle" /\ r.job = marker.of
        BY <1>4, <1>9, <2>2, <3>1
    <3>. QED BY <3>2, Zenon DEF Sure
  <2>5. ctl'.pc \notin Busy \cup {"taken"}
      BY <2>1, SMT DEF Busy, TurnEnded
  <2>6. AtTarget(r)
      BY <1>1, <1>2, <1>3, <1>4, <1>9, <2>1, <2>2, <2>3, <2>4, <2>5, Zenon DEF AtTarget,
         taskFiles
  <2>7. WhereInv'
      BY <1>2, <2>1, SMT DEF WhereInv, SameCtl, Prepare, Stalled, TurnEnded
  <2>8. HadInv'
      BY <2>1, SMT DEF DispInv, HadInv, SameCtl
  <2>. QED BY <1>3, <2>1, <2>5, <2>6, <2>7, <2>8, TargetKeeps
<1>10. SendNudge =>
         \/ Status0 = "idle" /\ pane' = Started(Target, Nudge) /\ To("nudged") /\ UNCHANGED mem
         \/ NudgeFailed /\ pane' = pane
         \/ Status0 = "idle" /\ NudgeFailed
            /\ pane' = [pane EXCEPT ![Target].box = Append(@, Nudge)]
    BY Zenon DEF SendNudge
<1>. QED BY <1>5, <1>8, <1>9, <1>10, Zenon

-----------------------------------------------------------------------------
(* Every step                                                              *)

LEMMA DispInitHolds == DispInit => DispInv
<1>. SUFFICES ASSUME DispInit PROVE DispInv
    OBVIOUS
<1>. DEFINE new == [at |-> "new", agent |-> "none", box |-> <<>>, job |-> NoText,
         owes |-> FALSE]
<1>1. new \in PaneRecord /\ new.at = "new" /\ new.agent = "none" /\ new.box = <<>>
          /\ new.owes = FALSE
    BY SMT DEF PaneRecord, Text
<1>. HIDE DEF new
<1>2. pane = [p \in Pane |-> new]
    BY DEF DispInit, new
<1>3. \A p \in Pane : pane[p] = new
    BY <1>2
<1>4. mem = EmptyMem /\ ctl = NoWork /\ sent = 0 /\ charged = 0 /\ registered = {}
      /\ answer = NoAnswer /\ marker = [of |-> NoText, unsure |-> FALSE]
    BY DEF DispInit
<1>5. mem.agent = NoPane /\ mem.role = NoPane /\ mem.adopted = NoPane /\ mem.mark = NoText
      /\ ctl.pc = "off" /\ ctl.had = FALSE
    BY <1>4, EmptyMemKnows, SMT DEF NoWork
<1>6. DispTypeOK
  <2>1. pane \in [Pane -> PaneRecord]
      BY <1>1, <1>2
  <2>2. mem \in MemRecord /\ ctl \in CtlRecord
      BY <1>4, EmptyMemIs, NoWorkIs
  <2>3. answer \in [to : Text, fresh : BOOLEAN, valid : BOOLEAN]
      BY <1>4, SMT DEF NoAnswer, Text
  <2>4. marker \in [of : Prompts \cup {NoText}, unsure : BOOLEAN]
      BY <1>4, SMT
  <2>. QED BY <1>4, <2>1, <2>2, <2>3, <2>4, SMT DEF DispTypeOK
<1>7. ChargedFirst
    BY <1>4, <1>5, DispatchAssumption, SMT DEF ChargedFirst, Prepare
<1>8. PanesInv
    BY <1>1, <1>3, <1>5, Zenon DEF PanesInv, Holder
<1>9. MemInv
    BY <1>5, NamesDiffer, Zenon DEF MemInv, Opened
<1>10. WhereInv
    BY <1>5, SMT DEF WhereInv, Prepare, Stalled, TurnEnded
<1>11. RestInv /\ HadInv
    BY <1>5, Zenon DEF RestInv, HadInv
<1>12. SureInv
  <2>1. ~Answered
      BY <1>4 DEF Answered
  <2>2. \A p \in Pane : SurePane(p)
      BY <1>1, <1>3, Zenon DEF SurePane
  <2>. QED BY <1>5, <2>1, <2>2, SMT DEF SureInv, SureTarget
<1>. QED BY <1>6, <1>7, <1>8, <1>9, <1>10, <1>11, <1>12 DEF DispInv

LEMMA ControllerKeeps == ASSUME DispInv, ControllerSteps PROVE DispInv'
<1>1. ASSUME NEW t \in Ask, BeginDispatch(t) PROVE DispInv'
    BY <1>1, BeginDispatchKeeps
<1>2. ASSUME NEW p \in Pane, Adopt(p) PROVE DispInv'
    BY <1>2, AdoptKeeps
<1>3. ASSUME NEW p \in Pane, NEW r \in BOOLEAN, OpenPane(p, r) PROVE DispInv'
    BY <1>3, OpenPaneKeeps
<1>4. CASE StartProcess \/ Charge \/ Validate \/ AgentKnown \/ StartAgent
    BY <1>4, StartProcessKeeps, ChargeKeeps, ValidateKeeps, AgentKnownKeeps, StartAgentKeeps
<1>5. CASE Settle \/ SubmitStalled \/ Confirm \/ AwaitTurn \/ Collect \/ CheckRestored
          \/ AwaitReady
    BY <1>5, SettleKeeps, SubmitStalledKeeps, ConfirmKeeps, AwaitTurnKeeps, CollectKeeps,
       CheckRestoredKeeps, AwaitReadyKeeps
<1>6. CASE ParkAnswer \/ WriteMarker \/ Send \/ Turn \/ JudgeAnswer \/ Grace \/ FollowUp
          \/ WaitResumed \/ ChargeNudge \/ SendNudge \/ Nudged
    BY <1>6, ParkAnswerKeeps, WriteMarkerKeeps, SendKeeps, TurnKeeps, JudgeAnswerKeeps,
       GraceKeeps, FollowUpKeeps, WaitResumedKeeps, ChargeNudgeKeeps, SendNudgeKeeps,
       NudgedKeeps
<1>. QED BY <1>1, <1>2, <1>3, <1>4, <1>5, <1>6, Zenon DEF ControllerSteps

LEMMA WorldStepsKeep == ASSUME DispInv, World PROVE DispInv'
<1>1. PICK p \in Pane : \/ \E v \in BOOLEAN : AgentAnswers(p, v)
                        \/ AgentStops(p) \/ AgentGoesOn(p) \/ AgentDies(p)
                        \/ OperatorPressesEnter(p) \/ OperatorCloses(p) \/ StrangerOpens(p)
                        \/ IdReused(p)
    BY Zenon DEF World
<1>2. ASSUME NEW v \in BOOLEAN, AgentAnswers(p, v) PROVE DispInv'
    BY <1>2, AgentAnswersKeeps
<1>. QED BY <1>1, <1>2, AgentStopsKeeps, AgentGoesOnKeeps, AgentDiesKeeps, IdReusedKeeps,
            OperatorPressesEnterKeeps, OperatorClosesKeeps, StrangerOpensKeeps

LEMMA DispNextKeeps == ASSUME DispInv, ClosingInv, [DispNext]_dispVars PROVE DispInv'
<1>1. CASE ControllerSteps
    BY <1>1, ControllerKeeps
<1>2. CASE BeginsClose
  <2>1. ASSUME NEW p \in Pane, CloseDead(p) PROVE DispInv'
      BY <2>1, CloseDeadKeeps
  <2>. QED BY <1>2, <2>1, ReleaseRoleKeeps, EndProcessKeeps, ReplaceRestoredKeeps
           DEF BeginsClose
<1>3. CASE CloseSteps
  <2>1. ASSUME NEW p \in Pane, EndPane(p) \/ LookAtPane(p) \/ SendClose(p) \/ ConfirmClose(p)
        PROVE DispInv'
      BY <2>1, EndPaneKeeps, LookAtPaneKeeps, SendCloseKeeps, ConfirmCloseKeeps
  <2>. QED BY <1>3, <2>1, ProcessEndsKeeps DEF CloseSteps
<1>4. CASE Crash
    BY <1>4, CrashKeeps
<1>5. CASE World
    BY <1>5, WorldStepsKeep
<1>6. CASE UNCHANGED dispVars
    BY <1>6, StillKeeps DEF dispVars
<1>. QED BY <1>1, <1>2, <1>3, <1>4, <1>5, <1>6, Zenon DEF DispNext

-----------------------------------------------------------------------------
(* What is known of the pane that is closed                                *)

LEMMA NoCloseIs == /\ NoClose \in ClosingRecord /\ NoClose.at = "no"
                   /\ NoClose.left = {} /\ ~NoClose.touched /\ ~NoClose.moved
BY SMT DEF NoClose, ClosingRecord

\* A field of the record of a close is replaced.
LEMMA PlaceField ==
    ASSUME NEW c \in ClosingRecord, NEW x \in {"no", "look", "close", "closed", "end"}
    PROVE  /\ [c EXCEPT !.at = x] \in ClosingRecord
           /\ [c EXCEPT !.at = x].at = x
BY SMT DEF ClosingRecord
LEMMA PaneField ==
    ASSUME NEW c \in ClosingRecord, NEW p \in Pane
    PROVE  /\ [c EXCEPT !.pane = p] \in ClosingRecord
           /\ [c EXCEPT !.pane = p].pane = p
           /\ [c EXCEPT !.pane = p].at = c.at
BY SMT DEF ClosingRecord
LEMMA LeftField ==
    ASSUME NEW c \in ClosingRecord, NEW S \in SUBSET Pane
    PROVE  /\ [c EXCEPT !.left = S] \in ClosingRecord
           /\ [c EXCEPT !.left = S].left = S
           /\ [c EXCEPT !.left = S].at = c.at
           /\ [c EXCEPT !.left = S].pane = c.pane
BY SMT DEF ClosingRecord
LEMMA TouchedField ==
    ASSUME NEW c \in ClosingRecord, NEW b \in BOOLEAN
    PROVE  /\ [c EXCEPT !.touched = b] \in ClosingRecord
           /\ [c EXCEPT !.touched = b].touched = b
           /\ [c EXCEPT !.touched = b].at = c.at
           /\ [c EXCEPT !.touched = b].pane = c.pane
           /\ [c EXCEPT !.touched = b].moved = c.moved
BY SMT DEF ClosingRecord
LEMMA MovedField ==
    ASSUME NEW c \in ClosingRecord, NEW b \in BOOLEAN
    PROVE  /\ [c EXCEPT !.moved = b] \in ClosingRecord
           /\ [c EXCEPT !.moved = b].moved = b
           /\ [c EXCEPT !.moved = b].at = c.at
           /\ [c EXCEPT !.moved = b].pane = c.pane
           /\ [c EXCEPT !.moved = b].touched = c.touched
BY SMT DEF ClosingRecord
LEMMA CloseIs ==
    ASSUME NEW p \in Pane, NEW S \in SUBSET Pane, NEW x \in {"look", "closed"}
    PROVE  LET c == [NoClose EXCEPT !.at = x, !.pane = p, !.left = S] IN
           c \in ClosingRecord /\ c.at = x /\ c.pane = p
<1>. DEFINE c1 == [NoClose EXCEPT !.at = x]
            c2 == [c1 EXCEPT !.pane = p]
            c3 == [c2 EXCEPT !.left = S]
<1>1. c1 \in ClosingRecord /\ c1.at = x
  <2>1. x \in {"no", "look", "close", "closed", "end"}
      OBVIOUS
  <2>. QED BY <2>1, NoCloseIs, PlaceField, Zenon
<1>2. c2 \in ClosingRecord /\ c2.at = x /\ c2.pane = p
  <2>. HIDE DEF c1
  <2>. QED BY <1>1, PaneField, Zenon
<1>3. c3 \in ClosingRecord /\ c3.at = x /\ c3.pane = p
  <2>. HIDE DEF c2
  <2>. QED BY <1>2, LeftField, Zenon
<1>4. c3 = [NoClose EXCEPT !.at = x, !.pane = p, !.left = S]
    BY Zenon
<1>. HIDE DEF c3
<1>. QED BY <1>3, <1>4
LEMMA BeginIs ==
    ASSUME NEW p \in Pane, BeginClose(p)
    PROVE  closing' \in ClosingRecord /\ closing'.at = "look" /\ closing'.pane = p
<1>. DEFINE c1 == [NoClose EXCEPT !.at = "look"]
            c2 == [c1 EXCEPT !.pane = p]
<1>1. c1 \in ClosingRecord /\ c1.at = "look"
    BY NoCloseIs, PlaceField, Zenon
<1>2. c2 \in ClosingRecord /\ c2.at = "look" /\ c2.pane = p
  <2>. HIDE DEF c1
  <2>. QED BY <1>1, PaneField, Zenon
<1>3. closing' = c2
    BY Zenon DEF BeginClose
<1>. HIDE DEF c2
<1>. QED BY <1>2, <1>3
LEMMA EndIs ==
    ASSUME NEW S \in SUBSET Pane
    PROVE  LET c == [NoClose EXCEPT !.at = "end", !.left = S] IN
           c \in ClosingRecord /\ c.at = "end"
<1>. DEFINE c1 == [NoClose EXCEPT !.at = "end"]
            c2 == [c1 EXCEPT !.left = S]
<1>1. c1 \in ClosingRecord /\ c1.at = "end"
    BY NoCloseIs, PlaceField, Zenon
<1>2. c2 \in ClosingRecord /\ c2.at = "end"
  <2>. HIDE DEF c1
  <2>. QED BY <1>1, LeftField, Zenon
<1>3. c2 = [NoClose EXCEPT !.at = "end", !.left = S]
    BY Zenon
<1>. HIDE DEF c2
<1>. QED BY <1>2, <1>3

LEMMA RestingKeeps == ASSUME closing'.at = "no", closing' \in ClosingRecord PROVE ClosingInv'
BY Zenon DEF ClosingInv

\* The close begins at what is seen of the pane.
LEMMA BeginsKeep == ASSUME DispInv, ClosingInv, closing.at = "no", BeginsClose PROVE ClosingInv'
<1>0. mem \in MemRecord /\ pane \in [Pane -> PaneRecord] /\ closing \in ClosingRecord
    BY DEF DispInv, DispTypeOK, ClosingInv
<1>1. CASE UNCHANGED closing
    BY <1>0, <1>1, RestingKeeps
<1>2. CASE ReleaseRole
  <2>1. CASE ~UNCHANGED closing
    <3>1. /\ ctl.pc = "release" /\ mem.role # NoPane /\ BeginClose(mem.role)
          /\ Status(mem.role) \in {"none", "idle", "blocked"} /\ UNCHANGED <<pane, mem, ctl>>
        BY <1>2, <2>1, Zenon DEF ReleaseRole, On
    <3>2. mem.role \in Pane
        BY <1>0, <3>1, SMT DEF MemRecord
    <3>3. closing' \in ClosingRecord /\ closing'.at = "look" /\ closing'.pane = mem.role
        BY <3>1, <3>2, BeginIs
    <3>4. pane[mem.role].at = "gone" \/ pane[mem.role].agent # "working"
        BY <3>1, SMT DEF Status
    <3>. QED BY <3>1, <3>2, <3>3, <3>4, SMT DEF ClosingInv, On, AsFound
  <2>. QED BY <1>1, <2>1
<1>3. CASE ReplaceRestored
  <2>1. CASE ~UNCHANGED closing
    <3>1. /\ ctl.pc = "restored" /\ mem.mark = "restored" /\ Status0 = "idle" /\ Box # <<>>
          /\ BeginClose(Target) /\ UNCHANGED <<pane, mem, ctl>>
        BY <1>3, <2>1, Zenon DEF ReplaceRestored, On
    <3>2. mem.agent \in Pane
        BY <1>0, <3>1, SMT DEF DispInv, WhereInv, MemRecord, Prepare
    <3>3. closing' \in ClosingRecord /\ closing'.at = "look" /\ closing'.pane = mem.agent
        BY <3>1, <3>2, BeginIs DEF Target
    <3>4. pane[mem.agent].agent = "idle" /\ pane[mem.agent].box # <<>>
        BY <3>1, SMT DEF Status0, Status, Target, Box
    <3>. QED BY <3>1, <3>2, <3>3, <3>4, SMT DEF ClosingInv, On, AsFound
  <2>. QED BY <1>1, <2>1
<1>4. ASSUME NEW p \in Pane, CloseDead(p) PROVE ClosingInv'
  <2>1. /\ ctl.pc = "ensure" /\ mem.agent = NoPane /\ Status(p) = "dead" /\ BeginClose(p)
        /\ mem' = [mem EXCEPT !.adopted = p] /\ UNCHANGED <<pane, ctl>>
      BY <1>4, Zenon DEF CloseDead, On
  <2>2. closing' \in ClosingRecord /\ closing'.at = "look" /\ closing'.pane = p
      BY <2>1, BeginIs
  <2>3. mem'.agent = NoPane
      BY <1>0, <2>1, SMT DEF MemRecord
  <2>4. pane[p].agent = "dead"
      BY <2>1, SMT DEF Status
  <2>. QED BY <2>1, <2>2, <2>3, <2>4, SMT DEF ClosingInv, On, AsFound
<1>5. CASE EndProcess
  <2>1. CASE ~UNCHANGED closing
    <3>1. /\ ctl' = [NoWork EXCEPT !.pc = "idle"] /\ mem' \in {RecallOwned, RecallNone}
          /\ closing' = [NoClose EXCEPT !.at = "end", !.left = mem'.own]
        BY <1>5, <2>1, Zenon DEF EndProcess
    <3>2. mem'.own \in SUBSET Pane /\ mem'.agent = NoPane
        BY <3>1, RecallIs, Zenon
    <3>3. closing' \in ClosingRecord /\ closing'.at = "end"
        BY <3>1, <3>2, EndIs
    <3>4. ctl'.pc = "idle"
        BY <3>1, SMT DEF NoWork
    <3>. QED BY <3>2, <3>3, <3>4, Zenon DEF ClosingInv, On
  <2>. QED BY <1>1, <2>1
<1>. QED BY <1>2, <1>3, <1>4, <1>5, Zenon DEF BeginsClose

\* After it, the process goes on, or to the next of its panes.
LEMMA ReturnKeeps ==
    ASSUME ClosingInv, closing.at \in {"look", "close", "closed"}, Return,
           ctl.pc = "idle" => ctl'.pc = "idle" /\ mem'.agent = NoPane
    PROVE  ClosingInv'
<1>1. closing.left \in SUBSET Pane
    BY SMT DEF ClosingInv, ClosingRecord
<1>2. CASE ctl.pc = "idle"
  <2>1. closing' = [NoClose EXCEPT !.at = "end", !.left = closing.left]
      BY <1>2 DEF Return, On
  <2>2. closing' \in ClosingRecord /\ closing'.at = "end"
      BY <1>1, <2>1, EndIs
  <2>. QED BY <1>2, <2>2, Zenon DEF ClosingInv, On
<1>3. CASE ctl.pc # "idle"
    BY <1>3, NoCloseIs, RestingKeeps DEF Return, On
<1>. QED BY <1>2, <1>3

LEMMA OverKeeps ==
    ASSUME DispInv, ClosingInv, closing.at \in {"look", "close", "closed"}, NEW p,
           p = closing.pane,
           PaneForgotten(p) \/ StaysOpen(p)
    PROVE  ClosingInv'
<1>1. Return
    BY DEF PaneForgotten, StaysOpen
<1>2. ASSUME ctl.pc = "idle" PROVE ctl' = ctl /\ mem'.agent = NoPane
  <2>1. mem.agent = NoPane
      BY <1>2, SMT DEF ClosingInv
  <2>2. CASE PaneForgotten(p)
    <3>1. ctl' = ctl /\ mem' = ForgetPane(mem, {p})
        BY <1>2, <2>2, Zenon DEF PaneForgotten, On
    <3>. QED BY <2>1, <3>1, ForgetIs
  <2>3. CASE StaysOpen(p)
      BY <1>2, <2>1, <2>3, Zenon DEF StaysOpen, On
  <2>. QED BY <2>2, <2>3
<1>. QED BY <1>1, <1>2, ReturnKeeps

LEMMA CloseStepsKeep == ASSUME DispInv, ClosingInv, CloseSteps PROVE ClosingInv'
<1>0. closing \in ClosingRecord /\ pane \in [Pane -> PaneRecord]
    BY DEF ClosingInv, DispInv, DispTypeOK
<1>1. CASE ProcessEnds
    BY <1>1, NoCloseIs, RestingKeeps DEF ProcessEnds
<1>2. ASSUME NEW p \in Pane, EndPane(p) PROVE ClosingInv'
  <2>1. /\ closing' = [NoClose EXCEPT !.at = "look", !.pane = p, !.left = closing.left \ {p}]
        /\ closing.at = "end" /\ UNCHANGED <<pane, registered, mem, ctl>>
      BY <1>2 DEF EndPane
  <2>. DEFINE S == closing.left \ {p}
  <2>2. S \in SUBSET Pane
      BY <1>0, SMT DEF ClosingRecord
  <2>3. closing' \in ClosingRecord /\ closing'.at = "look" /\ closing'.pane = p
    <3>1. closing' = [NoClose EXCEPT !.at = "look", !.pane = p, !.left = S]
        BY <2>1
    <3>. HIDE DEF S
    <3>. QED BY <2>2, <3>1, CloseIs, Zenon
  <2>4. ctl.pc = "idle" /\ mem.agent = NoPane
      BY <2>1, SMT DEF ClosingInv, On
  <2>. QED BY <2>1, <2>3, <2>4, SMT DEF ClosingInv, On, AsFound
<1>3. ASSUME NEW p \in Pane, LookAtPane(p) PROVE ClosingInv'
  <2>1. closing.at = "look" /\ p = closing.pane /\ UNCHANGED pane
      BY <1>3 DEF LookAtPane
  <2>2. CASE PaneForgotten(p) \/ StaysOpen(p)
      BY <2>1, <2>2, OverKeeps
  <2>3. CASE Identified(p) /\ closing' = [closing EXCEPT !.at = "close"]
             /\ UNCHANGED <<registered, mem, ctl>>
    <3>1. closing' \in ClosingRecord /\ closing'.at = "close" /\ closing'.pane = closing.pane
          /\ closing'.touched = closing.touched
        BY <1>0, <2>3, SMT DEF ClosingRecord
    <3>2. pane[p].at = "run" /\ p \in registered \ mem.kept
        BY <2>3, SMT DEF Identified, MayClose
    <3>3. /\ closing.pane \in Pane /\ ctl.pc \in {"release", "ensure", "restored", "idle"}
          /\ On("release") => closing.pane = mem.role
          /\ On("restored") => closing.pane = mem.agent /\ mem.mark = "restored"
        BY <2>1, Zenon DEF ClosingInv
    <3>4. ctl.pc \in {"ensure", "idle"} => mem.agent = NoPane
        BY <2>1, SMT DEF ClosingInv
    <3>5. ~closing.touched => pane[closing.pane].at = "gone" \/ AsFound(closing.pane)
        BY <2>1, Zenon DEF ClosingInv
    <3>6. AsFound(closing.pane)' = AsFound(closing.pane)
        BY <2>1, <2>3, <3>1, Zenon DEF AsFound, On
    <3>. QED BY <2>1, <2>3, <3>1, <3>2, <3>3, <3>4, <3>5, <3>6, SMT DEF ClosingInv, On
  <2>. QED BY <1>3, <2>2, <2>3, Zenon DEF LookAtPane
<1>4. ASSUME NEW p \in Pane, SendClose(p) PROVE ClosingInv'
  <2>1. closing.at = "close" /\ p = closing.pane
      BY <1>4 DEF SendClose
  <2>2. CASE StaysOpen(p)
      BY <2>1, <2>2, OverKeeps
  <2>3. CASE /\ closing' = [NoClose EXCEPT !.at = "closed", !.pane = p, !.left = closing.left]
             /\ UNCHANGED <<mem, ctl>>
    <3>. DEFINE S == closing.left
    <3>1. S \in SUBSET Pane
        BY <1>0, SMT DEF ClosingRecord
    <3>2. closing' \in ClosingRecord /\ closing'.at = "closed" /\ closing'.pane = p
      <4>1. closing' = [NoClose EXCEPT !.at = "closed", !.pane = p, !.left = S]
          BY <2>3
      <4>. HIDE DEF S
      <4>. QED BY <3>1, <4>1, CloseIs, Zenon
    <3>3. /\ ctl.pc \in {"release", "ensure", "restored", "idle"}
          /\ On("release") => closing.pane = mem.role
          /\ On("restored") => closing.pane = mem.agent /\ mem.mark = "restored"
          /\ ctl.pc \in {"ensure", "idle"} => mem.agent = NoPane
        BY <2>1, SMT DEF ClosingInv
    <3>. QED BY <2>1, <2>3, <3>2, <3>3, SMT DEF ClosingInv, On
  <2>. QED BY <1>4, <2>2, <2>3, Zenon DEF SendClose
<1>5. ASSUME NEW p \in Pane, ConfirmClose(p) PROVE ClosingInv'
  <2>1. closing.at = "closed" /\ p = closing.pane /\ (PaneForgotten(p) \/ StaysOpen(p))
      BY <1>5, Zenon DEF ConfirmClose
  <2>. QED BY <2>1, OverKeeps
<1>. QED BY <1>1, <1>2, <1>3, <1>4, <1>5 DEF CloseSteps

\* Where a step of the world leaves the panes.
LEMMA PlaceIs ==
    ASSUME DispInv
    PROVE  /\ \A p, q \in Pane : \A text : Started(q, text)[p].at = pane[p].at
              /\ (p # q => Started(q, text)[p] = pane[p])
           /\ \A p, q \in Pane : \A as : [pane EXCEPT ![q].agent = as][p].at = pane[p].at
           /\ \A p, q \in Pane : \A b : [pane EXCEPT ![q].owes = b][p].at = pane[p].at
           /\ \A p, q \in Pane : \A as, b :
              [pane EXCEPT ![q].agent = as, ![q].owes = b][p].at = pane[p].at
<1>1. pane \in [Pane -> PaneRecord]
    BY DEF DispInv, DispTypeOK
<1>2. \A p, q \in Pane : \A text : Started(q, text)[p].at = pane[p].at
              /\ (p # q => Started(q, text)[p] = pane[p])
    BY <1>1, SMT DEF PaneRecord, Started
<1>3. \A p, q \in Pane : \A as : [pane EXCEPT ![q].agent = as][p].at = pane[p].at
    BY <1>1, SMT DEF PaneRecord
<1>4. \A p, q \in Pane : \A b : [pane EXCEPT ![q].owes = b][p].at = pane[p].at
    BY <1>1, SMT DEF PaneRecord
<1>5. \A p, q \in Pane : \A as, b :
              [pane EXCEPT ![q].agent = as, ![q].owes = b][p].at = pane[p].at
    BY <1>1, SMT DEF PaneRecord
<1>. QED BY <1>2, <1>3, <1>4, <1>5, Zenon

WorldActs(p) == \/ \E v \in BOOLEAN : AgentAnswers(p, v)
                \/ AgentStops(p) \/ AgentGoesOn(p) \/ AgentDies(p)
                \/ OperatorPressesEnter(p) \/ OperatorCloses(p) \/ StrangerOpens(p)
LEMMA WorldMoves ==
    ASSUME DispInv, NEW p \in Pane, WorldActs(p)
    PROVE  /\ \A q \in Pane \ {p} : pane'[q] = pane[q]
           /\ pane[p].at \in {"run", "gone"} => pane'[p].at \in {"run", "gone"}
           /\ Elsewhere
<1>0. pane \in [Pane -> PaneRecord]
    BY DEF DispInv, DispTypeOK
<1>1. CASE OperatorCloses(p)
  <2>1. pane' = Gone({p}) /\ Elsewhere
      BY <1>1 DEF OperatorCloses
  <2>2. Gone({p})[p].at = "gone" /\ \A q \in Pane \ {p} : Gone({p})[q] = pane[q]
      BY GoneIs, Zenon
  <2>. QED BY <2>1, <2>2
<1>2. CASE StrangerOpens(p)
  <2>1. PICK at \in {"run", "elsewhere"}, box \in {<<>>, <<Typed>>} :
           pane' = [pane EXCEPT ![p].at = at, ![p].agent = "idle", ![p].box = box]
      BY <1>2 DEF StrangerOpens
  <2>2. pane[p].at = "new" /\ Elsewhere
      BY <1>2 DEF StrangerOpens
  <2>. QED BY <1>0, <2>1, <2>2, SMT
<1>3. CASE OperatorPressesEnter(p)
  <2>1. PICK text : pane' = Started(p, text)
      BY <1>3 DEF OperatorPressesEnter
  <2>2. Elsewhere
      BY <1>3 DEF OperatorPressesEnter
  <2>3. Started(p, text)[p].at = pane[p].at
        /\ \A q \in Pane \ {p} : Started(p, text)[q] = pane[q]
    <3>1. \A q \in Pane : Started(p, text)[q].at = pane[q].at
              /\ (q # p => Started(p, text)[q] = pane[q])
        BY PlaceIs, Zenon
    <3>. QED BY <3>1
  <2>. QED BY <2>1, <2>2, <2>3
<1>4. CASE AgentDies(p)
  <2>1. pane' = [pane EXCEPT ![p].agent = "dead", ![p].owes = FALSE] /\ Elsewhere
      BY <1>4 DEF AgentDies
  <2>2. pane'[p].at = pane[p].at
      BY <1>0, <2>1, SMT DEF PaneRecord
  <2>. QED BY <1>0, <2>1, <2>2, SMT
<1>5. CASE AgentStops(p) \/ AgentGoesOn(p)
  <2>1. Elsewhere
      BY <1>5 DEF AgentStops, AgentGoesOn
  <2>2. PICK as : pane' = [pane EXCEPT ![p].agent = as]
      BY <1>5 DEF AgentStops, AgentGoesOn
  <2>3. pane'[p].at = pane[p].at
      BY <2>2, PlaceIs, Zenon
  <2>. QED BY <1>0, <2>1, <2>2, <2>3, SMT
<1>6. CASE \E v \in BOOLEAN : AgentAnswers(p, v)
  <2>1. pane' = [pane EXCEPT ![p].owes = FALSE] /\ Elsewhere
      BY <1>6 DEF AgentAnswers
  <2>2. pane'[p].at = pane[p].at
      BY <2>1, PlaceIs, Zenon
  <2>. QED BY <1>0, <2>1, <2>2, SMT
<1>. QED BY <1>1, <1>2, <1>3, <1>4, <1>5, <1>6 DEF WorldActs

\* What an act on a pane leaves in the record.
LEMMA ActedIs ==
    ASSUME NEW p, closing \in ClosingRecord, closing' = ActedOn(p) \/ closing' = Moved(p)
    PROVE  /\ closing' \in ClosingRecord /\ closing'.at = closing.at
           /\ closing'.pane = closing.pane
           /\ closing'.touched <=> closing.touched \/ Acted(p)
           /\ closing' = Moved(p) => (closing'.moved <=> closing.moved \/ Acted(p))
           /\ closing.moved => closing'.moved
<1>. DEFINE t == closing.touched \/ Acted(p)
            m == closing.moved \/ Acted(p)
            c1 == [closing EXCEPT !.touched = t]
            c2 == [c1 EXCEPT !.moved = m]
<1>1. t \in BOOLEAN /\ m \in BOOLEAN
    OBVIOUS
<1>2. /\ c1 \in ClosingRecord /\ c1.at = closing.at /\ c1.pane = closing.pane
      /\ c1.touched = t /\ c1.moved = closing.moved
  <2>. HIDE DEF t
  <2>. QED BY <1>1, TouchedField, Zenon
<1>3. /\ c2 \in ClosingRecord /\ c2.at = c1.at /\ c2.pane = c1.pane
      /\ c2.touched = c1.touched /\ c2.moved = m
  <2>. HIDE DEF c1, m
  <2>. QED BY <1>1, <1>2, MovedField, Zenon
<1>4. ActedOn(p) = c1 /\ Moved(p) = c2
    BY Zenon DEF ActedOn, Moved
<1>. HIDE DEF c1, c2
<1>5. CASE closing' = Moved(p)
    BY <1>2, <1>3, <1>4, <1>5, Zenon
<1>6. CASE closing' # Moved(p)
    BY <1>2, <1>4, <1>6, Zenon
<1>. QED BY <1>5, <1>6

\* What the world does to the pane is remembered.
LEMMA WorldLeaves ==
    ASSUME DispInv, ClosingInv, NEW p \in Pane, Elsewhere,
           \A q \in Pane \ {p} : pane'[q] = pane[q],
           closing' = ActedOn(p) \/ closing' = Moved(p),
           closing' = Moved(p)
               \/ (pane[p].at \in {"run", "gone"} => pane'[p].at \in {"run", "gone"})
    PROVE  ClosingInv'
<1>1. UNCHANGED <<registered, mem, ctl>> /\ closing \in ClosingRecord
    BY DEF Elsewhere, ClosingInv
<1>3. /\ closing' \in ClosingRecord /\ closing'.at = closing.at /\ closing'.pane = closing.pane
      /\ closing'.touched <=> closing.touched \/ Acted(p)
      /\ closing' = Moved(p) => (closing'.moved <=> closing.moved \/ Acted(p))
      /\ closing.moved => closing'.moved
    BY <1>1, ActedIs
<1>4. CASE closing.at \notin {"look", "close"}
    BY <1>1, <1>3, <1>4, SMT DEF ClosingInv, On
<1>5. CASE closing.at \in {"look", "close"}
  <2>1. /\ closing.pane \in Pane /\ ctl.pc \in {"release", "ensure", "restored", "idle"}
        /\ On("release") => closing.pane = mem.role
        /\ On("restored") => closing.pane = mem.agent /\ mem.mark = "restored"
        /\ ctl.pc \in {"ensure", "idle"} => mem.agent = NoPane
      BY <1>5, SMT DEF ClosingInv
  <2>2. ~closing'.touched => pane[closing.pane].at = "gone" \/ AsFound(closing.pane)
      BY <1>3, <1>5, Zenon DEF ClosingInv
  <2>3. ~closing'.touched => pane'[closing.pane] = pane[closing.pane]
      BY <1>3, <1>5, <2>1, Zenon DEF Acted
  <2>4. ~closing'.touched => pane'[closing.pane].at = "gone" \/ AsFound(closing.pane)'
      BY <1>1, <1>3, <2>2, <2>3, Zenon DEF AsFound, On
  <2>5. closing.at = "close" =>
          /\ closing.pane \in registered \ mem.kept
          /\ closing.moved \/ pane[closing.pane].at \in {"run", "gone"}
      BY DEF ClosingInv
  <2>6. closing.at = "close" => closing'.moved \/ pane'[closing.pane].at \in {"run", "gone"}
    <3>1. CASE p = closing.pane
      <4>1. closing' = Moved(p) => closing'.moved
          BY <1>3, <1>5, <3>1, Zenon DEF Acted
      <4>2. closing.at = "close" =>
                closing'.moved \/ pane[closing.pane].at \in {"run", "gone"}
          BY <1>3, <2>5, Zenon
      <4>. QED BY <3>1, <4>1, <4>2, Zenon
    <3>2. CASE p # closing.pane
        BY <1>3, <2>1, <2>5, <3>2, SMT
    <3>. QED BY <3>1, <3>2
  <2>. QED BY <1>1, <1>3, <1>5, <2>1, <2>4, <2>5, <2>6, SMT DEF ClosingInv, On
<1>. QED BY <1>4, <1>5

LEMMA WorldCloseKeeps == ASSUME DispInv, ClosingInv, World PROVE ClosingInv'
<1>1. PICK p \in Pane : \/ WorldActs(p) /\ closing' = ActedOn(p)
                        \/ IdReused(p) /\ closing' = Moved(p)
    BY Zenon DEF World, WorldActs
<1>2. CASE WorldActs(p) /\ closing' = ActedOn(p)
    BY <1>2, WorldMoves, WorldLeaves
<1>3. CASE IdReused(p) /\ closing' = Moved(p)
  <2>1. Elsewhere /\ pane' = [pane EXCEPT ![p].at = "elsewhere", ![p].owes = FALSE]
      BY <1>3 DEF IdReused
  <2>2. \A q \in Pane \ {p} : pane'[q] = pane[q]
      BY <2>1, SMT DEF DispInv, DispTypeOK
  <2>. QED BY <1>3, <2>1, <2>2, WorldLeaves
<1>. QED BY <1>1, <1>2, <1>3

LEMMA ClosingKept == ASSUME DispInv, ClosingInv, [DispNext]_dispVars PROVE ClosingInv'
<1>1. CASE closing.at = "no" /\ ControllerSteps /\ UNCHANGED closing
    BY <1>1, RestingKeeps DEF ClosingInv
<1>2. CASE closing.at = "no" /\ BeginsClose
    BY <1>2, BeginsKeep
<1>3. CASE CloseSteps
    BY <1>3, CloseStepsKeep
<1>4. CASE Crash
    BY <1>4, NoCloseIs, RestingKeeps DEF Crash
<1>5. CASE World
    BY <1>5, WorldCloseKeeps
<1>6. CASE UNCHANGED dispVars
  <2>1. UNCHANGED <<closing, registered, mem, ctl, pane>>
      BY <1>6 DEF dispVars
  <2>2. \A p : AsFound(p)' = AsFound(p)
      BY <2>1, Zenon DEF AsFound, On
  <2>. QED BY <2>1, <2>2, Zenon DEF ClosingInv, On
<1>. QED BY <1>1, <1>2, <1>3, <1>4, <1>5, <1>6, Zenon DEF DispNext

-----------------------------------------------------------------------------
(* Theorems                                                                *)

\* What a dispatch needs of its panes, of the answer file and of its own memory holds at every
\* step, whatever the number of panes, prompts and retries (dispatchers.py, controller.py).
THEOREM DispIsSound == DispSpec => [](DispInv /\ ClosingInv)
<1>1. DispInit => ClosingInv
  <2>1. DispInit => closing = NoClose
      BY DEF DispInit
  <2>. QED BY <2>1, NoCloseIs, Zenon DEF ClosingInv
<1>. QED BY <1>1, DispInitHolds, DispNextKeeps, ClosingKept, PTL DEF DispSpec

\* No prompt is typed into a pane that was not charged before (controller.py:2983).
THEOREM SendsAreAlwaysCharged == DispSpec => []SendsAreCharged
<1>1. DispInv => SendsAreCharged
    BY Zenon DEF DispInv, ChargedFirst, SendsAreCharged
<1>. QED BY <1>1, DispIsSound, PTL

\* The answer a dispatch returns was given to the prompt it asked (dispatchers.py:2888-3084).
THEOREM AnswersAreToTheAsked == DispSpec => []AnswersTheAsked
<1>1. DispInv => AnswersTheAsked
    BY Zenon DEF DispInv, SureInv, AnswersTheAsked, On
<1>. QED BY <1>1, DispIsSound, PTL

LEMMA ClosesDoNotSend == ASSUME BeginsClose \/ CloseSteps PROVE sent' = sent
<1>1. ASSUME NEW p \in Pane, CloseDead(p) PROVE sent' = sent
    BY <1>1 DEF CloseDead
<1>2. CASE ReleaseRole \/ EndProcess \/ ReplaceRestored \/ ProcessEnds
    BY <1>2 DEF ReleaseRole, EndProcess, ReplaceRestored, ProcessEnds
<1>3. ASSUME NEW p \in Pane, EndPane(p) \/ LookAtPane(p) \/ SendClose(p) \/ ConfirmClose(p)
      PROVE  sent' = sent
    BY <1>3 DEF EndPane, LookAtPane, SendClose, ConfirmClose
<1>. QED BY <1>1, <1>2, <1>3 DEF BeginsClose, CloseSteps

LEMMA OnlySendsSend == ASSUME [DispNext]_dispVars, sent' # sent PROVE Send \/ SendNudge
<1>1. CASE ControllerSteps
  <2>1. ASSUME NEW t \in Ask, BeginDispatch(t) PROVE FALSE
      BY <2>1 DEF BeginDispatch
  <2>2. ASSUME NEW p \in Pane, Adopt(p) PROVE FALSE
      BY <2>2, Zenon DEF Adopt
  <2>3. ASSUME NEW p \in Pane, NEW r \in BOOLEAN, OpenPane(p, r) PROVE FALSE
      BY <2>3, Zenon DEF OpenPane
  <2>4. CASE StartProcess \/ Charge \/ Validate \/ AgentKnown \/ StartAgent
      BY <2>4, Zenon DEF StartProcess, Charge, Refuse, Validate, AgentKnown, StartAgent
  <2>5. CASE Settle \/ Collect
      BY <2>5, Zenon DEF Settle, Collect, Take, Refuse, Blocked
  <2>6. CASE SubmitStalled \/ Confirm \/ AwaitTurn \/ CheckRestored \/ AwaitReady
             \/ ParkAnswer \/ WriteMarker \/ Turn
      BY <2>6, Zenon DEF SubmitStalled, Confirm, AwaitTurn, CheckRestored, AwaitReady,
                         ParkAnswer, WriteMarker, Turn
  <2>7. CASE JudgeAnswer \/ Grace \/ FollowUp
      BY <2>7, Zenon DEF JudgeAnswer, Grace, FollowUp, Take, Refuse, Blocked
  <2>8. CASE WaitResumed \/ ChargeNudge \/ Nudged
      BY <2>8, Zenon DEF WaitResumed, ChargeNudge, Nudged, Take, Refuse, Blocked
  <2>. QED BY <1>1, <2>1, <2>2, <2>3, <2>4, <2>5, <2>6, <2>7, <2>8, Zenon DEF ControllerSteps
<1>2. CASE Crash \/ World
    BY <1>2, Zenon DEF Crash, World, AgentAnswers, AgentStops, AgentGoesOn, AgentDies, IdReused,
                       OperatorPressesEnter, OperatorCloses, StrangerOpens, Elsewhere
<1>3. CASE UNCHANGED dispVars
    BY <1>3 DEF dispVars
<1>4. CASE BeginsClose \/ CloseSteps
    BY <1>4, ClosesDoNotSend
<1>. QED BY <1>1, <1>2, <1>3, <1>4 DEF DispNext

\* A prompt never meets another in the input box or an agent at work, and what was answered is
\* not asked for again (dispatchers.py:2330-2550; O199).
THEOREM PromptsAreAlwaysSettled == DispSpec => PromptsAreSettled
<1>1. DispInv /\ [DispNext]_dispVars =>
         [sent' # sent /\ ~mem.restless => Status0 # "working" /\ Box = <<>>]_dispVars
  <2>1. SUFFICES ASSUME DispInv, [DispNext]_dispVars, sent' # sent, ~mem.restless
                 PROVE  Status0 # "working" /\ Box = <<>>
      OBVIOUS
  <2>2. ctl.pc \in {"send", "sendNudge"}
      BY <2>1, OnlySendsSend DEF Send, SendNudge, On
  <2>3. mem.agent # NoPane /\ mem.mark = NoText /\ ~mem.new
      BY <2>1, <2>2, SMT DEF DispInv, WhereInv, TurnEnded, Prepare
  <2>4. AtRest(mem.agent)
      BY <2>1, <2>2, <2>3, SMT DEF DispInv, RestInv
  <2>. QED BY <2>4, Zenon DEF AtRest, Status0, Target, Box
<1>2. DispInv /\ [DispNext]_dispVars => [sent' # sent /\ On("send") => ~ctl.had]_dispVars
    BY SendKnows DEF On
<1>3. DispSpec => NothingIsJoined
    BY <1>1, DispIsSound, PTL DEF NothingIsJoined, DispSpec
<1>4. DispSpec => AnsweredIsCollected
    BY <1>2, DispIsSound, PTL DEF AnsweredIsCollected, DispSpec
<1>. QED BY <1>3, <1>4 DEF PromptsAreSettled

\* Only a close that is confirmed strikes a pane from the registry.
LEMMA OnlyTheGone ==
    ASSUME DispInv, [DispNext]_dispVars, NEW p \in registered \ registered'
    PROVE  pane'[p].at = "gone"
<1>1. CASE ControllerSteps
  <2>1. ASSUME NEW q \in Pane, Adopt(q) PROVE FALSE
      BY <2>1, SMT DEF Adopt
  <2>2. ASSUME NEW q \in Pane, NEW r \in BOOLEAN, OpenPane(q, r) PROVE FALSE
      BY <2>2, SMT DEF OpenPane
  <2>3. ASSUME NEW t \in Ask, BeginDispatch(t) PROVE FALSE
      BY <2>3 DEF BeginDispatch
  <2>4. CASE StartProcess \/ Charge \/ Validate \/ AgentKnown \/ StartAgent
      BY <2>4, Zenon DEF StartProcess, Charge, Refuse, Validate, AgentKnown, StartAgent
  <2>5. CASE Settle \/ Collect \/ JudgeAnswer \/ Grace
      BY <2>5, Zenon DEF Settle, Collect, Take, Refuse, Blocked, JudgeAnswer, Grace
  <2>6. CASE SubmitStalled \/ Confirm \/ AwaitTurn \/ CheckRestored \/ AwaitReady
             \/ ParkAnswer \/ WriteMarker \/ Turn
      BY <2>6, Zenon DEF SubmitStalled, Confirm, AwaitTurn, CheckRestored, AwaitReady,
                         ParkAnswer, WriteMarker, Turn
  <2>7. CASE FollowUp \/ WaitResumed
      BY <2>7, Zenon DEF FollowUp, WaitResumed, Take, Refuse, Blocked
  <2>8. CASE ChargeNudge \/ Nudged \/ Send \/ SendNudge
      BY <2>8, Zenon DEF ChargeNudge, Nudged, Take, Refuse, Blocked, Send, SendNudge
  <2>. QED BY <1>1, <2>1, <2>2, <2>3, <2>4, <2>5, <2>6, <2>7, <2>8, Zenon DEF ControllerSteps
<1>2. CASE BeginsClose
  <2>1. ASSUME NEW q \in Pane, CloseDead(q) PROVE FALSE
      BY <2>1, SMT DEF CloseDead
  <2>. QED BY <1>2, <2>1, Zenon DEF BeginsClose, ReleaseRole, EndProcess, ReplaceRestored
<1>3. CASE CloseSteps
  <2>1. PICK q \in Pane : LookAtPane(q) \/ ConfirmClose(q)
      BY <1>3, Zenon DEF CloseSteps, ProcessEnds, EndPane, SendClose, StaysOpen
  <2>2. PaneForgotten(q) /\ pane[q].at = "gone" /\ UNCHANGED pane
      BY <2>1, Zenon DEF LookAtPane, ConfirmClose, StaysOpen
  <2>3. p = q
      BY <2>2, SMT DEF PaneForgotten
  <2>. QED BY <2>2, <2>3
<1>4. CASE Crash \/ World
    BY <1>4, Zenon DEF Crash, World, AgentAnswers, AgentStops, AgentGoesOn, AgentDies, IdReused,
                       OperatorPressesEnter, OperatorCloses, StrangerOpens, Elsewhere
<1>5. CASE UNCHANGED dispVars
    BY <1>5 DEF dispVars
<1>. QED BY <1>1, <1>2, <1>3, <1>4, <1>5 DEF DispNext

\* What a close command takes is registered, not kept, and as it was found, unless it has
\* changed since it was looked at; and no pane that stands is struck from the registry
\* (_close_own_pane, release_role, _close_dead, _replace_restored, close_own).
THEOREM ClosesAlwaysItsOwn == DispSpec => ClosesItsOwn
<1>1. ASSUME DispInv, ClosingInv, [DispNext]_dispVars, NEW p \in Pane, Takes(p)
      PROVE  /\ p \in registered \ mem.kept
             /\ closing.moved \/ pane[p].at = "run"
             /\ closing.touched \/ AsFound(p)
  <2>1. closing.at = "close" /\ closing'.at = "closed" /\ pane[p].at # "gone"
        /\ pane'[p].at = "gone" /\ closing \in ClosingRecord
      BY <1>1 DEF Takes, ClosingInv
  <2>2. PICK q \in Pane : SendClose(q)
    <3>1. CASE CloseSteps
        BY <2>1, <3>1, Zenon DEF CloseSteps, ProcessEnds, EndPane, LookAtPane, ConfirmClose
    <3>2. CASE Crash
        BY <2>1, <3>2, NoCloseIs DEF Crash
    <3>3. CASE World
      <4>1. PICK r \in Pane : closing' = ActedOn(r) \/ closing' = Moved(r)
          BY <3>3, Zenon DEF World
      <4>2. closing'.at = closing.at
          BY <2>1, <4>1, ActedIs
      <4>. QED BY <2>1, <4>2
    <3>4. CASE UNCHANGED dispVars
        BY <2>1, <3>4 DEF dispVars
    <3>. QED BY <1>1, <2>1, <3>1, <3>2, <3>3, <3>4 DEF DispNext
  <2>3. q = closing.pane /\ (pane' = Gone({q}) \/ pane' = pane)
      BY <2>2 DEF SendClose
  <2>4. p = q
    <3>1. pane' = Gone({q})
        BY <2>1, <2>3
    <3>2. \A r \in Pane : r # q => Gone({q})[r] = pane[r]
        BY <1>1, GoneIs, Zenon
    <3>. QED BY <2>1, <3>1, <3>2
  <2>. QED BY <1>1, <2>1, <2>3, <2>4, Zenon DEF ClosingInv
<1>2. DispInv /\ ClosingInv /\ [DispNext]_dispVars =>
        [\A p \in Pane : Takes(p) =>
            /\ p \in registered \ mem.kept
            /\ closing.moved \/ pane[p].at = "run"
            /\ closing.touched \/ AsFound(p)]_dispVars
    BY <1>1, Zenon
<1>3. DispInv /\ [DispNext]_dispVars =>
        [\A p \in registered \ registered' : pane'[p].at # "run"]_dispVars
    BY OnlyTheGone, Zenon
<1>4. DispSpec => ClosesWhatItSaw
    BY <1>2, DispIsSound, PTL DEF ClosesWhatItSaw, DispSpec
<1>5. DispSpec => ForgetsTheGone
    BY <1>3, DispIsSound, PTL DEF ForgetsTheGone, DispSpec
<1>. QED BY <1>4, <1>5 DEF ClosesItsOwn

-----------------------------------------------------------------------------
(* Admission: figures and estimates                                        *)

LEMMA LargerOfTwo ==
    ASSUME NEW a \in Nat, NEW b \in Nat
    PROVE  Max({a, b}) \in Nat /\ Max({a, b}) >= a /\ Max({a, b}) >= b
<1>1. \E x \in {a, b} : \A y \in {a, b} : x >= y
    OBVIOUS
<1>. QED BY <1>1 DEF Max

LEMMA SmallerOfTwo ==
    ASSUME NEW a \in Int, NEW b \in Int
    PROVE  Min({a, b}) \in {a, b} /\ Min({a, b}) <= a /\ Min({a, b}) <= b
<1>1. \E x \in {a, b} : \A y \in {a, b} : x =< y
    OBVIOUS
<1>. QED BY <1>1 DEF Min

LEMMA FiguresAre ==
    /\ Default \in Nat /\ HistoryWindow \in Nat /\ HistoryWindow # 0 /\ Reserve \in Nat
    /\ HostMaxAge \in Nat /\ MaxReservations \in Nat /\ IsFiniteSet(Process)
    /\ Asked \subseteq Nat /\ HostFree \in Nat /\ GuestFree \in Nat /\ Inodes \in Nat
    /\ CriticalBelow \in Nat
BY AdmissionAssumption DEF AdmissionAssumption

\* The actuals an estimate looks at: some of the last recorded ones.
LEMMA ActualsAre ==
    ASSUME AdmTypeOK, history # <<>>
    PROVE  /\ Len(Actuals) \in Nat /\ Len(Actuals) # 0 /\ DOMAIN Actuals = 1..Len(Actuals)
           /\ \A i \in 1..Len(Actuals) : Actuals[i].actual \in Nat
<1>. DEFINE R == [id : Id, actual : Nat, closed : Nat]
<1>1. history \in Seq(R)
    BY DEF AdmTypeOK
<1>. HIDE DEF R
<1>2. \A i \in 1..Len(history) : history[i] \in R
    BY <1>1
<1>3. Len(history) \in Nat /\ Len(history) # 0
    BY <1>1
<1>. DEFINE n == Len(history)
            m == IF n > HistoryWindow THEN n - HistoryWindow + 1 ELSE 1
<1>4. n \in Nat /\ n # 0
    BY <1>3
<1>5. m \in 1..n
    BY <1>4, FiguresAre
<1>6. \A i \in m..n : history[i] \in R
  <2>1. m..n \subseteq 1..n
      BY <1>4, <1>5
  <2>. HIDE DEF m
  <2>. QED BY <1>2, <2>1
<1>7. Actuals = SubSeq(history, m, n)
    BY DEF Actuals
<1>. HIDE DEF m, n
<1>8. SubSeq(history, m, n) \in Seq(R) /\ Len(SubSeq(history, m, n)) = n - m + 1
  <2>1. m \in Int /\ n \in Int /\ m <= n
      BY <1>4, <1>5
  <2>. QED BY <1>6, <2>1, SubSeqProperties
<1>9. Actuals \in Seq(R) /\ Len(Actuals) \in Nat /\ Len(Actuals) # 0
    BY <1>4, <1>5, <1>7, <1>8
<1>10. \A i \in 1..Len(Actuals) : Actuals[i] \in R
    BY <1>9
<1>. QED BY <1>9, <1>10 DEF R

\* There is a 95th percentile of them (estimate).
LEMMA PercentileIs ==
    ASSUME AdmTypeOK, history # <<>>
    PROVE  P95 \in Nat
<1>1. PICK s, n : s = Actuals /\ n = Len(s)
    OBVIOUS
<1>2. n \in Nat /\ n # 0 /\ DOMAIN s = 1..n /\ \A i \in 1..n : s[i].actual \in Nat
    BY <1>1, ActualsAre
<1>3. PICK k : k = (19 * n + 19) \div 20
    OBVIOUS
<1>4. k \in 1..n
    BY <1>2, <1>3
<1>5. PICK f : f = [i \in 1..n |-> s[i].actual]
    OBVIOUS
<1>6. \A i \in 1..n : f[i] = s[i].actual
    BY <1>5
<1>7. \A i \in 1..n : f[i] \in Nat
    BY <1>2, <1>6
<1>8. \E a : OfRank(a, f, n, k)
    BY <1>2, <1>4, <1>7, RankExists
<1>9. PICK a : OfRank(a, f, n, k)
    BY <1>8
<1>10. /\ a \in {f[i] : i \in 1..n}
      /\ Cardinality({i \in 1..n : f[i] < a}) < k
      /\ Cardinality({i \in 1..n : f[i] <= a}) >= k
    BY <1>9 DEF OfRank
<1>11. /\ {f[i] : i \in 1..n} = {s[i].actual : i \in 1..n}
      /\ {i \in 1..n : f[i] < a} = {i \in 1..n : s[i].actual < a}
      /\ {i \in 1..n : f[i] <= a} = {i \in 1..n : s[i].actual <= a}
    BY <1>6
<1>. DEFINE Fits(b) == /\ Cardinality({i \in DOMAIN s : s[i].actual < b}) < k
                       /\ Cardinality({i \in DOMAIN s : s[i].actual <= b}) >= k
            V == {s[i].actual : i \in DOMAIN s}
<1>12. a \in V /\ Fits(a)
    BY <1>2, <1>10, <1>11
<1>13. P95 = CHOOSE b \in V : Fits(b)
    BY <1>1, <1>3 DEF P95
<1>14. V \subseteq Nat
    BY <1>2
<1>. HIDE DEF V, Fits
<1>15. (CHOOSE b \in V : Fits(b)) \in V
    BY <1>12
<1>. QED BY <1>13, <1>14, <1>15

LEMMA EstimateIs ==
    ASSUME AdmTypeOK, NEW asked \in Asked
    PROVE  Estimate(asked) \in Nat
<1>. DEFINE known == IF history = <<>> THEN Default ELSE Max({Default, (3 * P95 + 1) \div 2})
<1>1. asked \in Nat /\ Default \in Nat
    BY FiguresAre
<1>2. known \in Nat
  <2>1. CASE history = <<>>
      BY <1>1, <2>1
  <2>2. CASE history # <<>>
    <3>1. P95 \in Nat
        BY <2>2, PercentileIs
    <3>2. (3 * P95 + 1) \div 2 \in Nat
        BY <3>1
    <3>. QED BY <1>1, <2>2, <3>2, LargerOfTwo
  <2>. QED BY <2>1, <2>2
<1>3. Estimate(asked) = Max({asked, known})
    BY DEF Estimate
<1>. HIDE DEF known
<1>. QED BY <1>1, <1>2, <1>3, LargerOfTwo

-----------------------------------------------------------------------------
(* What live operations were promised, and what they may still write       *)

Numbered == /\ IsFiniteSet(Holding) /\ Holding \subseteq Process
            /\ \A p \in Holding : /\ proc[p].hold \in Id /\ proc[p].wrote \in Nat
                                   /\ Promised[p] = file[proc[p].hold].est
                                   /\ Owed[p] = Rest(file[proc[p].hold], proc[p].wrote)
                                   /\ Promised[p] \in Nat /\ Owed[p] \in Nat
                                   /\ Owed[p] <= Promised[p]
                                   /\ Promised[p] <= Owed[p] + proc[p].wrote
            /\ IsFiniteSet(Id) /\ \A r \in Id : Estimates[r] = file[r].est /\ file[r].est \in Nat

LEMMA HeldNumbers == AdmTypeOK => Numbered
<1>. SUFFICES ASSUME AdmTypeOK PROVE Numbered
    OBVIOUS
<1>1. proc \in [Process -> ControllerRecord] /\ file \in [Id -> ReservationRecord]
    BY DEF AdmTypeOK
<1>2. IsFiniteSet(Holding) /\ Holding \subseteq Process
    BY FiguresAre, FS_Subset DEF Holding
<1>3. ASSUME NEW p \in Holding
      PROVE  /\ proc[p].hold \in Id /\ proc[p].wrote \in Nat
             /\ Promised[p] = file[proc[p].hold].est
             /\ Owed[p] = Rest(file[proc[p].hold], proc[p].wrote)
             /\ Promised[p] \in Nat /\ Owed[p] \in Nat /\ Owed[p] <= Promised[p]
             /\ Promised[p] <= Owed[p] + proc[p].wrote
  <2>1. proc[p].hold \in Id /\ proc[p].wrote \in Nat
      BY <1>1 DEF Holding, ControllerRecord
  <2>2. file[proc[p].hold].est \in Nat
      BY <1>1, <2>1 DEF ReservationRecord
  <2>3. /\ Promised[p] = file[proc[p].hold].est
        /\ Owed[p] = Rest(file[proc[p].hold], proc[p].wrote)
      BY DEF Promised, Owed
  <2>. QED BY <2>1, <2>2, <2>3 DEF Rest
<1>4. IsFiniteSet(Id)
    BY FiguresAre, NumbersUpTo DEF Id
<1>5. \A r \in Id : Estimates[r] = file[r].est /\ file[r].est \in Nat
    BY <1>1 DEF Estimates, ReservationRecord
<1>. QED BY <1>2, <1>3, <1>4, <1>5 DEF Numbered

Totalled == /\ Total(Promised, Holding) \in Nat /\ Total(Owed, Holding) \in Nat
            /\ Total(Owed, Holding) <= Total(Promised, Holding)
            /\ \A S \in SUBSET Id : Total(Estimates, S) \in Nat

LEMMA HeldTotals == AdmTypeOK => Totalled
<1>. SUFFICES ASSUME AdmTypeOK PROVE Totalled
    OBVIOUS
<1>1. Numbered
    BY HeldNumbers
<1>2. /\ IsFiniteSet(Holding)
      /\ \A p \in Holding : /\ Promised[p] \in Nat /\ Owed[p] \in Nat
                             /\ Owed[p] <= Promised[p]
    BY <1>1 DEF Numbered
<1>3. Total(Promised, Holding) \in Nat /\ Total(Owed, Holding) \in Nat
    BY <1>2, SumFinite
<1>4. Total(Owed, Holding) <= Total(Promised, Holding)
    BY <1>2, SumMonotone
<1>5. ASSUME NEW S \in SUBSET Id PROVE Total(Estimates, S) \in Nat
  <2>1. IsFiniteSet(S) /\ \A r \in S : Estimates[r] \in Nat
      BY <1>1, FS_Subset DEF Numbered
  <2>. QED BY <2>1, SumFinite
<1>. QED BY <1>3, <1>4, <1>5 DEF Totalled

LEMMA TotalsBefore ==
    ASSUME AdmTypeOK, AdmTypeOK'
    PROVE  Numbered /\ Numbered' /\ Totalled /\ Totalled'
<1>1. (AdmTypeOK => Numbered)' /\ (AdmTypeOK => Totalled)'
    BY HeldNumbers, HeldTotals, PTL
<1>. QED BY <1>1, HeldNumbers, HeldTotals

PromisedSum == Total(Promised, Holding)
OwedSum == Total(Owed, Holding)

\* A step that leaves alone what a holder was promised and has written.
Kept(q) == /\ proc'[q].wrote = proc[q].wrote
           /\ file'[proc'[q].hold].est = file[proc[q].hold].est

LEMMA KeptIsKept ==
    ASSUME AdmTypeOK, AdmTypeOK', NEW q \in Holding, q \in Holding', Kept(q)
    PROVE  Promised'[q] = Promised[q] /\ Owed'[q] = Owed[q]
<1>1. Numbered /\ Numbered'
    BY TotalsBefore
<1>2. Promised[q] = file[proc[q].hold].est /\ Owed[q] = Rest(file[proc[q].hold], proc[q].wrote)
    BY <1>1 DEF Numbered
<1>3. /\ Promised'[q] = file'[proc'[q].hold].est
      /\ Owed'[q] = Rest(file'[proc'[q].hold], proc'[q].wrote)
    BY <1>1 DEF Numbered
<1>. QED BY <1>2, <1>3 DEF Kept, Rest

LEMMA HoldersStay ==
    ASSUME AdmTypeOK, AdmTypeOK', Holding' = Holding, \A q \in Holding : Kept(q)
    PROVE  PromisedSum' = PromisedSum /\ OwedSum' = OwedSum
<1>1. PICK H, P, O, P2, O2 : /\ H = Holding /\ P = Promised /\ O = Owed
                             /\ P2 = Promised' /\ O2 = Owed'
    OBVIOUS
<1>2. \A q \in H : P2[q] = P[q] /\ O2[q] = O[q]
    BY <1>1, KeptIsKept
<1>3. Total(P2, H) = Total(P, H) /\ Total(O2, H) = Total(O, H)
    BY <1>2, SumSame
<1>. QED BY <1>1, <1>3 DEF PromisedSum, OwedSum

LEMMA HolderLeaves ==
    ASSUME AdmTypeOK, AdmTypeOK', NEW p \in Holding, Holding' = Holding \ {p},
           \A q \in Holding' : Kept(q)
    PROVE  /\ PromisedSum = PromisedSum' + Promised[p]
           /\ OwedSum = OwedSum' + Owed[p]
<1>1. PICK H, P, O, P2, O2 : /\ H = Holding /\ P = Promised /\ O = Owed
                             /\ P2 = Promised' /\ O2 = Owed'
    OBVIOUS
<1>2. \A q \in H \ {p} : P2[q] = P[q] /\ O2[q] = O[q]
    BY <1>1, KeptIsKept
<1>3. Total(P2, H \ {p}) = Total(P, H \ {p}) /\ Total(O2, H \ {p}) = Total(O, H \ {p})
    BY <1>2, SumSame
<1>4. IsFiniteSet(H) /\ p \in H /\ \A q \in H : P[q] \in Nat /\ O[q] \in Nat
    BY <1>1, TotalsBefore DEF Numbered
<1>5. Total(P, H) = Total(P, H \ {p}) + P[p] /\ Total(O, H) = Total(O, H \ {p}) + O[p]
    BY <1>4, SumSplits
<1>. QED BY <1>1, <1>3, <1>5 DEF PromisedSum, OwedSum

LEMMA HolderWrites ==
    ASSUME AdmTypeOK, AdmTypeOK', NEW p \in Holding, Holding' = Holding,
           Promised'[p] = Promised[p], \A q \in Holding \ {p} : Kept(q)
    PROVE  PromisedSum' = PromisedSum /\ OwedSum' + Owed[p] = OwedSum + Owed'[p]
<1>1. PICK H, P, O, P2, O2 : /\ H = Holding /\ P = Promised /\ O = Owed
                             /\ P2 = Promised' /\ O2 = Owed'
    OBVIOUS
<1>2. \A q \in H \ {p} : P2[q] = P[q] /\ O2[q] = O[q]
    BY <1>1, KeptIsKept
<1>3. IsFiniteSet(H) /\ p \in H /\ \A q \in H : O[q] \in Nat
    BY <1>1, TotalsBefore DEF Numbered
<1>4. \A q \in H : O2[q] \in Nat
    BY <1>1, TotalsBefore DEF Numbered
<1>5. Total(P2, H) = Total(P, H)
  <2>1. P2[p] = P[p]
      BY <1>1
  <2>2. \A q \in H : P2[q] = P[q]
      BY <1>2, <2>1
  <2>. QED BY <2>2, SumSame
<1>6. Total(O2, H) + O[p] = Total(O, H) + O2[p]
    BY <1>2, <1>3, <1>4, SumChangesAt
<1>. QED BY <1>1, <1>5, <1>6 DEF PromisedSum, OwedSum

LEMMA HolderComes ==
    ASSUME AdmTypeOK, AdmTypeOK', NEW p, p \notin Holding, Holding' = Holding \cup {p},
           \A q \in Holding : Kept(q)
    PROVE  /\ PromisedSum' = PromisedSum + Promised'[p]
           /\ OwedSum' = OwedSum + Owed'[p]
<1>1. PICK H, P, O, H2, P2, O2 : /\ H = Holding /\ P = Promised /\ O = Owed
                                 /\ H2 = Holding' /\ P2 = Promised' /\ O2 = Owed'
    OBVIOUS
<1>2. \A q \in H : P2[q] = P[q] /\ O2[q] = O[q]
    BY <1>1, KeptIsKept
<1>3. Total(P2, H) = Total(P, H) /\ Total(O2, H) = Total(O, H)
    BY <1>2, SumSame
<1>4. IsFiniteSet(H2) /\ \A q \in H2 : P2[q] \in Nat /\ O2[q] \in Nat
    BY <1>1, TotalsBefore DEF Numbered
<1>5. p \in H2 /\ H2 \ {p} = H
    BY <1>1
<1>6. /\ Total(P2, H2) = Total(P2, H2 \ {p}) + P2[p]
      /\ Total(O2, H2) = Total(O2, H2 \ {p}) + O2[p]
    BY <1>4, <1>5, SumSplits
<1>7. Total(P2, H2) = Total(P, H) + P2[p] /\ Total(O2, H2) = Total(O, H) + O2[p]
    BY <1>3, <1>5, <1>6
<1>. QED BY <1>1, <1>7 DEF PromisedSum, OwedSum

-----------------------------------------------------------------------------
(* What was released and what was opened since the host was seen           *)

Since(h, t) == Total([i \in DOMAIN h |-> h[i].actual], {i \in DOMAIN h : h[i].closed >= t})
Written == [id : Id, actual : Nat, closed : Nat]

LEMMA SinceIs ==
    ASSUME NEW h \in Seq(Written), NEW t \in Int
    PROVE  Since(h, t) \in Nat
<1>1. Len(h) \in Nat /\ DOMAIN h = 1..Len(h) /\ \A i \in 1..Len(h) : h[i] \in Written
    BY LenProperties, ElementOfSeq
<1>2. PICK f, S : /\ f = [i \in DOMAIN h |-> h[i].actual]
                  /\ S = {i \in DOMAIN h : h[i].closed >= t}
    OBVIOUS
<1>3. IsFiniteSet(1..Len(h))
    BY <1>1, NumbersUpTo
<1>4. S \subseteq 1..Len(h)
    BY <1>1, <1>2
<1>5. IsFiniteSet(S)
    BY <1>3, <1>4, FS_Subset
<1>6. \A i \in S : f[i] \in Nat
    BY <1>1, <1>2, <1>4 DEF Written
<1>7. Total(f, S) \in Nat
    BY <1>5, <1>6, SumFinite
<1>. QED BY <1>2, <1>7 DEF Since

LEMMA SinceGrows ==
    ASSUME NEW h \in Seq(Written), NEW t \in Int, NEW e \in Written, e.closed >= t
    PROVE  Since(Append(h, e), t) = Since(h, t) + e.actual
<1>1. Len(h) \in Nat /\ DOMAIN h = 1..Len(h) /\ \A i \in 1..Len(h) : h[i] \in Written
    BY LenProperties, ElementOfSeq
<1>2. PICK g, n : g = Append(h, e) /\ n = Len(h) + 1
    OBVIOUS
<1>3. /\ n \in Nat /\ DOMAIN g = 1..n /\ g[n] = e
      /\ \A i \in 1..n - 1 : g[i] = h[i] /\ h[i] \in Written
  <2>1. Append(h, e) \in Seq(Written) /\ Len(Append(h, e)) = Len(h) + 1
      BY AppendProperties
  <2>2. \A i \in 1..Len(h) : Append(h, e)[i] = h[i]
      BY AppendProperties
  <2>3. Append(h, e)[Len(h) + 1] = e
      BY AppendProperties
  <2>4. DOMAIN g = 1..n /\ n \in Nat /\ Len(h) = n - 1
      BY <1>1, <1>2, <2>1, LenProperties
  <2>. QED BY <1>1, <1>2, <2>2, <2>3, <2>4
<1>4. PICK f, S, f2, S2 : /\ f = [i \in DOMAIN h |-> h[i].actual]
                          /\ S = {i \in DOMAIN h : h[i].closed >= t}
                          /\ f2 = [i \in DOMAIN g |-> g[i].actual]
                          /\ S2 = {i \in DOMAIN g : g[i].closed >= t}
    OBVIOUS
<1>5. DOMAIN h = 1..n - 1
    BY <1>1, <1>2
<1>6. n \in S2 /\ S2 \ {n} = S
  <2>1. \A i \in 1..n : i = n \/ i \in 1..n - 1
      BY <1>3
  <2>2. n \in 1..n /\ n \notin 1..n - 1 /\ \A i \in 1..n - 1 : i \in 1..n
      BY <1>1, <1>2
  <2>. QED BY <1>3, <1>4, <1>5, <2>1, <2>2
<1>7. \A i \in S : f2[i] = f[i] /\ f[i] \in Nat
    BY <1>3, <1>4, <1>5, <1>6 DEF Written
<1>8. f2[n] = e.actual /\ e.actual \in Nat
    BY <1>3, <1>4, <1>6 DEF Written
<1>9. IsFiniteSet(S2)
  <2>1. IsFiniteSet(1..n)
      BY <1>3, NumbersUpTo
  <2>2. S2 \subseteq 1..n
      BY <1>3, <1>4
  <2>. QED BY <2>1, <2>2, FS_Subset
<1>10. \A i \in S2 : f2[i] \in Nat
    BY <1>6, <1>7, <1>8
<1>11. Total(f2, S2) = Total(f2, S2 \ {n}) + f2[n]
    BY <1>6, <1>9, <1>10, SumSplits
<1>12. Total(f2, S) = Total(f, S)
    BY <1>7, SumSame
<1>. QED BY <1>2, <1>4, <1>6, <1>8, <1>11, <1>12 DEF Since

LEMMA FlowsAre ==
    ASSUME AdmTypeOK
    PROVE  /\ ReleasedSince = Since(history, reading.at) /\ ReleasedSince \in Nat
           /\ OpenedSince \in Nat /\ reading.at \in Int /\ reading.free \in Nat
<1>1. history \in Seq(Written) /\ reading.at \in Int /\ reading.free \in Nat
    BY DEF AdmTypeOK, Written, Unknown
<1>2. ReleasedSince = Since(history, reading.at)
    BY DEF ReleasedSince, Since
<1>3. Since(history, reading.at) \in Nat
    BY <1>1, SinceIs
<1>4. OpenedSince \in Nat
  <2>1. PICK S : S = {r \in Readable("open") \cup Readable("stale") \cup Readable("closed") :
                        file[r].opened >= reading.at}
      OBVIOUS
  <2>2. S \in SUBSET Id
      BY <2>1 DEF Readable
  <2>3. Total(Estimates, S) \in Nat
      BY <2>2, HeldTotals DEF Totalled
  <2>. QED BY <2>1, <2>3 DEF OpenedSince
<1>. QED BY <1>1, <1>2, <1>3, <1>4

-----------------------------------------------------------------------------
(* The types of the ledger                                                 *)

LEMMA FileFields ==
    ASSUME NEW f \in ReservationRecord
    PROVE  /\ \A a \in {"none", "open", "stale", "closed"} :
                [f EXCEPT !.at = a] \in ReservationRecord /\ [f EXCEPT !.at = a].at = a
                /\ [f EXCEPT !.at = a].est = f.est
           /\ [f EXCEPT !.ok = FALSE] \in ReservationRecord
           /\ [f EXCEPT !.ok = FALSE].at = f.at /\ [f EXCEPT !.ok = FALSE].est = f.est
           /\ [f EXCEPT !.ok = FALSE].pid = f.pid /\ [f EXCEPT !.ok = FALSE].ns = f.ns
           /\ [f EXCEPT !.ok = FALSE].boot = f.boot /\ [f EXCEPT !.ok = FALSE].start = f.start
BY DEF ReservationRecord

\* A scan renames what is stale and leaves everything else in it as it was (_scan).
LEMMA ScanIs ==
    ASSUME AdmTypeOK, NEW n
    PROVE  /\ Scanned(n) \in [Id -> ReservationRecord]
           /\ \A r \in Id : /\ Scanned(n)[r].est = file[r].est
                            /\ Scanned(n)[r].at = "closed" => file[r].at = "closed"
                            /\ r \notin StaleNow(n) => Scanned(n)[r] = file[r]
<1>1. file \in [Id -> ReservationRecord]
    BY DEF AdmTypeOK
<1>2. ASSUME NEW r \in Id
      PROVE  /\ Scanned(n)[r] \in ReservationRecord
             /\ Scanned(n)[r].est = file[r].est
             /\ Scanned(n)[r].at = "closed" => file[r].at = "closed"
             /\ r \notin StaleNow(n) => Scanned(n)[r] = file[r]
  <2>1. file[r] \in ReservationRecord
      BY <1>1
  <2>2. Scanned(n)[r] = IF r \in StaleNow(n) THEN [file[r] EXCEPT !.at = "stale"] ELSE file[r]
      BY DEF Scanned
  <2>3. CASE r \in StaleNow(n)
    <3>1. Scanned(n)[r] = [file[r] EXCEPT !.at = "stale"]
        BY <2>2, <2>3
    <3>2. /\ [file[r] EXCEPT !.at = "stale"] \in ReservationRecord
          /\ [file[r] EXCEPT !.at = "stale"].at = "stale"
          /\ [file[r] EXCEPT !.at = "stale"].est = file[r].est
        BY <2>1, FileFields
    <3>. QED BY <2>3, <3>1, <3>2
  <2>4. CASE r \notin StaleNow(n)
      BY <2>1, <2>2, <2>4
  <2>. QED BY <2>3, <2>4
<1>3. Scanned(n) = [r \in Id |-> Scanned(n)[r]]
    BY DEF Scanned
<1>. QED BY <1>2, <1>3

LEMMA UpdateIs ==
    ASSUME NEW prev \in -1..3, NEW free, NEW unknown \in BOOLEAN
    PROVE  Update(prev, free, unknown) \in -1..3
<1>1. \A a, b \in -1..3 : Worse(a, b) \in -1..3
    BY DEF Worse
<1>2. \A f : ByteAxis(f) \in -1..3
    BY DEF ByteAxis, NORMAL, OPTIMIZE, PRESSURE, CRITICAL
<1>3. \A k, f : InodeAxis(k, f) \in -1..3
    BY DEF InodeAxis, NORMAL, OPTIMIZE, PRESSURE, CRITICAL
<1>4. \A a, k, f : Classify(a, k, f) \in -1..3
    BY <1>1, <1>2, <1>3 DEF Classify
<1>. DEFINE raw == Classify(free, inodes, InodeFloor)
            floor == InodeFloor + (IF prev = CRITICAL THEN InodeHysteresis ELSE 0)
            cleared == Classify(free - Hysteresis, inodes - InodeSlack, floor)
            state == CASE raw >= prev -> raw
                       [] raw < prev /\ cleared < prev -> cleared
                       [] OTHER -> prev
<1>5. raw \in -1..3 /\ cleared \in -1..3
    BY <1>4
<1>6. Update(prev, free, unknown) = IF unknown THEN Worse(state, PRESSURE) ELSE state
    BY DEF Update
<1>. HIDE DEF raw, cleared
<1>7. state \in -1..3
    BY <1>5
<1>8. PRESSURE \in -1..3
    BY DEF PRESSURE
<1>. HIDE DEF state
<1>. QED BY <1>1, <1>6, <1>7, <1>8

LEMMA AssessIs ==
    ASSUME AdmTypeOK, Assess
    PROVE  press' \in -1..3 /\ reading' \in [free : Nat, at : Nat \cup {Unknown}]
<1>1. press \in -1..3 /\ hostSeen \in BOOLEAN /\ host \in Nat /\ clock \in Nat
      /\ reading \in [free : Nat, at : Nat \cup {Unknown}]
    BY DEF AdmTypeOK
<1>2. press' \in -1..3
  <2>1. press' = Update(press, Seen, ~hostSeen)
      BY DEF Assess
  <2>2. (~hostSeen) \in BOOLEAN
      OBVIOUS
  <2>. QED BY <1>1, <2>1, <2>2, UpdateIs
<1>3. reading' = IF hostSeen THEN [free |-> host, at |-> clock] ELSE reading
    BY DEF Assess
<1>. QED BY <1>1, <1>2, <1>3

\* What the controllers may become.
LEMMA ControllersAre ==
    ASSUME NEW c \in ControllerRecord
    PROVE  /\ [c EXCEPT !.wrote = @ + 1] \in ControllerRecord
           /\ \A r \in Id : [[[c EXCEPT !.hold = r] EXCEPT !.wrote = 0] EXCEPT !.child = TRUE]
                               \in ControllerRecord
           /\ [[[c EXCEPT !.hold = 0] EXCEPT !.wrote = 0] EXCEPT !.child = FALSE]
                  \in ControllerRecord
           /\ [c EXCEPT !.child = FALSE] \in ControllerRecord
           /\ Down \in ControllerRecord /\ [Down EXCEPT !.child = c.child] \in ControllerRecord
<1>1. \A r \in Id \cup {0}, b \in BOOLEAN :
         [up |-> c.up, pid |-> c.pid, start |-> c.start, ns |-> c.ns, hold |-> r,
          wrote |-> 0, child |-> b] \in ControllerRecord
    BY DEF ControllerRecord
<1>2. \A r \in Id : [[[c EXCEPT !.hold = r] EXCEPT !.wrote = 0] EXCEPT !.child = TRUE]
                        \in ControllerRecord
    BY DEF ControllerRecord
<1>3. [[[c EXCEPT !.hold = 0] EXCEPT !.wrote = 0] EXCEPT !.child = FALSE] \in ControllerRecord
    BY DEF ControllerRecord
<1>4. [c EXCEPT !.wrote = @ + 1] \in ControllerRecord
  <2>1. c.wrote + 1 \in Nat
      BY DEF ControllerRecord
  <2>. QED BY <2>1 DEF ControllerRecord
<1>7. [c EXCEPT !.child = FALSE] \in ControllerRecord
    BY DEF ControllerRecord
<1>5. Down \in ControllerRecord
    BY DEF ControllerRecord, Down
<1>6. [Down EXCEPT !.child = c.child] \in ControllerRecord
  <2>1. c.child \in BOOLEAN
      BY DEF ControllerRecord
  <2>. QED BY <1>5, <2>1 DEF ControllerRecord
<1>. QED BY <1>2, <1>3, <1>4, <1>5, <1>6, <1>7

LEMMA StartTypes ==
    ASSUME AdmTypeOK, NEW p \in Process, NEW i \in Pid, NEW n \in Namespace, Start(p, i, n)
    PROVE  AdmTypeOK'
<1>1. clock \in Nat /\ boot \in Nat /\ proc \in [Process -> ControllerRecord]
      /\ record \in [boot : Nat, ns : Namespace \cup {"none"}, claimed : BOOLEAN]
    BY DEF AdmTypeOK
<1>2. record' \in [boot : Nat, ns : Namespace \cup {"none"}, claimed : BOOLEAN]
    BY <1>1 DEF Start
<1>3. proc' \in [Process -> ControllerRecord]
  <2>1. PICK c : c = [Down EXCEPT !.up = TRUE, !.pid = i, !.ns = n, !.start = clock + 1,
                                  !.wrote = 0]
      OBVIOUS
  <2>2. c = [up |-> TRUE, pid |-> i, start |-> clock + 1, ns |-> n, hold |-> 0, wrote |-> 0,
             child |-> FALSE]
      BY <2>1 DEF Down
  <2>3. c \in ControllerRecord
      BY <1>1, <2>2 DEF ControllerRecord
  <2>4. proc' = [proc EXCEPT ![p] = c]
      BY <2>1 DEF Start
  <2>. QED BY <1>1, <2>3, <2>4
<1>4. clock' \in Nat
    BY <1>1 DEF Start
<1>. QED BY <1>2, <1>3, <1>4 DEF AdmTypeOK, Start

LEMMA LookTypes ==
    ASSUME AdmTypeOK, NEW p \in Process, NEW rename \in BOOLEAN, Look(p, rename)
    PROVE  AdmTypeOK'
<1>1. press' \in -1..3 /\ reading' \in [free : Nat, at : Nat \cup {Unknown}]
    BY AssessIs DEF Look
<1>2. file' \in [Id -> ReservationRecord]
  <2>1. file \in [Id -> ReservationRecord]
      BY DEF AdmTypeOK
  <2>2. Scanned(proc[p].ns) \in [Id -> ReservationRecord]
      BY ScanIs
  <2>. QED BY <2>1, <2>2 DEF Look
<1>. QED BY <1>1, <1>2 DEF AdmTypeOK, Look

\* The file a reservation is written to.
FileOf(p, est, readable) ==
    [at |-> "open", pid |-> proc[p].pid,
     start |-> IF readable THEN proc[p].start ELSE Unreadable,
     ns |-> proc[p].ns, boot |-> boot, est |-> est, opened |-> clock, ok |-> TRUE]

LEMMA AdmitIs ==
    ASSUME AdmTypeOK, NEW p \in Process, NEW r \in Id, NEW asked \in Asked,
           NEW readable \in BOOLEAN, Admit(p, r, asked, readable)
    PROVE  /\ Estimate(asked) \in Nat /\ Admits(p, Estimate(asked))
           /\ FileOf(p, Estimate(asked), readable) \in ReservationRecord
           /\ file' = [Scanned(proc[p].ns) EXCEPT ![r] = FileOf(p, Estimate(asked), readable)]
           /\ file'[r] = FileOf(p, Estimate(asked), readable)
           /\ \A s \in Id \ {r} : file'[s] = Scanned(proc[p].ns)[s]
<1>1. Estimate(asked) \in Nat
    BY EstimateIs
<1>2. PICK e : e = Estimate(asked)
    OBVIOUS
<1>3. /\ Admits(p, e)
      /\ file' = [Scanned(proc[p].ns) EXCEPT ![r] = FileOf(p, e, readable)]
    BY <1>2 DEF Admit, FileOf
<1>4. FileOf(p, e, readable) \in ReservationRecord
  <2>1. proc[p] \in ControllerRecord /\ boot \in Nat /\ clock \in Nat
      BY DEF AdmTypeOK
  <2>2. proc[p].pid \in Pid \cup {0} /\ proc[p].start \in Nat
        /\ proc[p].ns \in Namespace \cup {"none"}
      BY <2>1 DEF ControllerRecord
  <2>3. e \in Nat
      BY <1>1, <1>2
  <2>. QED BY <2>1, <2>2, <2>3 DEF FileOf, ReservationRecord
<1>5. Scanned(proc[p].ns) \in [Id -> ReservationRecord]
    BY ScanIs
<1>6. PICK w, s : w = FileOf(p, e, readable) /\ s = Scanned(proc[p].ns)
    OBVIOUS
<1>7. file' = [s EXCEPT ![r] = w] /\ s \in [Id -> ReservationRecord]
    BY <1>3, <1>5, <1>6
<1>8. file'[r] = w /\ \A t \in Id \ {r} : file'[t] = s[t]
    BY <1>7
<1>. QED BY <1>1, <1>2, <1>3, <1>4, <1>6, <1>8

LEMMA AdmitTypes ==
    ASSUME AdmTypeOK, NEW p \in Process, NEW r \in Id, NEW asked \in Asked,
           NEW readable \in BOOLEAN, Admit(p, r, asked, readable)
    PROVE  AdmTypeOK'
<1>1. press' \in -1..3 /\ reading' \in [free : Nat, at : Nat \cup {Unknown}]
    BY AssessIs DEF Admit
<1>2. file' \in [Id -> ReservationRecord]
    BY AdmitIs, ScanIs
<1>3. proc' \in [Process -> ControllerRecord]
  <2>1. proc \in [Process -> ControllerRecord]
      BY DEF AdmTypeOK
  <2>2. PICK c : c = [[[proc[p] EXCEPT !.hold = r] EXCEPT !.wrote = 0] EXCEPT !.child = TRUE]
      OBVIOUS
  <2>3. c \in ControllerRecord
      BY <2>1, <2>2, ControllersAre
  <2>4. proc' = [proc EXCEPT ![p] = c]
      BY <2>1, <2>2 DEF Admit, ControllerRecord
  <2>. QED BY <2>1, <2>3, <2>4
<1>4. unpromised' \in Nat
    BY DEF Admit, AdmTypeOK
<1>. QED BY <1>1, <1>2, <1>3, <1>4 DEF AdmTypeOK, Admit

LEMMA WriteTypes ==
    ASSUME AdmTypeOK, NEW p \in Process, Write(p)
    PROVE  AdmTypeOK'
<1>1. host' \in Nat /\ guest' \in Nat /\ unpromised' \in Nat
    BY DEF AdmTypeOK, Write
<1>2. proc' \in [Process -> ControllerRecord]
  <2>1. proc \in [Process -> ControllerRecord]
      BY DEF AdmTypeOK
  <2>2. PICK c : c = [proc[p] EXCEPT !.wrote = @ + 1]
      OBVIOUS
  <2>3. c \in ControllerRecord
      BY <2>1, <2>2, ControllersAre
  <2>4. proc' = [proc EXCEPT ![p] = c]
      BY <2>1, <2>2 DEF Write, ControllerRecord
  <2>. QED BY <2>1, <2>3, <2>4
<1>. QED BY <1>1, <1>2 DEF AdmTypeOK, Write, ledger

LEMMA WrittenIs ==
    ASSUME AdmTypeOK, NEW p \in Process, proc[p].hold # 0
    PROVE  /\ proc[p].hold \in Id /\ proc[p].wrote \in Nat /\ history \in Seq(Written)
           /\ [id |-> proc[p].hold, actual |-> proc[p].wrote, closed |-> clock] \in Written
<1>1. proc[p] \in ControllerRecord /\ clock \in Nat /\ history \in Seq(Written)
    BY DEF AdmTypeOK, Written
<1>2. proc[p].hold \in Id /\ proc[p].wrote \in Nat
    BY <1>1 DEF ControllerRecord
<1>. QED BY <1>1, <1>2 DEF Written

\* What a release may write: the record and the new name, the record alone, or nothing.
LEMMA ReleaseIs ==
    ASSUME AdmTypeOK, NEW p \in Process,
           NEW outcome \in {"unwritten", "unrenamed", "closed"}, Release(p, outcome)
    PROVE  /\ file' \in [Id -> ReservationRecord] /\ history' \in Seq(Written)
           /\ \A s \in Id : file'[s].est = file[s].est
           /\ \A s \in Id \ {proc[p].hold} : file'[s] = file[s]
           /\ \/ history' = history /\ \A s \in Id : file'[s] = file[s]
              \/ history' = Append(history, [id |-> proc[p].hold, actual |-> proc[p].wrote,
                                             closed |-> clock])
<1>. DEFINE r == proc[p].hold
            e == [id |-> r, actual |-> proc[p].wrote, closed |-> clock]
<1>1. r \in Id /\ history \in Seq(Written) /\ e \in Written
  <2>1. proc[p].hold # 0
      BY DEF Release
  <2>. QED BY <2>1, WrittenIs
<1>2. file \in [Id -> ReservationRecord]
    BY DEF AdmTypeOK
<1>3. Append(history, e) \in Seq(Written)
    BY <1>1, AppendProperties
<1>4. \/ history' = history /\ file' = file
      \/ history' = Append(history, e) /\ file' = file
      \/ history' = Append(history, e) /\ file' = [file EXCEPT ![r].at = "closed"]
    BY DEF Release, ReleaseWrites
<1>5. PICK g, c : g = [file EXCEPT ![r].at = "closed"] /\ c = [file[r] EXCEPT !.at = "closed"]
    OBVIOUS
<1>6. g = [file EXCEPT ![r] = c]
    BY <1>5
<1>7. c \in ReservationRecord /\ c.est = file[r].est
    BY <1>1, <1>2, <1>5, FileFields
<1>8. /\ g \in [Id -> ReservationRecord] /\ \A s \in Id \ {r} : g[s] = file[s]
      /\ \A s \in Id : g[s].est = file[s].est
    BY <1>1, <1>2, <1>6, <1>7
<1>9. /\ (file' = file \/ file' = g)
      /\ ((history' = history /\ file' = file) \/ history' = Append(history, e))
    BY <1>4, <1>5
<1>. HIDE DEF r, e
<1>10. /\ file' \in [Id -> ReservationRecord] /\ \A s \in Id \ {r} : file'[s] = file[s]
       /\ \A s \in Id : file'[s].est = file[s].est
    BY <1>2, <1>8, <1>9
<1>11. history' \in Seq(Written)
    BY <1>1, <1>3, <1>9
<1>. QED BY <1>9, <1>10, <1>11 DEF r, e

LEMMA ReleaseTypes ==
    ASSUME AdmTypeOK, NEW p \in Process,
           NEW outcome \in {"unwritten", "unrenamed", "closed"}, Release(p, outcome)
    PROVE  AdmTypeOK'
<1>1. file' \in [Id -> ReservationRecord] /\ history' \in Seq(Written)
    BY ReleaseIs
<1>2. proc' \in [Process -> ControllerRecord]
  <2>1. proc \in [Process -> ControllerRecord]
      BY DEF AdmTypeOK
  <2>2. PICK c : c = [[[proc[p] EXCEPT !.hold = 0] EXCEPT !.wrote = 0] EXCEPT !.child = FALSE]
      OBVIOUS
  <2>3. c \in ControllerRecord
      BY <2>1, <2>2, ControllersAre
  <2>4. proc' = [proc EXCEPT ![p] = c]
      BY <2>1, <2>2 DEF Release, ControllerRecord
  <2>. QED BY <2>1, <2>3, <2>4
<1>3. unpromised' \in Nat /\ happened' \in Nat
  <2>1. proc[p].wrote \in Nat /\ unpromised \in Nat /\ happened \in Nat
      BY DEF AdmTypeOK, ControllerRecord
  <2>2. unpromised' = unpromised + IF outcome = "unwritten" THEN proc[p].wrote ELSE 0
      BY DEF Release
  <2>3. happened' = happened \/ happened' = happened + 1
      BY DEF Release, Happens
  <2>. QED BY <2>1, <2>2, <2>3
<1>. QED BY <1>1, <1>2, <1>3 DEF AdmTypeOK, Release, Written

LEMMA KilledTypes ==
    ASSUME AdmTypeOK, NEW p \in Process, Killed(p)
    PROVE  AdmTypeOK'
<1>1. proc \in [Process -> ControllerRecord] /\ unpromised \in Nat /\ happened \in Nat
    BY DEF AdmTypeOK
<1>2. proc' \in [Process -> ControllerRecord]
  <2>1. PICK c : c = [Down EXCEPT !.child = proc[p].child]
      OBVIOUS
  <2>2. c \in ControllerRecord
      BY <1>1, <2>1, ControllersAre
  <2>3. proc' = [proc EXCEPT ![p] = c]
      BY <2>1 DEF Killed
  <2>. QED BY <1>1, <2>2, <2>3
<1>3. unpromised' \in Nat /\ happened' \in Nat
  <2>1. proc[p].wrote \in Nat
      BY <1>1 DEF ControllerRecord
  <2>. QED BY <1>1, <2>1 DEF Killed, Happens
<1>. QED BY <1>2, <1>3 DEF AdmTypeOK, Killed, ledger

LEMMA OrphanTypes ==
    ASSUME AdmTypeOK, NEW p \in Process, OrphanWrites(p)
    PROVE  AdmTypeOK'
<1>1. proc \in [Process -> ControllerRecord] /\ unpromised \in Nat
    BY DEF AdmTypeOK
<1>2. proc' \in [Process -> ControllerRecord]
  <2>1. PICK c : c = [proc[p] EXCEPT !.child = FALSE]
      OBVIOUS
  <2>2. c \in ControllerRecord
      BY <1>1, <2>1, ControllersAre
  <2>3. proc' = [proc EXCEPT ![p] = c]
      BY <1>1, <2>1 DEF OrphanWrites
  <2>. QED BY <1>1, <2>2, <2>3
<1>3. unpromised' \in Nat /\ host' \in Nat /\ guest' \in Nat
    BY <1>1 DEF OrphanWrites, AdmTypeOK
<1>. QED BY <1>2, <1>3 DEF AdmTypeOK, OrphanWrites, ledger

\* What every controller of the machine wrote for the operation it has in hand.
WroteSum == Total([p \in Process |-> proc[p].wrote], Process)

LEMMA WroteIs == AdmTypeOK => WroteSum \in Nat
<1>. SUFFICES ASSUME AdmTypeOK PROVE WroteSum \in Nat
    OBVIOUS
<1>1. PICK w : w = [p \in Process |-> proc[p].wrote]
    OBVIOUS
<1>2. \A p \in Process : w[p] \in Nat
    BY <1>1 DEF AdmTypeOK, ControllerRecord
<1>3. Total(w, Process) \in Nat
    BY <1>2, FiguresAre, SumFinite
<1>. QED BY <1>1, <1>3 DEF WroteSum

LEMMA RebootTypes ==
    ASSUME AdmTypeOK, Reboot
    PROVE  AdmTypeOK'
<1>1. unpromised \in Nat /\ boot \in Nat /\ happened \in Nat
    BY DEF AdmTypeOK
<1>2. unpromised' \in Nat
  <2>1. unpromised' = unpromised + WroteSum
      BY DEF Reboot, WroteSum
  <2>. QED BY <1>1, <2>1, WroteIs
<1>3. boot' \in Nat /\ happened' \in Nat
    BY <1>1 DEF Reboot, Happens
<1>4. proc' \in [Process -> ControllerRecord]
  <2>1. Down \in ControllerRecord
      BY DEF ControllerRecord, Down
  <2>2. proc' = [p \in Process |-> Down]
      BY DEF Reboot
  <2>. QED BY <2>1, <2>2
<1>. QED BY <1>2, <1>3, <1>4 DEF AdmTypeOK, Reboot, ledger

LEMMA OtherTypes ==
    ASSUME AdmTypeOK,
           \/ \E d \in {-1, 1} : Foreign(d)
           \/ \E n \in {0, Inodes} : ForeignInodes(n)
           \/ \E r \in Id : Damage(r)
           \/ HostSight
           \/ AdmTick
    PROVE  AdmTypeOK'
<1>1. ASSUME NEW d \in {-1, 1}, Foreign(d) PROVE AdmTypeOK'
    BY <1>1 DEF AdmTypeOK, Foreign, Happens, ledger
<1>2. ASSUME NEW n \in {0, Inodes}, ForeignInodes(n) PROVE AdmTypeOK'
    BY <1>2, FiguresAre DEF AdmTypeOK, ForeignInodes, Happens, ledger
<1>3. ASSUME NEW r \in Id, Damage(r) PROVE AdmTypeOK'
  <2>1. file' \in [Id -> ReservationRecord]
    <3>1. file \in [Id -> ReservationRecord]
        BY DEF AdmTypeOK
    <3>2. PICK c : c = [file[r] EXCEPT !.ok = FALSE]
        OBVIOUS
    <3>3. c \in ReservationRecord
        BY <3>1, <3>2, FileFields
    <3>4. file' = [file EXCEPT ![r] = c]
        BY <1>3, <3>2 DEF Damage
    <3>. QED BY <3>1, <3>3, <3>4
  <2>2. happened' \in Nat
      BY <1>3 DEF AdmTypeOK, Damage, Happens
  <2>. QED BY <1>3, <2>1, <2>2 DEF AdmTypeOK, Damage
<1>4. CASE HostSight
  <2>1. hostSeen' \in BOOLEAN
      BY <1>4, Zenon DEF HostSight
  <2>2. happened' \in Nat
      BY <1>4 DEF AdmTypeOK, HostSight, Happens
  <2>. QED BY <1>4, <2>1, <2>2 DEF AdmTypeOK, HostSight, ledger
<1>5. CASE AdmTick
    BY <1>5 DEF AdmTypeOK, AdmTick, ledger
<1>. QED BY <1>1, <1>2, <1>3, <1>4, <1>5

LEMMA AdmTypesKept ==
    ASSUME AdmTypeOK, [AdmNext]_admVars
    PROVE  AdmTypeOK'
<1>1. CASE AdmNext
    BY <1>1, StartTypes, LookTypes, AdmitTypes, WriteTypes, ReleaseTypes, KilledTypes,
       OrphanTypes, RebootTypes, OtherTypes DEF AdmNext
<1>2. CASE UNCHANGED admVars
    BY <1>2 DEF AdmTypeOK, admVars
<1>. QED BY <1>1, <1>2

-----------------------------------------------------------------------------
(* Who lives, and in whose name                                            *)

LEMMA HoldingIs ==
    ASSUME HoldersLive
    PROVE  \A p \in Process : p \in Holding <=> proc[p].hold # 0
BY DEF HoldersLive, Holding

LEMMA HoldsAreDistinct ==
    ASSUME OneLives, HoldersLive, NEW p \in Holding, NEW q \in Holding,
           proc[p].hold = proc[q].hold
    PROVE  p = q
<1>1. p \in Process /\ q \in Process /\ proc[p].up /\ proc[q].up
      /\ proc[p].hold # 0 /\ proc[q].hold # 0
    BY DEF Holding
<1>2. InItsName(p) /\ InItsName(q)
    BY <1>1 DEF HoldersLive
<1>3. proc[p].ns = proc[q].ns /\ proc[p].pid = proc[q].pid
    BY <1>2 DEF InItsName
<1>. QED BY <1>1, <1>3 DEF OneLives

\* The reservation of a live controller is stale for nobody (_is_stale): its pid is alive, and
\* nobody else's.
LEMMA HeldIsNotStale ==
    ASSUME OneLives, HoldersLive, NEW p \in Holding, NEW n
    PROVE  ~IsStale(file[proc[p].hold], n) /\ proc[p].hold \notin StaleNow(n)
<1>1. p \in Process /\ proc[p].up /\ proc[p].hold # 0
    BY DEF Holding
<1>2. PICK f : f = file[proc[p].hold]
    OBVIOUS
<1>3. /\ f.boot = boot /\ f.pid = proc[p].pid /\ f.ns = proc[p].ns
      /\ f.start \in {proc[p].start, Unreadable}
    BY <1>1, <1>2 DEF HoldersLive, InItsName
<1>4. Alive(f.ns, f.pid)
    BY <1>1, <1>3 DEF Alive
<1>5. ASSUME NEW q \in Process, proc[q].up, proc[q].ns = f.ns, proc[q].pid = f.pid,
             f.start # Unreadable
      PROVE  proc[q].start = f.start
  <2>1. q = p
      BY <1>1, <1>3, <1>5 DEF OneLives
  <2>. QED BY <1>3, <1>5, <2>1
<1>6. ~IsStale(f, n)
    BY <1>3, <1>4, <1>5 DEF IsStale
<1>. QED BY <1>2, <1>6 DEF StaleNow

\* A controller that is neither started nor given anything.
Stays(q) ==
    /\ proc'[q].up => /\ proc[q].up /\ proc'[q].ns = proc[q].ns /\ proc'[q].pid = proc[q].pid
                      /\ proc'[q].start = proc[q].start
    /\ proc'[q].hold # 0 => /\ proc'[q].hold = proc[q].hold /\ proc'[q].up /\ boot' = boot
                            /\ file'[proc[q].hold].at = file[proc[q].hold].at
                            /\ file'[proc[q].hold].boot = file[proc[q].hold].boot
                            /\ file'[proc[q].hold].pid = file[proc[q].hold].pid
                            /\ file'[proc[q].hold].ns = file[proc[q].hold].ns
                            /\ file'[proc[q].hold].start = file[proc[q].hold].start

LEMMA WhoStays ==
    ASSUME OneLives, HoldersLive, \A q \in Process : Stays(q)
    PROVE  OneLives' /\ HoldersLive'
<1>1. OneLives'
  <2>. SUFFICES ASSUME NEW p \in Process, NEW q \in Process, proc'[p].up, proc'[q].up,
                       proc'[p].ns = proc'[q].ns, proc'[p].pid = proc'[q].pid
                PROVE  p = q
      BY DEF OneLives
  <2>1. proc[p].up /\ proc[q].up /\ proc[p].ns = proc[q].ns /\ proc[p].pid = proc[q].pid
      BY DEF Stays
  <2>. QED BY <2>1 DEF OneLives
<1>2. ASSUME NEW p \in Process, proc'[p].hold # 0 PROVE proc'[p].up /\ InItsName(p)'
  <2>1. proc[p].hold # 0 /\ proc'[p].up /\ Stays(p)
      BY <1>2 DEF Stays
  <2>2. InItsName(p)
      BY <2>1 DEF HoldersLive
  <2>. QED BY <1>2, <2>1, <2>2 DEF Stays, InItsName
<1>. QED BY <1>1, <1>2 DEF HoldersLive

\* One controller changes.
LEMMA OnlyOne ==
    ASSUME AdmTypeOK, NEW p \in Process, NEW c, proc' = [proc EXCEPT ![p] = c]
    PROVE  proc'[p] = c /\ \A q \in Process \ {p} : proc'[q] = proc[q]
BY DEF AdmTypeOK

LEMMA StartWho ==
    ASSUME AdmTypeOK, OneLives, HoldersLive,
           NEW p \in Process, NEW i \in Pid, NEW n \in Namespace, Start(p, i, n)
    PROVE  /\ OneLives' /\ HoldersLive' /\ Holding' = Holding
           /\ \A q \in Holding : proc'[q] = proc[q]
<1>1. PICK c : c = [Down EXCEPT !.up = TRUE, !.pid = i, !.ns = n, !.start = clock + 1,
                                !.wrote = 0]
    OBVIOUS
<1>2. c.pid = i /\ c.ns = n /\ c.hold = 0
    BY <1>1 DEF Down
<1>3. proc' = [proc EXCEPT ![p] = c] /\ ~proc[p].up /\ ~Alive(n, i)
    BY <1>1 DEF Start
<1>4. proc'[p] = c /\ \A q \in Process \ {p} : proc'[q] = proc[q]
    BY <1>3, OnlyOne
<1>5. boot' = boot /\ file' = file
    BY DEF Start
<1>6. \A q \in Process \ {p} : proc[q].up => ~(proc[q].ns = n /\ proc[q].pid = i)
    BY <1>3 DEF Alive
<1>7. OneLives'
  <2>. SUFFICES ASSUME NEW a \in Process, NEW b \in Process, proc'[a].up, proc'[b].up,
                       proc'[a].ns = proc'[b].ns, proc'[a].pid = proc'[b].pid
                PROVE  a = b
      BY DEF OneLives
  <2>. QED BY <1>2, <1>4, <1>6 DEF OneLives
<1>8. HoldersLive'
  <2>. SUFFICES ASSUME NEW q \in Process, proc'[q].hold # 0 PROVE proc'[q].up /\ InItsName(q)'
      BY DEF HoldersLive
  <2>1. q # p /\ proc'[q] = proc[q]
      BY <1>2, <1>4
  <2>2. proc[q].up /\ InItsName(q)
      BY <2>1 DEF HoldersLive
  <2>. QED BY <1>5, <2>1, <2>2 DEF InItsName
<1>9. p \notin Holding /\ p \notin Holding'
    BY <1>2, <1>3, <1>4 DEF Holding
<1>10. Holding' = Holding
    BY <1>4, <1>9 DEF Holding
<1>. QED BY <1>4, <1>7, <1>8, <1>9, <1>10 DEF Holding

LEMMA AdmitWho ==
    ASSUME AdmTypeOK, OneLives, HoldersLive, NEW p \in Process, NEW r \in Id, NEW asked \in Asked,
           NEW readable \in BOOLEAN, Admit(p, r, asked, readable)
    PROVE  /\ OneLives' /\ HoldersLive' /\ p \notin Holding /\ Holding' = Holding \cup {p}
           /\ proc'[p].hold = r /\ proc'[p].wrote = 0
           /\ \A q \in Holding : proc'[q] = proc[q] /\ file'[proc[q].hold] = file[proc[q].hold]
<1>1. PICK c : c = [[[proc[p] EXCEPT !.hold = r] EXCEPT !.wrote = 0] EXCEPT !.child = TRUE]
    OBVIOUS
<1>2. /\ c.hold = r /\ c.wrote = 0 /\ c.up = proc[p].up /\ c.ns = proc[p].ns
      /\ c.pid = proc[p].pid /\ c.start = proc[p].start
  <2>1. proc[p] \in ControllerRecord
      BY DEF AdmTypeOK
  <2>. QED BY <1>1, <2>1 DEF ControllerRecord
<1>3. proc' = [proc EXCEPT ![p] = c]
    BY <1>1 DEF Admit, AdmTypeOK, ControllerRecord
<1>4. proc'[p] = c /\ \A q \in Process \ {p} : proc'[q] = proc[q]
    BY <1>3, OnlyOne
<1>5. proc[p].up /\ proc[p].hold = 0 /\ file[r].at = "none" /\ boot' = boot
    BY DEF Admit
<1>6. p \notin Holding /\ r # 0 /\ Holding' = Holding \cup {p}
  <2>1. r # 0 /\ p \notin Holding
      BY <1>5 DEF Id, Holding
  <2>. QED BY <1>2, <1>4, <1>5, <2>1 DEF Holding
<1>7. ASSUME NEW q \in Holding
      PROVE  proc'[q] = proc[q] /\ file'[proc[q].hold] = file[proc[q].hold]
  <2>1. q \in Process \ {p} /\ proc[q].hold # 0 /\ proc[q].hold \in Id
      BY <1>6, HeldNumbers DEF Holding, Numbered
  <2>2. file[proc[q].hold].at = "open"
      BY <2>1 DEF HoldersLive, InItsName
  <2>3. file'[proc[q].hold] = Scanned(proc[p].ns)[proc[q].hold]
      BY <1>5, <2>1, <2>2, AdmitIs
  <2>4. proc[q].hold \notin StaleNow(proc[p].ns)
      BY HeldIsNotStale
  <2>. QED BY <1>4, <2>1, <2>3, <2>4, ScanIs
<1>8. OneLives'
  <2>1. \A q \in Process : proc'[q].up = proc[q].up /\ proc'[q].ns = proc[q].ns
                           /\ proc'[q].pid = proc[q].pid
      BY <1>2, <1>4
  <2>. QED BY <2>1 DEF OneLives
<1>9. HoldersLive'
  <2>. SUFFICES ASSUME NEW q \in Process, proc'[q].hold # 0 PROVE proc'[q].up /\ InItsName(q)'
      BY DEF HoldersLive
  <2>1. CASE q = p
    <3>1. PICK w : w = FileOf(p, Estimate(asked), readable)
        OBVIOUS
    <3>2. file'[r] = w
        BY <3>1, AdmitIs
    <3>3. /\ w.at = "open" /\ w.boot = boot /\ w.pid = proc[p].pid /\ w.ns = proc[p].ns
          /\ w.start \in {proc[p].start, Unreadable}
        BY <3>1 DEF FileOf
    <3>. QED BY <1>2, <1>4, <1>5, <2>1, <3>2, <3>3 DEF InItsName
  <2>2. CASE q # p
    <3>1. proc'[q] = proc[q]
        BY <1>4, <2>2
    <3>2. q \in Holding /\ proc[q].up /\ InItsName(q)
        BY <3>1, HoldingIs DEF HoldersLive
    <3>3. file'[proc[q].hold] = file[proc[q].hold]
        BY <1>7, <3>2
    <3>. QED BY <1>5, <3>1, <3>2, <3>3 DEF InItsName
  <2>. QED BY <2>1, <2>2
<1>. QED BY <1>2, <1>4, <1>6, <1>7, <1>8, <1>9

LEMMA LookWho ==
    ASSUME AdmTypeOK, OneLives, HoldersLive,
           NEW p \in Process, NEW rename \in BOOLEAN, Look(p, rename)
    PROVE  /\ OneLives' /\ HoldersLive' /\ Holding' = Holding /\ \A q \in Holding : Kept(q)
           /\ \A r \in Id : file'[r].at = "closed" => file[r].at = "closed"
<1>1. proc' = proc /\ boot' = boot /\ (file' = file \/ file' = Scanned(proc[p].ns))
    BY DEF Look
<1>2. ASSUME NEW q \in Holding
      PROVE  proc[q].hold \in Id /\ file'[proc[q].hold] = file[proc[q].hold]
  <2>1. proc[q].hold \in Id
      BY HeldNumbers DEF Numbered
  <2>2. proc[q].hold \notin StaleNow(proc[p].ns)
      BY HeldIsNotStale
  <2>. QED BY <1>1, <2>1, <2>2, ScanIs
<1>3. \A q \in Process : Stays(q)
  <2>. SUFFICES ASSUME NEW q \in Process PROVE Stays(q)
      OBVIOUS
  <2>1. CASE q \in Holding
      BY <1>1, <1>2, <2>1 DEF Stays, Holding
  <2>2. CASE q \notin Holding
      BY <1>1, <2>2, HoldingIs DEF Stays
  <2>. QED BY <2>1, <2>2
<1>4. OneLives' /\ HoldersLive'
    BY <1>3, WhoStays
<1>5. Holding' = Holding
    BY <1>1 DEF Holding
<1>6. \A r \in Id : file'[r].at = "closed" => file[r].at = "closed"
    BY <1>1, ScanIs
<1>. QED BY <1>1, <1>2, <1>4, <1>5, <1>6 DEF Kept

LEMMA WriteWho ==
    ASSUME AdmTypeOK, OneLives, HoldersLive, NEW p \in Process, Write(p)
    PROVE  /\ OneLives' /\ HoldersLive' /\ Holding' = Holding /\ p \in Holding
           /\ \A q \in Holding \ {p} : Kept(q)
           /\ proc'[p].hold = proc[p].hold /\ proc'[p].wrote = proc[p].wrote + 1
<1>1. PICK c : c = [proc[p] EXCEPT !.wrote = @ + 1]
    OBVIOUS
<1>2. /\ c.hold = proc[p].hold /\ c.up = proc[p].up /\ c.ns = proc[p].ns
      /\ c.pid = proc[p].pid /\ c.start = proc[p].start /\ c.wrote = proc[p].wrote + 1
  <2>1. proc[p] \in ControllerRecord
      BY DEF AdmTypeOK
  <2>. QED BY <1>1, <2>1 DEF ControllerRecord
<1>3. proc' = [proc EXCEPT ![p] = c]
    BY <1>1 DEF Write, AdmTypeOK, ControllerRecord
<1>4. proc'[p] = c /\ \A q \in Process \ {p} : proc'[q] = proc[q]
    BY <1>3, OnlyOne
<1>5. boot' = boot /\ file' = file /\ p \in Holding
    BY DEF Write, ledger, Holding
<1>6. Holding' = Holding
    BY <1>2, <1>4 DEF Holding
<1>7. \A q \in Process : Stays(q)
    BY <1>2, <1>4, <1>5, HoldingIs DEF Stays, HoldersLive
<1>8. OneLives' /\ HoldersLive'
    BY <1>7, WhoStays
<1>9. \A q \in Holding \ {p} : Kept(q)
    BY <1>4, <1>5 DEF Kept, Holding
<1>. QED BY <1>2, <1>4, <1>5, <1>6, <1>8, <1>9

LEMMA ReleaseWho ==
    ASSUME AdmTypeOK, OneLives, HoldersLive, NEW p \in Process,
           NEW outcome \in {"unwritten", "unrenamed", "closed"}, Release(p, outcome)
    PROVE  /\ OneLives' /\ HoldersLive' /\ p \in Holding /\ Holding' = Holding \ {p}
           /\ \A q \in Holding' : Kept(q)
<1>1. PICK c : c = [[[proc[p] EXCEPT !.hold = 0] EXCEPT !.wrote = 0] EXCEPT !.child = FALSE]
    OBVIOUS
<1>2. /\ c.hold = 0 /\ c.up = proc[p].up /\ c.ns = proc[p].ns /\ c.pid = proc[p].pid
      /\ c.start = proc[p].start
  <2>1. proc[p] \in ControllerRecord
      BY DEF AdmTypeOK
  <2>. QED BY <1>1, <2>1 DEF ControllerRecord
<1>3. proc' = [proc EXCEPT ![p] = c]
    BY <1>1 DEF Release, AdmTypeOK, ControllerRecord
<1>4. proc'[p] = c /\ \A q \in Process \ {p} : proc'[q] = proc[q]
    BY <1>3, OnlyOne
<1>5. boot' = boot /\ p \in Holding
    BY DEF Release, Holding
<1>6. Holding' = Holding \ {p}
    BY <1>2, <1>4 DEF Holding
<1>7. ASSUME NEW q \in Holding \ {p}
      PROVE  proc'[q] = proc[q] /\ file'[proc[q].hold] = file[proc[q].hold]
  <2>1. proc[q].hold # proc[p].hold
      BY <1>5, HoldsAreDistinct
  <2>2. proc[q].hold \in Id /\ q \in Process
      BY HeldNumbers DEF Numbered, Holding
  <2>. QED BY <1>4, <2>1, <2>2, ReleaseIs
<1>8. \A q \in Process : Stays(q)
  <2>. SUFFICES ASSUME NEW q \in Process PROVE Stays(q)
      OBVIOUS
  <2>1. CASE q = p
      BY <1>2, <1>4, <2>1 DEF Stays
  <2>2. CASE q \in Holding \ {p}
      BY <1>5, <1>7, <2>2 DEF Stays, Holding
  <2>3. CASE q # p /\ q \notin Holding
      BY <1>4, <2>3, HoldingIs DEF Stays
  <2>. QED BY <2>1, <2>2, <2>3
<1>9. OneLives' /\ HoldersLive'
    BY <1>8, WhoStays
<1>. QED BY <1>5, <1>6, <1>7, <1>9 DEF Kept

LEMMA KilledWho ==
    ASSUME AdmTypeOK, OneLives, HoldersLive, NEW p \in Process, Killed(p)
    PROVE  /\ OneLives' /\ HoldersLive' /\ Holding' = Holding \ {p} /\ \A q \in Holding' : Kept(q)
<1>1. PICK c : c = [Down EXCEPT !.child = proc[p].child]
    OBVIOUS
<1>2. c.hold = 0 /\ ~c.up
    BY <1>1 DEF Down
<1>3. proc' = [proc EXCEPT ![p] = c]
    BY <1>1 DEF Killed
<1>4. proc'[p] = c /\ \A q \in Process \ {p} : proc'[q] = proc[q]
    BY <1>3, OnlyOne
<1>5. boot' = boot /\ file' = file
    BY DEF Killed, ledger
<1>6. Holding' = Holding \ {p}
    BY <1>2, <1>4 DEF Holding
<1>7. \A q \in Process : Stays(q)
    BY <1>2, <1>4, <1>5 DEF Stays, HoldersLive
<1>8. OneLives' /\ HoldersLive'
    BY <1>7, WhoStays
<1>. QED BY <1>4, <1>5, <1>6, <1>8 DEF Kept, Holding

LEMMA OrphanWho ==
    ASSUME AdmTypeOK, OneLives, HoldersLive, NEW p \in Process, OrphanWrites(p)
    PROVE  /\ OneLives' /\ HoldersLive' /\ Holding' = Holding /\ \A q \in Holding : Kept(q)
<1>1. PICK c : c = [proc[p] EXCEPT !.child = FALSE]
    OBVIOUS
<1>2. /\ c.hold = proc[p].hold /\ c.up = proc[p].up /\ c.ns = proc[p].ns
      /\ c.pid = proc[p].pid /\ c.start = proc[p].start /\ c.wrote = proc[p].wrote
  <2>1. proc[p] \in ControllerRecord
      BY DEF AdmTypeOK
  <2>. QED BY <1>1, <2>1 DEF ControllerRecord
<1>3. proc' = [proc EXCEPT ![p] = c]
    BY <1>1 DEF OrphanWrites, AdmTypeOK
<1>4. proc'[p] = c /\ \A q \in Process \ {p} : proc'[q] = proc[q]
    BY <1>3, OnlyOne
<1>5. boot' = boot /\ file' = file
    BY DEF OrphanWrites, ledger
<1>6. Holding' = Holding
    BY <1>2, <1>4 DEF Holding
<1>7. \A q \in Process : Stays(q)
    BY <1>2, <1>4, <1>5 DEF Stays, HoldersLive
<1>8. OneLives' /\ HoldersLive'
    BY <1>7, WhoStays
<1>. QED BY <1>2, <1>4, <1>5, <1>6, <1>8 DEF Kept, Holding

LEMMA RebootWho ==
    ASSUME AdmTypeOK, Reboot
    PROVE  OneLives' /\ HoldersLive' /\ Holding' = {}
<1>1. \A q \in Process : ~proc'[q].up /\ proc'[q].hold = 0
    BY DEF Reboot, Down
<1>. QED BY <1>1 DEF OneLives, HoldersLive, Holding

LEMMA OtherWho ==
    ASSUME AdmTypeOK, OneLives, HoldersLive, proc' = proc, boot' = boot,
           file' = file \/ \E r \in Id : Damage(r)
    PROVE  /\ OneLives' /\ HoldersLive' /\ Holding' = Holding /\ \A q \in Holding : Kept(q)
           /\ \A r \in Id : file'[r].at = "closed" => file[r].at = "closed"
<1>1. ASSUME NEW s \in Id
      PROVE  /\ file'[s].at = file[s].at /\ file'[s].boot = file[s].boot
             /\ file'[s].pid = file[s].pid /\ file'[s].ns = file[s].ns
             /\ file'[s].start = file[s].start /\ file'[s].est = file[s].est
  <2>1. CASE file' = file
      BY <2>1
  <2>2. ASSUME NEW r \in Id, Damage(r)
        PROVE  /\ file'[s].at = file[s].at /\ file'[s].boot = file[s].boot
               /\ file'[s].pid = file[s].pid /\ file'[s].ns = file[s].ns
               /\ file'[s].start = file[s].start /\ file'[s].est = file[s].est
    <3>1. file \in [Id -> ReservationRecord]
        BY DEF AdmTypeOK
    <3>2. PICK c : c = [file[r] EXCEPT !.ok = FALSE]
        OBVIOUS
    <3>3. file' = [file EXCEPT ![r] = c]
        BY <2>2, <3>2 DEF Damage
    <3>4. /\ c.at = file[r].at /\ c.est = file[r].est /\ c.pid = file[r].pid
          /\ c.ns = file[r].ns /\ c.boot = file[r].boot /\ c.start = file[r].start
        BY <3>1, <3>2, FileFields
    <3>5. file'[s] = IF s = r THEN c ELSE file[s]
        BY <3>1, <3>3
    <3>. QED BY <3>4, <3>5
  <2>. QED BY <2>1, <2>2
<1>2. \A q \in Holding : proc[q].hold \in Id
    BY HeldNumbers DEF Numbered
<1>3. \A q \in Process : Stays(q)
    BY <1>1, <1>2, HoldingIs DEF Stays, HoldersLive
<1>4. OneLives' /\ HoldersLive'
    BY <1>3, WhoStays
<1>5. Holding' = Holding
    BY DEF Holding
<1>. QED BY <1>1, <1>2, <1>4, <1>5 DEF Kept

-----------------------------------------------------------------------------
(* What is promised is there                                               *)

Amounts ==
    /\ PromisedSum \in Nat /\ OwedSum \in Nat /\ OwedSum <= PromisedSum
    /\ host \in Nat /\ guest \in Nat /\ unpromised \in Nat /\ clock \in Nat
    /\ ReleasedSince \in Nat /\ OpenedSince \in Nat /\ reading.at \in Int /\ reading.free \in Nat
    /\ ReleasedSince = Since(history, reading.at)
    /\ Min({host, guest}) \in {host, guest} /\ Min({host, guest}) <= host
    /\ Min({host, guest}) <= guest

LEMMA AmountsAre == AdmTypeOK => Amounts
<1>. SUFFICES ASSUME AdmTypeOK PROVE Amounts
    OBVIOUS
<1>1. PromisedSum \in Nat /\ OwedSum \in Nat /\ OwedSum <= PromisedSum
    BY HeldTotals DEF Totalled, PromisedSum, OwedSum
<1>2. host \in Nat /\ guest \in Nat /\ unpromised \in Nat /\ clock \in Nat
    BY DEF AdmTypeOK
<1>3. /\ Min({host, guest}) \in {host, guest} /\ Min({host, guest}) <= host
      /\ Min({host, guest}) <= guest
  <2>1. host \in Int /\ guest \in Int
      BY <1>2
  <2>. QED BY <2>1, SmallerOfTwo
<1>. QED BY <1>1, <1>2, <1>3, FlowsAre DEF Amounts

LEMMA AmountsBoth ==
    ASSUME AdmTypeOK, AdmTypeOK'
    PROVE  Amounts /\ Amounts'
<1>1. (AdmTypeOK => Amounts)'
    BY AmountsAre, PTL
<1>. QED BY <1>1, AmountsAre

\* The two invariants, in these amounts.
Covered == Holding # {} => Min({host, guest}) + unpromised >= Reserve + OwedSum
Known == reading.at # Unknown =>
            /\ reading.at <= clock
            /\ host + unpromised + ReleasedSince + PromisedSum >= reading.free + OwedSum

LEMMA InAmounts == (SpaceIsCovered <=> Covered) /\ (GoneIsKnown <=> Known)
BY DEF SpaceIsCovered, Covered, GoneIsKnown, Known, PromisedSum, OwedSum

LEMMA InAmountsBoth ==
    /\ (SpaceIsCovered <=> Covered) /\ (GoneIsKnown <=> Known)
    /\ (SpaceIsCovered' <=> Covered') /\ (GoneIsKnown' <=> Known')
<1>1. ((SpaceIsCovered <=> Covered) /\ (GoneIsKnown <=> Known))'
    BY InAmounts, PTL
<1>. QED BY <1>1, InAmounts

\* The ledger counts every live operation at what it was promised (_reserved_bytes), unless a
\* reservation is unreadable, which refuses any admission.
LEMMA HoldsAreCounted ==
    ASSUME AdmTypeOK, OneLives, HoldersLive, Malformed = {}, NEW n
    PROVE  PromisedSum <= Reserved(n) /\ Reserved(n) \in Nat
<1>1. PICK H, P, T, E : /\ H = Holding /\ P = Promised /\ T = Counted(n) /\ E = Estimates
    OBVIOUS
<1>2. Numbered
    BY HeldNumbers
<1>3. T \in SUBSET Id /\ IsFiniteSet(T) /\ \A r \in T : E[r] \in Nat
  <2>1. T \in SUBSET Id
      BY <1>1 DEF Counted, Readable
  <2>. QED BY <1>1, <1>2, <2>1, FS_Subset DEF Numbered
<1>4. ASSUME NEW q \in H PROVE proc[q].hold \in T
  <2>1. q \in Process /\ proc[q].hold \in Id /\ proc[q].hold # 0
      BY <1>1, <1>2 DEF Numbered, Holding
  <2>2. file[proc[q].hold].at = "open"
      BY <2>1 DEF HoldersLive, InItsName
  <2>3. file[proc[q].hold].ok
      BY <2>1, <2>2 DEF Malformed
  <2>4. proc[q].hold \notin StaleNow(n)
      BY <1>1, HeldIsNotStale
  <2>. QED BY <1>1, <2>1, <2>2, <2>3, <2>4 DEF Counted, Readable
<1>5. PICK h : h = [q \in H |-> proc[q].hold]
    OBVIOUS
<1>6. h \in Injection(H, T)
  <2>1. h \in [H -> T]
      BY <1>4, <1>5
  <2>2. \A a, b \in H : h[a] = h[b] => a = b
      BY <1>1, <1>5, HoldsAreDistinct
  <2>. QED BY <2>1, <2>2, Zenon DEF Injection, IsInjective
<1>7. \A q \in H : P[q] \in Nat /\ P[q] <= E[h[q]]
  <2>. SUFFICES ASSUME NEW q \in H PROVE P[q] \in Nat /\ P[q] <= E[h[q]]
      OBVIOUS
  <2>1. P[q] = file[proc[q].hold].est /\ P[q] \in Nat /\ proc[q].hold \in Id
      BY <1>1, <1>2 DEF Numbered
  <2>2. E[proc[q].hold] = file[proc[q].hold].est
      BY <1>1, <1>2, <2>1 DEF Numbered
  <2>. QED BY <1>5, <2>1, <2>2
<1>8. Total(P, H) <= Total(E, T)
    BY <1>3, <1>6, <1>7, SumInjects
<1>9. Total(E, T) \in Nat
    BY <1>3, SumFinite
<1>. QED BY <1>1, <1>8, <1>9 DEF PromisedSum, Reserved

LEMMA StillEnough ==
    ASSUME NEW h \in Nat, NEW u \in Nat, NEW r \in Nat, NEW p \in Nat, NEW f \in Nat,
           NEW o \in Nat, NEW h2 \in Nat, NEW u2 \in Nat, h2 + u2 >= h + u, h + u + r + p >= f + o
    PROVE  h2 + u2 + r + p >= f + o
OBVIOUS

\* A step that leaves the holders alone, the history and the last reading.
LEMMA CoveredStays ==
    ASSUME AdmTypeOK, AdmTypeOK', Covered, Holding' = Holding, \A q \in Holding : Kept(q),
           Min({host, guest})' + unpromised' >= Min({host, guest}) + unpromised
    PROVE  Covered'
<1>1. Amounts /\ Amounts'
    BY AmountsBoth
<1>2. OwedSum' = OwedSum
    BY HoldersStay
<1>3. Reserve \in Nat
    BY FiguresAre
<1>. QED BY <1>1, <1>2, <1>3 DEF Amounts, Covered

LEMMA KnownStays ==
    ASSUME AdmTypeOK, AdmTypeOK', Known, Holding' = Holding, \A q \in Holding : Kept(q),
           history' = history, reading' = reading, clock' >= clock,
           host' + unpromised' >= host + unpromised
    PROVE  Known'
<1>1. Amounts /\ Amounts'
    BY AmountsBoth
<1>2. PromisedSum' = PromisedSum /\ OwedSum' = OwedSum
    BY HoldersStay
<1>3. ReleasedSince' = ReleasedSince
    BY <1>1 DEF Amounts
<1>4. /\ host \in Nat /\ host' \in Nat /\ unpromised \in Nat /\ unpromised' \in Nat
      /\ clock \in Nat /\ clock' \in Nat /\ reading.at \in Int /\ reading.free \in Nat
      /\ ReleasedSince \in Nat /\ PromisedSum \in Nat /\ OwedSum \in Nat
    BY <1>1 DEF Amounts
<1>5. reading'.at = reading.at /\ reading'.free = reading.free
    OBVIOUS
<1>6. SUFFICES ASSUME reading.at # Unknown
               PROVE  /\ reading.at <= clock'
                      /\ host' + unpromised' + ReleasedSince + PromisedSum
                            >= reading.free + OwedSum
    BY <1>2, <1>3, <1>5 DEF Known
<1>7. /\ reading.at <= clock
      /\ host + unpromised + ReleasedSince + PromisedSum >= reading.free + OwedSum
    BY <1>6 DEF Known
<1>8. clock' >= clock /\ host' + unpromised' >= host + unpromised
    OBVIOUS
<1>9. reading.at <= clock'
    BY ONLY <1>4, <1>7, <1>8
<1>10. host' + unpromised' + ReleasedSince + PromisedSum >= reading.free + OwedSum
    BY <1>4, <1>7, <1>8, StillEnough
<1>. QED BY <1>9, <1>10

\* The host is seen: what was gone before does not matter any more.
LEMMA KnownAnew ==
    ASSUME AdmTypeOK', reading' = [free |-> host', at |-> clock']
    PROVE  Known'
<1>1. Amounts'
  <2>1. (AdmTypeOK => Amounts)'
      BY AmountsAre, PTL
  <2>. QED BY <2>1
<1>2. /\ host' \in Nat /\ unpromised' \in Nat /\ clock' \in Nat /\ ReleasedSince' \in Nat
      /\ PromisedSum' \in Nat /\ OwedSum' \in Nat /\ OwedSum' <= PromisedSum'
    BY <1>1 DEF Amounts
<1>3. reading'.at = clock' /\ reading'.free = host'
    OBVIOUS
<1>4. \A h, u, r, p, o \in Nat : o <= p => h + u + r + p >= h + o
    OBVIOUS
<1>5. host' + unpromised' + ReleasedSince' + PromisedSum' >= host' + OwedSum'
    BY ONLY <1>2, <1>4
<1>6. clock' <= clock'
    BY <1>2
<1>. QED BY <1>3, <1>5, <1>6 DEF Known

LEMMA LookCovers ==
    ASSUME AdmTypeOK, AdmTypeOK', OneLives, HoldersLive, Covered, Known,
           NEW p \in Process, NEW rename \in BOOLEAN, Look(p, rename)
    PROVE  Covered' /\ Known'
<1>1. Holding' = Holding /\ \A q \in Holding : Kept(q)
    BY LookWho
<1>2. /\ host' = host /\ guest' = guest /\ unpromised' = unpromised /\ clock' = clock
      /\ history' = history
      /\ reading' = IF hostSeen THEN [free |-> host, at |-> clock] ELSE reading
    BY DEF Look, Assess
<1>3. Amounts
    BY AmountsAre
<1>4. Min({host, guest})' = Min({host, guest})
    BY <1>2
<1>5. /\ Min({host, guest})' + unpromised' >= Min({host, guest}) + unpromised
      /\ clock' >= clock /\ host' + unpromised' >= host + unpromised
    BY <1>2, <1>3, <1>4 DEF Amounts
<1>6. Covered'
    BY <1>1, <1>5, CoveredStays
<1>7. CASE hostSeen
    BY <1>2, <1>6, <1>7, KnownAnew
<1>8. CASE ~hostSeen
    BY <1>1, <1>2, <1>5, <1>6, <1>8, KnownStays
<1>. QED BY <1>7, <1>8

\* What a step may do to the host, the guest and what nobody promised.
Shift(h, g, u, h2, g2, u2) ==
    \/ h2 = h /\ g2 = g /\ u2 = u
    \/ h2 = h - 1 /\ g2 = g - 1 /\ u2 = u + 1
    \/ h2 = h + 1 /\ g2 = g /\ u2 = u
    \/ h2 = h - 1 /\ g2 = g /\ u2 = u + 1

\* Nobody who holds anything is concerned.
LEMMA RestCovers ==
    ASSUME AdmTypeOK, AdmTypeOK', OneLives, HoldersLive, Covered, Known,
           Holding' = Holding, \A q \in Holding : Kept(q),
           history' = history, reading' = reading, clock' = clock \/ clock' = clock + 1,
           Shift(host, guest, unpromised, host', guest', unpromised')
    PROVE  Covered' /\ Known'
<1>1. Amounts /\ Amounts'
    BY AmountsBoth
<1>2. PICK m, m2 : m = Min({host, guest}) /\ m2 = Min({host, guest})'
    OBVIOUS
<1>3. /\ host \in Nat /\ guest \in Nat /\ unpromised \in Nat /\ clock \in Nat
      /\ host' \in Nat /\ guest' \in Nat /\ unpromised' \in Nat
      /\ m \in {host, guest} /\ m <= host /\ m <= guest /\ m2 \in {host', guest'}
    BY <1>1, <1>2 DEF Amounts
<1>4. m2 + unpromised' >= m + unpromised /\ host' + unpromised' >= host + unpromised
  <2>1. PICK h, g, u, h2, g2, u2 : /\ h = host /\ g = guest /\ u = unpromised
                                   /\ h2 = host' /\ g2 = guest' /\ u2 = unpromised'
      OBVIOUS
  <2>2. /\ h \in Nat /\ g \in Nat /\ u \in Nat /\ h2 \in Nat /\ g2 \in Nat /\ u2 \in Nat
        /\ m \in {h, g} /\ m <= h /\ m <= g /\ m2 \in {h2, g2}
      BY ONLY <1>3, <2>1
  <2>3. Shift(h, g, u, h2, g2, u2)
      BY <2>1
  <2>4. (m2 = h2 /\ m <= h) \/ (m2 = g2 /\ m <= g)
      BY ONLY <2>2
  <2>5. m2 + u2 >= m + u /\ h2 + u2 >= h + u
      BY ONLY <2>2, <2>3, <2>4 DEF Shift
  <2>. QED BY <2>1, <2>5
<1>5. clock' >= clock
    BY <1>3
<1>. QED BY <1>2, <1>4, <1>5, CoveredStays, KnownStays

\* An operation writes what it was promised, or beyond it what nobody promised.
LEMMA WriteCovers ==
    ASSUME AdmTypeOK, AdmTypeOK', OneLives, HoldersLive, Covered, Known,
           NEW p \in Process, Write(p)
    PROVE  Covered' /\ Known'
<1>1. /\ Holding' = Holding /\ p \in Holding /\ \A q \in Holding \ {p} : Kept(q)
      /\ proc'[p].hold = proc[p].hold /\ proc'[p].wrote = proc[p].wrote + 1
    BY WriteWho
<1>2. /\ file' = file /\ host' = host - 1 /\ guest' = guest - 1 /\ clock' = clock
      /\ history' = history /\ reading' = reading
      /\ unpromised' = IF proc[p].wrote < file[proc[p].hold].est THEN unpromised
                                                                 ELSE unpromised + 1
    BY DEF Write, ledger
<1>3. Numbered /\ Numbered' /\ Amounts /\ Amounts'
    BY TotalsBefore, AmountsBoth
<1>4. PICK e, w, o, o2 : /\ e = file[proc[p].hold].est /\ w = proc[p].wrote
                         /\ o = Owed[p] /\ o2 = Owed'[p]
    OBVIOUS
<1>5. e \in Nat /\ w \in Nat /\ o = (IF e > w THEN e - w ELSE 0)
    BY <1>1, <1>3, <1>4 DEF Numbered, Rest
<1>6. o2 = IF e > w + 1 THEN e - (w + 1) ELSE 0
    BY <1>1, <1>2, <1>3, <1>4 DEF Numbered, Rest
<1>7. Promised'[p] = Promised[p]
    BY <1>1, <1>2, <1>3 DEF Numbered
<1>8. PromisedSum' = PromisedSum /\ OwedSum' + o = OwedSum + o2
    BY <1>1, <1>4, <1>7, HolderWrites
<1>9. /\ OwedSum \in Nat /\ OwedSum' \in Nat /\ unpromised \in Nat /\ unpromised' \in Nat
      /\ ReleasedSince \in Nat /\ PromisedSum \in Nat
      /\ reading.at \in Int /\ reading.free \in Nat
      /\ host \in Nat /\ guest \in Nat /\ host' \in Nat /\ guest' \in Nat /\ clock \in Nat
      /\ Min({host, guest}) \in {host, guest} /\ Min({host, guest}) <= host
      /\ Min({host, guest}) <= guest /\ Min({host, guest})' \in {host', guest'}
    BY <1>3 DEF Amounts
<1>10. \/ OwedSum' = OwedSum - 1 /\ unpromised' = unpromised
       \/ OwedSum' = OwedSum /\ unpromised' = unpromised + 1
  <2>1. CASE w < e
      BY <1>2, <1>4, <1>5, <1>6, <1>8, <1>9, <2>1
  <2>2. CASE ~(w < e)
      BY <1>2, <1>4, <1>5, <1>6, <1>8, <1>9, <2>2
  <2>. QED BY <2>1, <2>2
<1>11. ReleasedSince' = ReleasedSince
    BY <1>2, <1>3 DEF Amounts
<1>12. Reserve \in Nat
    BY FiguresAre
<1>13. PICK m, m2 : m = Min({host, guest}) /\ m2 = Min({host, guest})'
    OBVIOUS
<1>14. /\ m \in {host, guest} /\ m <= host /\ m <= guest /\ m2 \in {host', guest'}
    BY <1>9, <1>13
<1>15. host' = host - 1 /\ guest' = guest - 1
    BY <1>2
<1>16. /\ m + unpromised >= Reserve + OwedSum => m2 + unpromised' >= Reserve + OwedSum'
       /\ host + unpromised + ReleasedSince + PromisedSum >= reading.free + OwedSum
             => host' + unpromised' + ReleasedSince + PromisedSum >= reading.free + OwedSum'
  <2>1. PICK h, g, u, r, q, f, t, h2, g2, u2, t2, s :
                /\ h = host /\ g = guest /\ u = unpromised /\ r = ReleasedSince
                /\ q = PromisedSum /\ f = reading.free /\ t = OwedSum /\ s = Reserve
                /\ h2 = host' /\ g2 = guest' /\ u2 = unpromised' /\ t2 = OwedSum'
      OBVIOUS
  <2>2. /\ h \in Nat /\ g \in Nat /\ u \in Nat /\ r \in Nat /\ q \in Nat /\ f \in Nat
        /\ t \in Nat /\ h2 \in Nat /\ g2 \in Nat /\ u2 \in Nat /\ t2 \in Nat /\ s \in Nat
      BY <1>9, <1>12, <2>1
  <2>3. /\ m \in {h, g} /\ m <= h /\ m <= g /\ m2 \in {h2, g2} /\ h2 = h - 1 /\ g2 = g - 1
        /\ (t2 = t - 1 /\ u2 = u) \/ (t2 = t /\ u2 = u + 1)
      BY <1>10, <1>14, <1>15, <2>1
  <2>4. /\ m + u >= s + t => m2 + u2 >= s + t2
        /\ h + u + r + q >= f + t => h2 + u2 + r + q >= f + t2
      BY ONLY <2>2, <2>3
  <2>. QED BY <2>1, <2>4
<1>17. Covered'
    BY <1>1, <1>13, <1>16 DEF Covered
<1>18. Known'
    BY <1>2, <1>8, <1>11, <1>16 DEF Known
<1>. QED BY <1>17, <1>18

\* A holder leaves: what it wrote is in the history, or nobody promised it.
LEMMA LeaveCovers ==
    ASSUME AdmTypeOK, AdmTypeOK', OneLives, HoldersLive, Covered, Known,
           NEW p \in Holding, Holding' = Holding \ {p}, \A q \in Holding' : Kept(q),
           host' = host, guest' = guest, reading' = reading, clock' = clock,
           unpromised' >= unpromised,
           reading.at # Unknown =>
              unpromised' + ReleasedSince' >= unpromised + ReleasedSince + proc[p].wrote
    PROVE  Covered' /\ Known'
<1>1. Numbered /\ Amounts /\ Amounts'
    BY TotalsBefore, AmountsBoth
<1>2. PromisedSum = PromisedSum' + Promised[p] /\ OwedSum = OwedSum' + Owed[p]
    BY HolderLeaves
<1>3. /\ Promised[p] \in Nat /\ Owed[p] \in Nat /\ proc[p].wrote \in Nat
      /\ Promised[p] <= Owed[p] + proc[p].wrote
    BY <1>1 DEF Numbered
<1>4. PICK m, pp, oo, w : /\ m = Min({host, guest}) /\ pp = Promised[p] /\ oo = Owed[p]
                          /\ w = proc[p].wrote
    OBVIOUS
<1>5. /\ OwedSum \in Nat /\ OwedSum' \in Nat /\ PromisedSum \in Nat /\ PromisedSum' \in Nat
      /\ unpromised \in Nat /\ unpromised' \in Nat /\ host \in Nat /\ reading.free \in Nat
      /\ ReleasedSince \in Nat /\ ReleasedSince' \in Nat
    BY <1>1 DEF Amounts
<1>6. m \in Nat /\ pp \in Nat /\ oo \in Nat /\ w \in Nat /\ Reserve \in Nat
    BY <1>1, <1>3, <1>4, FiguresAre DEF Amounts
<1>7. PromisedSum = PromisedSum' + pp /\ OwedSum = OwedSum' + oo /\ pp <= oo + w
    BY <1>2, <1>3, <1>4
<1>8. /\ m + unpromised >= Reserve + OwedSum /\ unpromised' >= unpromised
            => m + unpromised' >= Reserve + OwedSum'
      /\ (/\ host + unpromised + ReleasedSince + PromisedSum >= reading.free + OwedSum
          /\ unpromised' + ReleasedSince' >= unpromised + ReleasedSince + w)
            => host + unpromised' + ReleasedSince' + PromisedSum' >= reading.free + OwedSum'
  <2>1. PICK h, u, r, q, f, t, s, u2, r2, q2, t2 :
                /\ h = host /\ u = unpromised /\ r = ReleasedSince
                /\ q = PromisedSum /\ f = reading.free /\ t = OwedSum /\ s = Reserve
                /\ u2 = unpromised' /\ r2 = ReleasedSince' /\ q2 = PromisedSum' /\ t2 = OwedSum'
      OBVIOUS
  <2>2. /\ h \in Nat /\ u \in Nat /\ r \in Nat /\ q \in Nat /\ f \in Nat /\ t \in Nat
        /\ s \in Nat /\ u2 \in Nat /\ r2 \in Nat /\ q2 \in Nat /\ t2 \in Nat
        /\ m \in Nat /\ pp \in Nat /\ oo \in Nat /\ w \in Nat
      BY <1>5, <1>6, <2>1
  <2>3. q = q2 + pp /\ t = t2 + oo /\ pp <= oo + w
      BY <1>7, <2>1
  <2>4. /\ m + u >= s + t /\ u2 >= u => m + u2 >= s + t2
        /\ h + u + r + q >= f + t /\ u2 + r2 >= u + r + w => h + u2 + r2 + q2 >= f + t2
      BY ONLY <2>2, <2>3
  <2>5. ASSUME m + unpromised >= Reserve + OwedSum, unpromised' >= unpromised
        PROVE  m + unpromised' >= Reserve + OwedSum'
      BY <2>1, <2>4, <2>5
  <2>6. ASSUME host + unpromised + ReleasedSince + PromisedSum >= reading.free + OwedSum,
               unpromised' + ReleasedSince' >= unpromised + ReleasedSince + w
        PROVE  host + unpromised' + ReleasedSince' + PromisedSum' >= reading.free + OwedSum'
    <3>1. h + u + r + q >= f + t /\ u2 + r2 >= u + r + w
        BY ONLY <2>1, <2>6
    <3>2. h + u2 + r2 + q2 >= f + t2
        BY ONLY <2>4, <3>1
    <3>. QED BY ONLY <2>1, <3>2
  <2>. QED BY <2>5, <2>6
<1>9. Covered'
  <2>1. Min({host, guest})' = m /\ Holding # {}
      BY <1>4
  <2>. QED BY <1>4, <1>8, <2>1 DEF Covered
<1>10. Known'
  <2>1. reading'.at = reading.at /\ reading'.free = reading.free
      OBVIOUS
  <2>. QED BY <1>4, <1>8, <2>1 DEF Known
<1>. QED BY <1>9, <1>10

LEMMA ReleaseCovers ==
    ASSUME AdmTypeOK, AdmTypeOK', OneLives, HoldersLive, Covered, Known, NEW p \in Process,
           NEW outcome \in {"unwritten", "unrenamed", "closed"}, Release(p, outcome)
    PROVE  Covered' /\ Known'
<1>1. p \in Holding /\ Holding' = Holding \ {p} /\ \A q \in Holding' : Kept(q)
    BY ReleaseWho
<1>2. /\ host' = host /\ guest' = guest /\ reading' = reading /\ clock' = clock
      /\ unpromised' = unpromised + IF outcome = "unwritten" THEN proc[p].wrote ELSE 0
    BY DEF Release
<1>3. Amounts /\ Amounts' /\ proc[p].wrote \in Nat
    BY <1>1, AmountsBoth, HeldNumbers DEF Numbered
<1>4. unpromised \in Nat /\ ReleasedSince \in Nat /\ reading.at \in Int /\ clock \in Nat
    BY <1>3 DEF Amounts
<1>5. unpromised' >= unpromised
    BY <1>2, <1>3, <1>4
<1>6. ASSUME reading.at # Unknown
      PROVE  unpromised' + ReleasedSince' >= unpromised + ReleasedSince + proc[p].wrote
  <2>1. file[proc[p].hold].at = "open"
      BY <1>1 DEF HoldersLive, InItsName, Holding
  <2>2. PICK e : e = [id |-> proc[p].hold, actual |-> proc[p].wrote, closed |-> clock]
      OBVIOUS
  <2>3. history' = IF outcome = "unwritten" THEN history ELSE Append(history, e)
      BY <2>1, <2>2 DEF Release, ReleaseWrites
  <2>4. /\ ReleasedSince = Since(history, reading.at)
        /\ ReleasedSince' = Since(history', reading.at)
      BY <1>2, <1>3 DEF Amounts
  <2>5. CASE outcome = "unwritten"
    <3>1. ReleasedSince' = ReleasedSince /\ unpromised' = unpromised + proc[p].wrote
        BY <1>2, <2>3, <2>4, <2>5
    <3>. QED BY <1>3, <1>4, <3>1
  <2>6. CASE outcome # "unwritten"
    <3>1. e \in Written /\ history \in Seq(Written)
        BY <2>2, WrittenIs DEF Release
    <3>2. e.closed >= reading.at
      <4>1. reading.at <= clock
          BY <1>6 DEF Known
      <4>. QED BY <1>4, <2>2, <4>1
    <3>3. Since(Append(history, e), reading.at) = Since(history, reading.at) + e.actual
        BY <1>4, <3>1, <3>2, SinceGrows
    <3>4. ReleasedSince' = ReleasedSince + proc[p].wrote /\ unpromised' = unpromised + 0
        BY <1>2, <2>2, <2>3, <2>4, <2>6, <3>3
    <3>. QED BY <1>3, <1>4, <3>4
  <2>. QED BY <2>5, <2>6
<1>. QED BY <1>1, <1>2, <1>5, <1>6, LeaveCovers

LEMMA KilledCovers ==
    ASSUME AdmTypeOK, AdmTypeOK', OneLives, HoldersLive, Covered, Known,
           NEW p \in Process, Killed(p)
    PROVE  Covered' /\ Known'
<1>1. Holding' = Holding \ {p} /\ \A q \in Holding' : Kept(q)
    BY KilledWho
<1>2. /\ host' = host /\ guest' = guest /\ reading' = reading /\ clock' = clock
      /\ history' = history /\ unpromised' = unpromised + proc[p].wrote
    BY DEF Killed, ledger
<1>3. Amounts /\ Amounts' /\ proc[p].wrote \in Nat
    BY AmountsBoth DEF AdmTypeOK, ControllerRecord
<1>4. unpromised \in Nat /\ ReleasedSince \in Nat /\ clock \in Nat /\ host \in Nat
    BY <1>3 DEF Amounts
<1>5. ReleasedSince' = ReleasedSince
    BY <1>2, <1>3 DEF Amounts
<1>6. unpromised' >= unpromised
    BY <1>2, <1>3, <1>4
<1>7. unpromised' + ReleasedSince' >= unpromised + ReleasedSince + proc[p].wrote
    BY <1>2, <1>3, <1>4, <1>5
<1>8. CASE p \in Holding
    BY <1>1, <1>2, <1>6, <1>7, <1>8, LeaveCovers
<1>9. CASE p \notin Holding
  <2>1. Holding' = Holding
      BY <1>1, <1>9
  <2>2. PICK m : m = Min({host, guest})
      OBVIOUS
  <2>3. Min({host, guest})' = m /\ m \in Nat
      BY <1>2, <1>3, <2>2 DEF Amounts
  <2>4. m + unpromised' >= m + unpromised /\ host' + unpromised' >= host + unpromised
        /\ clock' >= clock
      BY <1>2, <1>3, <1>4, <2>3
  <2>. QED BY <1>1, <1>2, <2>1, <2>2, <2>3, <2>4, CoveredStays, KnownStays
<1>. QED BY <1>8, <1>9

\* A reboot ends every operation: what all of them together wrote, nobody promises now.
LEMMA RebootCovers ==
    ASSUME AdmTypeOK, AdmTypeOK', Covered, Known, Reboot
    PROVE  Covered' /\ Known'
<1>1. Holding' = {}
    BY RebootWho
<1>2. /\ host' = host /\ reading' = reading /\ clock' = clock /\ history' = history
      /\ unpromised' = unpromised + WroteSum
    BY DEF Reboot, ledger, WroteSum
<1>3. Numbered /\ Amounts /\ Amounts' /\ WroteSum \in Nat
    BY TotalsBefore, AmountsBoth, WroteIs
<1>4. PromisedSum <= OwedSum + WroteSum
  <2>1. PICK H, P, O, W : /\ H = Holding /\ P = Promised /\ O = Owed
                          /\ W = [p \in Process |-> proc[p].wrote]
      OBVIOUS
  <2>2. IsFiniteSet(H) /\ H \in SUBSET Process
      BY <1>3, <2>1 DEF Numbered
  <2>3. \A q \in H : W[q] = proc[q].wrote
      BY <2>1, <2>2
  <2>4. \A q \in H : P[q] \in Nat /\ O[q] \in Nat /\ W[q] \in Nat /\ P[q] <= O[q] + W[q]
      BY <1>3, <2>1, <2>3 DEF Numbered
  <2>5. Total(P, H) <= Total(O, H) + Total(W, H)
      BY <2>2, <2>4, SumOfTwo
  <2>6. \A q \in Process : W[q] \in Nat
      BY <2>1 DEF AdmTypeOK, ControllerRecord
  <2>7. IsFiniteSet(Process)
      BY FiguresAre
  <2>8. \A q \in H : W[q] \in Nat /\ W[q] <= W[q]
      BY <2>4
  <2>9. Total(W, H) <= Total(W, Process)
      BY <2>2, <2>6, <2>7, <2>8, SumMonotone
  <2>10. /\ Total(P, H) \in Nat /\ Total(O, H) \in Nat /\ Total(W, H) \in Nat
         /\ Total(W, Process) \in Nat
      BY <2>2, <2>4, <2>6, <2>7, SumFinite
  <2>11. Total(P, H) <= Total(O, H) + Total(W, Process)
      BY ONLY <2>5, <2>9, <2>10
  <2>. QED BY <2>1, <2>11 DEF PromisedSum, OwedSum, WroteSum
<1>5. ReleasedSince' = ReleasedSince
    BY <1>2, <1>3 DEF Amounts
<1>6. PromisedSum' = 0 /\ OwedSum' = 0
    BY <1>1, SumOfNone DEF PromisedSum, OwedSum
<1>7. Covered'
    BY <1>1 DEF Covered
<1>8. Known'
  <2>1. PICK h, u, r, q, f, t, w : /\ h = host /\ u = unpromised /\ r = ReleasedSince
                                   /\ q = PromisedSum /\ f = reading.free /\ t = OwedSum
                                   /\ w = WroteSum
      OBVIOUS
  <2>2. /\ h \in Nat /\ u \in Nat /\ r \in Nat /\ q \in Nat /\ f \in Nat /\ t \in Nat
        /\ w \in Nat /\ q <= t + w
      BY <1>3, <1>4, <2>1 DEF Amounts
  <2>3. h + u + r + q >= f + t => h + (u + w) + r + 0 >= f + 0
      BY ONLY <2>2
  <2>4. reading.at # Unknown => reading.at <= clock /\ h + u + r + q >= f + t
      BY <2>1 DEF Known
  <2>5. /\ reading'.at = reading.at /\ reading'.free = f /\ clock' = clock /\ host' = h
        /\ unpromised' = u + w /\ ReleasedSince' = r /\ PromisedSum' = 0 /\ OwedSum' = 0
      BY <1>2, <1>5, <1>6, <2>1
  <2>6. /\ reading'.at # Unknown =>
           /\ reading'.at <= clock'
           /\ host' + unpromised' + ReleasedSince' + PromisedSum' >= reading'.free + OwedSum'
      BY ONLY <2>3, <2>4, <2>5
  <2>. QED BY <2>6 DEF Known
<1>. QED BY <1>7, <1>8

\* The figure an admission rests on: the host when it is seen, and else what the last reading
\* leaves of it (_host_term).
LEMMA FigureIs ==
    ASSUME Effective # Unknown
    PROVE  /\ Effective = Min({guest, HostFigure})
           /\ hostSeen => HostFigure = host
           /\ ~hostSeen => /\ reading.at # Unknown
                           /\ HostFigure = reading.free - OpenedSince - ReleasedSince
<1>1. HostFigure # Unknown
    BY DEF Effective
<1>2. Effective = Min({guest, HostFigure})
    BY <1>1 DEF Effective, Seen
<1>3. hostSeen => HostFigure = host
    BY DEF HostFigure
<1>4. ASSUME ~hostSeen PROVE /\ reading.at # Unknown
                             /\ HostFigure = reading.free - OpenedSince - ReleasedSince
  <2>1. HostFigure = HostTerm
      BY <1>4 DEF HostFigure
  <2>2. HostIsKnown
      BY <1>1, <2>1 DEF HostTerm
  <2>. QED BY <2>1, <2>2 DEF HostTerm, HostIsKnown
<1>. QED BY <1>2, <1>3, <1>4

\* An admission is granted what is there beyond every promise, and no byte twice.
LEMMA AdmitCovers ==
    ASSUME AdmTypeOK, AdmTypeOK', OneLives, HoldersLive, Covered, Known,
           NEW p \in Process, NEW r \in Id, NEW asked \in Asked, NEW readable \in BOOLEAN,
           Admit(p, r, asked, readable)
    PROVE  Covered' /\ Known'
<1>1. /\ p \notin Holding /\ Holding' = Holding \cup {p} /\ proc'[p].hold = r
      /\ proc'[p].wrote = 0
      /\ \A q \in Holding : proc'[q] = proc[q] /\ file'[proc[q].hold] = file[proc[q].hold]
    BY AdmitWho
<1>2. PICK e : e = Estimate(asked)
    OBVIOUS
<1>3. e \in Nat /\ Admits(p, e) /\ file'[r].est = e
  <2>1. FileOf(p, e, readable).est = e
      BY DEF FileOf
  <2>. QED BY <1>2, <2>1, AdmitIs
<1>4. /\ host' = host /\ guest' = guest /\ clock' = clock /\ history' = history
      /\ reading' = (IF hostSeen THEN [free |-> host, at |-> clock] ELSE reading)
      /\ unpromised' = IF hostSeen THEN 0 ELSE unpromised
    BY DEF Admit, Assess
<1>5. Numbered' /\ Amounts /\ Amounts'
    BY TotalsBefore, AmountsBoth
<1>6. Promised'[p] = e /\ Owed'[p] = e
  <2>1. p \in Holding'
      BY <1>1
  <2>2. /\ Promised'[p] = file'[proc'[p].hold].est
        /\ Owed'[p] = Rest(file'[proc'[p].hold], proc'[p].wrote)
      BY <1>5, <2>1 DEF Numbered
  <2>3. PICK c : c = file'[r]
      OBVIOUS
  <2>4. c.est = e
      BY <1>3, <2>3
  <2>5. Promised'[p] = c.est /\ Owed'[p] = Rest(c, 0)
      BY <1>1, <2>2, <2>3
  <2>6. Rest(c, 0) = e
      BY <1>3, <2>4 DEF Rest
  <2>. QED BY <2>4, <2>5, <2>6
<1>7. \A q \in Holding : Kept(q)
    BY <1>1 DEF Kept
<1>8. PromisedSum' = PromisedSum + e /\ OwedSum' = OwedSum + e
    BY <1>1, <1>6, <1>7, HolderComes
<1>9. PICK R : R = Reserved(proc[p].ns)
    OBVIOUS
<1>10. /\ PromisedSum <= R /\ R \in Nat /\ Effective # Unknown
       /\ Effective - R - e >= Reserve
    BY <1>3, <1>9, HoldsAreCounted DEF Admits
<1>11. PICK h, g, u, v, q, f, t, s, d, x, m :
          /\ h = host /\ g = guest /\ u = unpromised /\ v = ReleasedSince /\ q = PromisedSum
          /\ f = reading.free /\ t = OwedSum /\ s = Reserve /\ d = OpenedSince
          /\ x = Effective /\ m = Min({host, guest})
    OBVIOUS
<1>12. /\ h \in Nat /\ g \in Nat /\ u \in Nat /\ v \in Nat /\ q \in Nat /\ f \in Nat
       /\ t \in Nat /\ s \in Nat /\ d \in Nat /\ t <= q /\ m \in {h, g}
    BY <1>5, <1>11, FiguresAre DEF Amounts
<1>13. q <= R /\ R \in Nat /\ e \in Nat /\ x - R - e >= s
    BY <1>3, <1>10, <1>11
<1>14. CASE hostSeen
  <2>1. Known'
      BY <1>4, <1>14, KnownAnew
  <2>2. x = Min({g, h})
      BY <1>10, <1>11, <1>14, FigureIs
  <2>3. g \in Int /\ h \in Int
      BY <1>12
  <2>4. x \in {g, h} /\ x <= g /\ x <= h
      BY <2>2, <2>3, SmallerOfTwo
  <2>5. m + 0 >= s + (t + e)
      BY ONLY <1>12, <1>13, <2>4
  <2>6. Covered'
      BY <1>4, <1>8, <1>11, <1>14, <2>5 DEF Covered
  <2>. QED BY <2>1, <2>6
<1>15. CASE ~hostSeen
  <2>1. x = Min({g, f - d - v}) /\ reading.at # Unknown
      BY <1>10, <1>11, <1>15, FigureIs
  <2>2. g \in Int /\ f - d - v \in Int
      BY <1>12
  <2>3. x \in {g, f - d - v} /\ x <= g /\ x <= f - d - v
      BY <2>1, <2>2, SmallerOfTwo
  <2>4. reading.at <= clock /\ h + u + v + q >= f + t
      BY <1>11, <2>1 DEF Known
  <2>5. m + u >= s + (t + e)
      BY ONLY <1>12, <1>13, <2>3, <2>4
  <2>6. Covered'
      BY <1>4, <1>8, <1>11, <1>15, <2>5 DEF Covered
  <2>7. ReleasedSince' = v
      BY <1>4, <1>5, <1>11, <1>15 DEF Amounts
  <2>8. h + u + v + (q + e) >= f + (t + e)
      BY ONLY <1>12, <1>13, <2>4
  <2>9. Known'
      BY <1>4, <1>8, <1>11, <1>15, <2>4, <2>7, <2>8 DEF Known
  <2>. QED BY <2>6, <2>9
<1>. QED BY <1>14, <1>15

-----------------------------------------------------------------------------
(* What a closed reservation wrote is in the history                       *)

LEMMA ClosedStays ==
    ASSUME ClosedIsRecorded, history' = history,
           \A r \in Id : file'[r].at = "closed" => file[r].at = "closed"
    PROVE  ClosedIsRecorded'
<1>1. \A r : Recorded(r) => Recorded(r)'
    BY DEF Recorded
<1>. QED BY <1>1 DEF ClosedIsRecorded

LEMMA ReleaseRecords ==
    ASSUME AdmTypeOK, ClosedIsRecorded, NEW p \in Process,
           NEW outcome \in {"unwritten", "unrenamed", "closed"}, Release(p, outcome)
    PROVE  ClosedIsRecorded'
<1>1. PICK e : e = [id |-> proc[p].hold, actual |-> proc[p].wrote, closed |-> clock]
    OBVIOUS
<1>2. /\ \A s \in Id \ {proc[p].hold} : file'[s] = file[s]
      /\ \/ history' = history /\ \A s \in Id : file'[s] = file[s]
         \/ history' = Append(history, e)
    BY <1>1, ReleaseIs
<1>3. CASE history' = history /\ \A s \in Id : file'[s] = file[s]
    BY <1>3, ClosedStays
<1>4. CASE history' = Append(history, e)
  <2>1. history \in Seq(Written) /\ e \in Written
      BY <1>1, WrittenIs DEF Release
  <2>2. /\ Len(history) \in Nat /\ DOMAIN history = 1..Len(history)
        /\ DOMAIN history' = 1..Len(history) + 1
        /\ history'[Len(history) + 1] = e
        /\ \A i \in 1..Len(history) : history'[i] = history[i]
    <3>1. /\ Append(history, e) \in Seq(Written)
          /\ Len(Append(history, e)) = Len(history) + 1
        BY <2>1, AppendProperties
    <3>2. /\ \A i \in 1..Len(history) : Append(history, e)[i] = history[i]
          /\ Append(history, e)[Len(history) + 1] = e
        BY <2>1, AppendProperties
    <3>3. Len(history) \in Nat /\ DOMAIN history = 1..Len(history)
        BY <2>1, LenProperties
    <3>4. DOMAIN Append(history, e) = 1..Len(history) + 1
        BY <3>1, LenProperties
    <3>. QED BY <1>4, <3>2, <3>3, <3>4
  <2>3. ASSUME NEW s \in Id, file'[s].at = "closed" PROVE Recorded(s)'
    <3>1. CASE s = proc[p].hold
      <4>1. Len(history) + 1 \in DOMAIN history'
          BY <2>2
      <4>2. history'[Len(history) + 1].id = s
          BY <1>1, <2>2, <3>1
      <4>. QED BY <4>1, <4>2 DEF Recorded
    <3>2. CASE s # proc[p].hold
      <4>1. Recorded(s)
          BY <1>2, <2>3, <3>2 DEF ClosedIsRecorded
      <4>2. PICK i \in DOMAIN history : history[i].id = s
          BY <4>1 DEF Recorded
      <4>3. i \in DOMAIN history' /\ history'[i].id = s
          BY <2>2, <4>2
      <4>. QED BY <4>3 DEF Recorded
    <3>. QED BY <3>1, <3>2
  <2>. QED BY <2>3 DEF ClosedIsRecorded
<1>. QED BY <1>2, <1>3, <1>4

-----------------------------------------------------------------------------
(* Every step of admission keeps it                                        *)

LEMMA AdmInitHolds == AdmInit => AdmInv
<1>. SUFFICES ASSUME AdmInit PROVE AdmInv
    OBVIOUS
<1>1. AdmTypeOK
  <2>1. proc \in [Process -> ControllerRecord]
      BY DEF AdmInit, Down, ControllerRecord
  <2>2. file \in [Id -> ReservationRecord]
      BY DEF AdmInit, NoFile, ReservationRecord
  <2>3. history \in Seq([id : Id, actual : Nat, closed : Nat])
      BY DEF AdmInit
  <2>4. hostSeen \in BOOLEAN
      BY DEF AdmInit
  <2>5. /\ record \in [boot : Nat, ns : Namespace \cup {"none"}, claimed : BOOLEAN]
        /\ reading \in [free : Nat, at : Nat \cup {Unknown}]
      BY DEF AdmInit
  <2>6. /\ boot \in Nat /\ clock \in Nat /\ host \in Nat /\ guest \in Nat /\ inodes \in Nat
        /\ unpromised \in Nat /\ happened \in Nat /\ press \in -1..3
      BY FiguresAre DEF AdmInit, NoState
  <2>. QED BY <2>1, <2>2, <2>3, <2>4, <2>5, <2>6 DEF AdmTypeOK
<1>2. \A p \in Process : ~proc[p].up /\ proc[p].hold = 0
    BY DEF AdmInit, Down
<1>3. OneLives /\ HoldersLive /\ Holding = {}
    BY <1>2 DEF OneLives, HoldersLive, Holding
<1>4. GoneIsKnown
    BY DEF GoneIsKnown, AdmInit
<1>5. SpaceIsCovered
    BY <1>3 DEF SpaceIsCovered
<1>6. ClosedIsRecorded
    BY DEF ClosedIsRecorded, AdmInit, NoFile
<1>. QED BY <1>1, <1>3, <1>4, <1>5, <1>6 DEF AdmInv

\* What a step keeps, beyond the types.
Kin == OneLives' /\ HoldersLive' /\ Covered' /\ Known' /\ ClosedIsRecorded'

LEMMA AdmStepKeeps ==
    ASSUME AdmTypeOK, AdmTypeOK', OneLives, HoldersLive, Covered, Known, ClosedIsRecorded,
           [AdmNext]_admVars
    PROVE  Kin
<1>1. ASSUME NEW p \in Process, NEW i \in Pid, NEW n \in Namespace, Start(p, i, n) PROVE Kin
  <2>1. /\ OneLives' /\ HoldersLive' /\ Holding' = Holding
        /\ \A q \in Holding : proc'[q] = proc[q]
      BY <1>1, StartWho
  <2>2. /\ host' = host /\ guest' = guest /\ unpromised' = unpromised /\ clock' = clock + 1
        /\ history' = history /\ reading' = reading /\ file' = file
      BY <1>1 DEF Start
  <2>3. \A q \in Holding : Kept(q)
      BY <2>1, <2>2 DEF Kept
  <2>4. Shift(host, guest, unpromised, host', guest', unpromised')
      BY <2>2 DEF Shift
  <2>5. Covered' /\ Known'
      BY <2>1, <2>2, <2>3, <2>4, RestCovers
  <2>6. ClosedIsRecorded'
      BY <2>2, ClosedStays
  <2>. QED BY <2>1, <2>5, <2>6 DEF Kin
<1>2. ASSUME NEW p \in Process, NEW rename \in BOOLEAN, Look(p, rename) PROVE Kin
  <2>1. /\ OneLives' /\ HoldersLive'
        /\ \A r \in Id : file'[r].at = "closed" => file[r].at = "closed"
      BY <1>2, LookWho
  <2>2. Covered' /\ Known'
      BY <1>2, LookCovers
  <2>3. ClosedIsRecorded'
      BY <1>2, <2>1, ClosedStays DEF Look
  <2>. QED BY <2>1, <2>2, <2>3 DEF Kin
<1>3. ASSUME NEW p \in Process, NEW r \in Id, NEW asked \in Asked, NEW readable \in BOOLEAN,
             Admit(p, r, asked, readable)
      PROVE  Kin
  <2>1. OneLives' /\ HoldersLive'
      BY <1>3, AdmitWho
  <2>2. Covered' /\ Known'
      BY <1>3, AdmitCovers
  <2>3. \A s \in Id : file'[s].at = "closed" => file[s].at = "closed"
    <3>1. PICK w : w = FileOf(p, Estimate(asked), readable)
        OBVIOUS
    <3>2. file'[r] = w
        BY <1>3, <3>1, AdmitIs
    <3>3. w.at = "open"
        BY <3>1 DEF FileOf
    <3>4. file'[r].at = "open"
        BY <3>2, <3>3
    <3>5. \A s \in Id \ {r} : file'[s] = Scanned(proc[p].ns)[s]
        BY <1>3, AdmitIs
    <3>. QED BY <3>4, <3>5, ScanIs
  <2>4. ClosedIsRecorded'
      BY <1>3, <2>3, ClosedStays DEF Admit
  <2>. QED BY <2>1, <2>2, <2>4 DEF Kin
<1>4. ASSUME NEW p \in Process, Write(p) PROVE Kin
  <2>1. OneLives' /\ HoldersLive'
      BY <1>4, WriteWho
  <2>2. Covered' /\ Known'
      BY <1>4, WriteCovers
  <2>3. ClosedIsRecorded'
      BY <1>4, ClosedStays DEF Write, ledger
  <2>. QED BY <2>1, <2>2, <2>3 DEF Kin
<1>5. ASSUME NEW p \in Process, NEW outcome \in {"unwritten", "unrenamed", "closed"},
             Release(p, outcome)
      PROVE  Kin
    BY <1>5, ReleaseWho, ReleaseCovers, ReleaseRecords DEF Kin
<1>6. ASSUME NEW p \in Process, Killed(p) PROVE Kin
  <2>1. OneLives' /\ HoldersLive'
      BY <1>6, KilledWho
  <2>2. Covered' /\ Known'
      BY <1>6, KilledCovers
  <2>3. ClosedIsRecorded'
      BY <1>6, ClosedStays DEF Killed, ledger
  <2>. QED BY <2>1, <2>2, <2>3 DEF Kin
<1>7. ASSUME NEW p \in Process, OrphanWrites(p) PROVE Kin
  <2>1. OneLives' /\ HoldersLive' /\ Holding' = Holding /\ \A q \in Holding : Kept(q)
      BY <1>7, OrphanWho
  <2>2. /\ host' = host - 1 /\ guest' = guest - 1 /\ unpromised' = unpromised + 1
        /\ clock' = clock /\ history' = history /\ reading' = reading /\ file' = file
      BY <1>7 DEF OrphanWrites, ledger
  <2>3. Shift(host, guest, unpromised, host', guest', unpromised')
      BY <2>2 DEF Shift
  <2>4. Covered' /\ Known'
      BY <2>1, <2>2, <2>3, RestCovers
  <2>5. ClosedIsRecorded'
      BY <2>2, ClosedStays
  <2>. QED BY <2>1, <2>4, <2>5 DEF Kin
<1>8. CASE Reboot
  <2>1. Covered' /\ Known' /\ OneLives' /\ HoldersLive'
      BY <1>8, RebootCovers, RebootWho
  <2>2. ClosedIsRecorded'
      BY <1>8, ClosedStays DEF Reboot, ledger
  <2>. QED BY <2>1, <2>2 DEF Kin
<1>9. ASSUME proc' = proc, boot' = boot, file' = file \/ \E r \in Id : Damage(r),
             history' = history, reading' = reading, clock' = clock \/ clock' = clock + 1,
             Shift(host, guest, unpromised, host', guest', unpromised')
      PROVE  Kin
  <2>1. /\ OneLives' /\ HoldersLive' /\ Holding' = Holding /\ \A q \in Holding : Kept(q)
        /\ \A r \in Id : file'[r].at = "closed" => file[r].at = "closed"
      BY <1>9, OtherWho
  <2>2. Covered' /\ Known'
      BY <1>9, <2>1, RestCovers
  <2>3. ClosedIsRecorded'
      BY <1>9, <2>1, ClosedStays
  <2>. QED BY <2>1, <2>2, <2>3 DEF Kin
<1>10. ASSUME NEW d \in {-1, 1}, Foreign(d) PROVE Kin
  <2>1. Shift(host, guest, unpromised, host', guest', unpromised')
    <3>1. host \in Nat /\ unpromised \in Nat
        BY DEF AdmTypeOK
    <3>2. guest' = guest /\ host' = host + d /\ unpromised' = unpromised + IF d < 0 THEN -d ELSE 0
        BY <1>10 DEF Foreign
    <3>3. \/ host' = host - 1 /\ unpromised' = unpromised + 1
          \/ host' = host + 1 /\ unpromised' = unpromised
        BY <3>1, <3>2
    <3>. QED BY <3>2, <3>3 DEF Shift
  <2>. QED BY <1>9, <1>10, <2>1 DEF Foreign, ledger
<1>11. ASSUME \/ \E n \in {0, Inodes} : ForeignInodes(n)
              \/ \E r \in Id : Damage(r)
              \/ HostSight
              \/ AdmTick
              \/ UNCHANGED admVars
       PROVE  Kin
  <2>1. /\ host' = host /\ guest' = guest /\ unpromised' = unpromised
        /\ clock' = clock \/ clock' = clock + 1
        /\ proc' = proc /\ boot' = boot /\ history' = history /\ reading' = reading
        /\ file' = file \/ \E r \in Id : Damage(r)
      BY <1>11 DEF ForeignInodes, Damage, HostSight, AdmTick, admVars, ledger
  <2>2. Shift(host, guest, unpromised, host', guest', unpromised')
      BY <2>1 DEF Shift
  <2>. QED BY <1>9, <2>1, <2>2
<1>. QED BY <1>1, <1>2, <1>3, <1>4, <1>5, <1>6, <1>7, <1>8, <1>10, <1>11 DEF AdmNext

LEMMA AdmNextKeeps ==
    ASSUME AdmInv, [AdmNext]_admVars
    PROVE  AdmInv'
<1>1. /\ AdmTypeOK /\ OneLives /\ HoldersLive /\ ClosedIsRecorded /\ Covered /\ Known
    BY InAmounts DEF AdmInv
<1>2. AdmTypeOK'
    BY <1>1, AdmTypesKept
<1>3. Kin
    BY <1>1, <1>2, AdmStepKeeps
<1>. QED BY <1>2, <1>3, InAmountsBoth DEF AdmInv, Kin

\* The ledger of reservations, the history and the figure of the host keep step with what
\* live controllers were promised and wrote (storage_pressure.py), whoever dies, is judged
\* stale, damages a file or takes the host from sight.
THEOREM AdmIsSound == AdmSpec => []AdmInv
BY AdmInitHolds, AdmNextKeeps, PTL DEF AdmSpec

\* No byte is promised twice, no live reservation is judged stale, and what a closed one
\* wrote is on record (reserve, _host_term, _is_stale, release).
THEOREM SpaceIsAlwaysAccounted == AdmSpec => []SpaceIsAccounted
<1>1. AdmInv => SpaceIsAccounted
  <2>. SUFFICES ASSUME AdmInv PROVE SpaceIsAccounted
      OBVIOUS
  <2>1. LiveIsCounted
      BY DEF AdmInv, LiveIsCounted, HoldersLive, InItsName, Holding
  <2>. QED BY <2>1 DEF AdmInv, SpaceIsAccounted, LedgerIsTrue
<1>. QED BY <1>1, AdmIsSound, PTL
=============================================================================
