--------------------------- MODULE LiveCellProofs ---------------------------
(***************************************************************************)
(* Theorems about one live cell, for every fixture, every set of child     *)
(* reports and every set of parent answers.  They all follow from IInv,    *)
(* which is proved conjunct by conjunct, each by cases on the actions and  *)
(* from what the operators of TraceGuard guarantee.                        *)
(***************************************************************************)
EXTENDS LiveCell, TLAPS

-----------------------------------------------------------------------------
(* The gate's operators, for every fixture, manifest and synthesis         *)

\* Only facts of the fixture manifest are ever fresh evidence.
LEMMA FreshIsRetained ==
  ASSUME NEW told
  PROVE  FreshManifest(told) \in SUBSET RetainedFacts
BY DEF FreshManifest

\* A synthesis that validate_parent_synthesis accepts makes a claim, and each
\* of its claims cites the home chunk of a manifest fact.
LEMMA AcceptedIsBacked ==
  ASSUME NEW s, NEW m, Accepted(s, m)
  PROVE  BackedBy(s, m)
<1>1. Claims(s) # {}
  <2>1. CASE OrphanHandles(s) = {}
    BY <2>1 DEF Accepted, RejectionReasons
  <2>2. CASE OrphanHandles(s) # {}
    BY <2>2 DEF Accepted, RejectionReasons
  <2>3. QED
    BY <2>1, <2>2
<1>2. ASSUME NEW c \in Claims(s)
      PROVE  c[2] \in m /\ s[c[1]].handle = HomeChunk[c[2]]
  <2>1. Reason(s, m, c[1], c[2]) = "accepted"
    BY DEF Accepted, RejectionReasons
  <2>2. QED
    BY <2>1 DEF Reason
<1>3. QED
  BY <1>1, <1>2 DEF BackedBy

\* A synthesis that is sent to repair makes a claim, and each of its claims
\* names a manifest fact and either cites its home chunk or misses a handle.
LEMMA EligibleOnlyMisses ==
  ASSUME NEW s, NEW m, NEW told, RepairEligible(s, m, told)
  PROVE  /\ Claims(s) # {}
         /\ \A c \in Claims(s) :
              c[2] \in m /\ s[c[1]].handle \in {Missing, HomeChunk[c[2]]}
<1>1. RejectionReasons(s, m) = {"missing_evidence_handle"}
  BY DEF RepairEligible
<1>2. Claims(s) # {}
  BY <1>1 DEF RejectionReasons
<1>3. ASSUME NEW c \in Claims(s)
      PROVE  c[2] \in m /\ s[c[1]].handle \in {Missing, HomeChunk[c[2]]}
  <2>1. Reason(s, m, c[1], c[2]) \in {"accepted", "missing_evidence_handle"}
    BY <1>1 DEF RejectionReasons
  <2>2. CASE Reason(s, m, c[1], c[2]) = "accepted"
    BY <2>2 DEF Reason
  <2>3. CASE Reason(s, m, c[1], c[2]) = "missing_evidence_handle"
    BY <2>3 DEF RepairEligible, MissingHandlesResolved, MissingHandleReferences
  <2>4. QED
    BY <2>1, <2>2, <2>3
<1>4. QED
  BY <1>2, <1>3

\* A synthesis is a function from its paths to entries.
LEMMA SynthesisEntries ==
  ASSUME NEW s \in Synthesis
  PROVE  /\ DOMAIN s \in SUBSET Paths
         /\ s \in [DOMAIN s -> Entry]
BY DEF Synthesis

\* A synthesis with no fidelity error differs from the original in missing
\* handles only, each filled with the home chunk of every fact of its entry.
LEMMA FaithfulIsSameButFilled ==
  ASSUME NEW s \in Synthesis, NEW t \in Synthesis, NEW m, NEW told,
         PatchFidelity(s, m, told, t)
  PROVE  SameButFilled(s, t)
<1>1. DOMAIN t = DOMAIN s
  BY DEF PatchFidelity
<1>2. ASSUME NEW p \in DOMAIN s
      PROVE  \/ t[p] = s[p]
             \/ /\ s[p].handle = Missing
                /\ t[p] = [s[p] EXCEPT !.handle = t[p].handle]
                /\ \A f \in s[p].facts : t[p].handle = HomeChunk[f]
  <2>1. s[p] \in Entry /\ t[p] \in Entry
    BY <1>1, SynthesisEntries
  <2>2. FaithfulEntry(s, m, told, t, p)
    BY DEF PatchFidelity
  <2>3. CASE t[p].handle = s[p].handle
    BY <2>1, <2>2, <2>3 DEF FaithfulEntry, Entry
  <2>4. CASE /\ \E c \in MissingHandleReferences(s, m) : c[1] = p
             /\ \A f \in s[p].facts : AllowedHandle(m, told, f, t[p].handle)
    <3>1. s[p].handle = Missing
      BY <2>4 DEF MissingHandleReferences
    <3>2. t[p] = [s[p] EXCEPT !.handle = t[p].handle]
      BY <2>1, <2>2 DEF FaithfulEntry, Entry
    <3>3. QED
      BY <2>4, <3>1, <3>2 DEF AllowedHandle
  <2>5. QED
    BY <2>2, <2>3, <2>4 DEF FaithfulEntry
<1>3. QED
  BY <1>1, <1>2 DEF SameButFilled

\* The repair only writes chunk ids into the original synthesis.
LEMMA RepairedIsSynthesis ==
  ASSUME NEW s \in Synthesis, NEW m, NEW told, NEW response \in Synthesis
  PROVE  ApplyRepair(s, m, told, response) \in Synthesis
<1>1. ASSUME NEW p \in DOMAIN s
      PROVE  [s[p] EXCEPT !.handle = FilledHandle(s, m, told, response, p)]
               \in Entry
  <2>1. s[p] \in Entry
    BY SynthesisEntries
  <2>2. p \in DOMAIN response => response[p] \in Entry
    BY SynthesisEntries
  <2>3. FilledHandle(s, m, told, response, p) \in Chunks \cup {Missing, Malformed}
    BY <2>1, <2>2 DEF FilledHandle, Entry
  <2>4. QED
    BY <2>1, <2>3 DEF Entry
<1>2. ApplyRepair(s, m, told, response) \in [DOMAIN s -> Entry]
  BY <1>1 DEF ApplyRepair
<1>3. QED
  BY <1>2, SynthesisEntries DEF Synthesis

-----------------------------------------------------------------------------
(* The inductive invariant                                                 *)

\* Before the parent answers nothing but child records exists.
BeforeGateInv ==
  /\ phase \in {"start", "child", "parent"} =>
       /\ original = NoSynthesis
       /\ repairAttempts = 0
       /\ repairAccept = "unset"
       /\ retryAccept = "unset"
       /\ memory = {}
       /\ calls = Len(records)
  /\ phase = "start" => records = << >>
  /\ phase = "child" => Len(records) < Len(ChildOrder)
  /\ phase = "parent" => Len(records) = Len(ChildOrder)

\* The parent has answered, and every call since was recorded in the repair
\* block.
Gated ==
  /\ manifest = FreshManifest(records)
  /\ accepted = Accepted(effective, manifest)
  /\ repairAttempts = 0 => repairAccept = "unset"
  /\ repairAccept # "yes" => retryAccept = "unset"
  /\ repairAccept = "unset" => effective = original
  /\ retryAccept = "yes" => PatchFidelity(original, manifest, records, effective)

GateInv ==
  /\ phase \in {"repair", "retry", "conclude"} =>
       /\ Gated
       /\ memory = {}
  /\ phase = "repair" =>
       /\ repairAttempts = 1
       /\ repairAccept = "unset"
       /\ calls = Len(ChildOrder) + 1
  /\ phase = "retry" =>
       /\ repairAccept = "yes"
       /\ retryAccept = "unset"
       /\ calls = Len(ChildOrder) + 2
  /\ phase = "conclude" =>
       /\ calls <= Len(ChildOrder) + 1 + 2 * repairAttempts
       /\ repairAccept = "yes" => calls = Len(ChildOrder) + 3

RepairInv == repairAttempts > 0 => /\ manifest = FreshManifest(records)
                                   /\ RepairEligible(original, manifest, records)

DoneInv ==
  /\ phase = "done" <=> verdict # "none"
  /\ phase = "done" => CallBudget
  /\ verdict = "pass" => Gated /\ MandatoryPass
  /\ memory # {} =>
       /\ Gated
       /\ memory \subseteq Observations
       /\ repairAccept = "yes" => calls = Len(ChildOrder) + 3

IInv == TypeOK /\ BeforeGateInv /\ GateInv /\ RepairInv /\ DoneInv

-----------------------------------------------------------------------------
(* The cell                                                                *)

\* The synthesis without entries, which stands for an answer not yet given, is a
\* synthesis.
LEMMA NoSynthesisIsSynthesis == NoSynthesis \in Synthesis
BY DEF NoSynthesis, Synthesis

\* A cell that has not started satisfies the strengthened invariant.
LEMMA InitIInv == Init => IInv
<1> SUFFICES ASSUME Init PROVE IInv
  OBVIOUS
<1> USE CellAssumption DEF Init
<1>1. TypeOK
  <2>1. records \in Seq(ChildRecord)
    OBVIOUS
  <2>2. repairAttempts \in 0 .. MaxRepairAttempts
    BY DEF MaxRepairAttempts
  <2>3. QED
    BY <2>1, <2>2, NoSynthesisIsSynthesis
    DEF TypeOK, Phases, Decision, Verdicts, InfraFailures
<1>2. BeforeGateInv /\ GateInv /\ RepairInv /\ DoneInv
  BY DEF BeforeGateInv, GateInv, RepairInv, DoneInv
<1>3. QED
  BY <1>1, <1>2 DEF IInv

\* Every step of the cell keeps the variables within their types.
LEMMA TypeStep ==
  ASSUME IInv, [Next]_vars
  PROVE  TypeOK'
<1> USE CellAssumption DEF IInv, TypeOK, MaxRepairAttempts, Phases, Decision,
                           Verdicts, InfraFailures, repairVars, Decide
<1>1. CASE Start
  BY <1>1 DEF Start
<1>2. CASE StartFails
  BY <1>2 DEF StartFails
<1>3. ASSUME NEW report \in Reports, ChildAnswers(report)
      PROVE  TypeOK'
  <2>1. Len(records) + 1 \in 1 .. Len(ChildOrder)
    BY <1>3 DEF ChildAnswers, BeforeGateInv
  <2>2. [chunk |-> ChildOrder[Len(records) + 1], report |-> report]
          \in ChildRecord
    BY <2>1 DEF ChildRecord
  <2>3. QED
    BY <1>3, <2>2 DEF ChildAnswers
<1>4. ASSUME NEW class \in InfraFailures, CallAborts(class)
      PROVE  TypeOK'
  BY <1>4 DEF CallAborts
<1>5. ASSUME NEW s \in Syntheses, ParentAnswers(s)
      PROVE  TypeOK'
  BY <1>5, FreshIsRetained DEF ParentAnswers, CanAttemptRepair, Accepted
<1>6. ASSUME NEW s \in Syntheses, RepairAnswers(s)
      PROVE  TypeOK'
  BY <1>6, RepairedIsSynthesis DEF RepairAnswers, Accepted
<1>7. CASE RepairFails
  BY <1>7 DEF RepairFails
<1>8. ASSUME NEW s \in Syntheses, RetryAnswers(s)
      PROVE  TypeOK'
  BY <1>8 DEF RetryAnswers, Accepted
<1>9. CASE RetryFails
  BY <1>9 DEF RetryFails
<1>10. CASE Conclude
  BY <1>10 DEF Conclude, Observations
<1>11. ASSUME NEW part \in SUBSET Kinds, StoreFails(part)
       PROVE  TypeOK'
  BY <1>11 DEF StoreFails
<1>12. CASE UNCHANGED vars
  BY <1>12 DEF vars
<1>13. QED
  BY <1>1, <1>2, <1>3, <1>4, <1>5, <1>6, <1>7, <1>8, <1>9, <1>10, <1>11,
     <1>12 DEF Next

\* Up to the parent answer nothing but child records and calls accumulates.
LEMMA BeforeGateStep ==
  ASSUME IInv, [Next]_vars
  PROVE  BeforeGateInv'
<1> USE CellAssumption DEF IInv, TypeOK, BeforeGateInv, repairVars, Phases
<1>1. CASE Start
  BY <1>1 DEF Start
<1>2. CASE StartFails
  BY <1>2 DEF StartFails
<1>3. ASSUME NEW report \in Reports, ChildAnswers(report)
      PROVE  BeforeGateInv'
  BY <1>3 DEF ChildAnswers
<1>4. ASSUME NEW class \in InfraFailures, CallAborts(class)
      PROVE  BeforeGateInv'
  BY <1>4 DEF CallAborts
<1>5. ASSUME NEW s \in Syntheses, ParentAnswers(s)
      PROVE  BeforeGateInv'
  BY <1>5 DEF ParentAnswers
<1>6. ASSUME NEW s \in Syntheses, RepairAnswers(s)
      PROVE  BeforeGateInv'
  BY <1>6 DEF RepairAnswers
<1>7. CASE RepairFails
  BY <1>7 DEF RepairFails
<1>8. ASSUME NEW s \in Syntheses, RetryAnswers(s)
      PROVE  BeforeGateInv'
  BY <1>8 DEF RetryAnswers
<1>9. CASE RetryFails
  BY <1>9 DEF RetryFails
<1>10. CASE Conclude
  BY <1>10 DEF Conclude
<1>11. ASSUME NEW part \in SUBSET Kinds, StoreFails(part)
       PROVE  BeforeGateInv'
  BY <1>11 DEF StoreFails
<1>12. CASE UNCHANGED vars
  BY <1>12 DEF vars
<1>13. QED
  BY <1>1, <1>2, <1>3, <1>4, <1>5, <1>6, <1>7, <1>8, <1>9, <1>10, <1>11,
     <1>12 DEF Next

\* Every step keeps the facts that tie the parent answer, its validation, the
\* repair and the retry to each other once the gate has run.
LEMMA GateStep ==
  ASSUME IInv, [Next]_vars
  PROVE  GateInv'
<1> USE CellAssumption DEF IInv, TypeOK, BeforeGateInv, GateInv, Gated,
                           repairVars, Phases, Decide, MaxRepairAttempts
<1>1. CASE Start
  BY <1>1 DEF Start
<1>2. CASE StartFails
  BY <1>2 DEF StartFails
<1>3. ASSUME NEW report \in Reports, ChildAnswers(report)
      PROVE  GateInv'
  BY <1>3 DEF ChildAnswers
<1>4. ASSUME NEW class \in InfraFailures, CallAborts(class)
      PROVE  GateInv'
  BY <1>4 DEF CallAborts
<1>5. ASSUME NEW s \in Syntheses, ParentAnswers(s)
      PROVE  GateInv'
  BY <1>5 DEF ParentAnswers, CanAttemptRepair
<1>6. ASSUME NEW s \in Syntheses, RepairAnswers(s)
      PROVE  GateInv'
  BY <1>6 DEF RepairAnswers
<1>7. CASE RepairFails
  BY <1>7 DEF RepairFails
<1>8. ASSUME NEW s \in Syntheses, RetryAnswers(s)
      PROVE  GateInv'
  BY <1>8 DEF RetryAnswers
<1>9. CASE RetryFails
  BY <1>9 DEF RetryFails
<1>10. CASE Conclude
  BY <1>10 DEF Conclude
<1>11. ASSUME NEW part \in SUBSET Kinds, StoreFails(part)
       PROVE  GateInv'
  BY <1>11 DEF StoreFails
<1>12. CASE UNCHANGED vars
  BY <1>12 DEF vars
<1>13. QED
  BY <1>1, <1>2, <1>3, <1>4, <1>5, <1>6, <1>7, <1>8, <1>9, <1>10, <1>11,
     <1>12 DEF Next

\* Every step keeps a recorded attempt tied to an eligible original answer.
LEMMA RepairStep ==
  ASSUME IInv, [Next]_vars
  PROVE  RepairInv'
<1> USE CellAssumption DEF IInv, TypeOK, BeforeGateInv, GateInv, Gated,
                           RepairInv, repairVars, Phases, MaxRepairAttempts
<1>1. CASE Start
  BY <1>1 DEF Start
<1>2. CASE StartFails
  BY <1>2 DEF StartFails
<1>3. ASSUME NEW report \in Reports, ChildAnswers(report)
      PROVE  RepairInv'
  BY <1>3 DEF ChildAnswers
<1>4. ASSUME NEW class \in InfraFailures, CallAborts(class)
      PROVE  RepairInv'
  BY <1>4 DEF CallAborts
<1>5. ASSUME NEW s \in Syntheses, ParentAnswers(s)
      PROVE  RepairInv'
  BY <1>5 DEF ParentAnswers, CanAttemptRepair
<1>6. ASSUME NEW s \in Syntheses, RepairAnswers(s)
      PROVE  RepairInv'
  BY <1>6 DEF RepairAnswers
<1>7. CASE RepairFails
  BY <1>7 DEF RepairFails
<1>8. ASSUME NEW s \in Syntheses, RetryAnswers(s)
      PROVE  RepairInv'
  BY <1>8 DEF RetryAnswers
<1>9. CASE RetryFails
  BY <1>9 DEF RetryFails
<1>10. CASE Conclude
  BY <1>10 DEF Conclude
<1>11. ASSUME NEW part \in SUBSET Kinds, StoreFails(part)
       PROVE  RepairInv'
  BY <1>11 DEF StoreFails
<1>12. CASE UNCHANGED vars
  BY <1>12 DEF vars
<1>13. QED
  BY <1>1, <1>2, <1>3, <1>4, <1>5, <1>6, <1>7, <1>8, <1>9, <1>10, <1>11,
     <1>12 DEF Next

\* Every step keeps the facts about a decided cell: its verdict, its memory
\* write and its calls.
LEMMA DoneStep ==
  ASSUME IInv, [Next]_vars
  PROVE  DoneInv'
<1> USE CellAssumption DEF IInv, TypeOK, BeforeGateInv, GateInv, DoneInv,
                           Gated, CallBudget, repairVars, Phases, Verdicts,
                           InfraFailures
<1>1. CASE Start
  BY <1>1 DEF Start
<1>2. CASE StartFails
  BY <1>2 DEF StartFails
<1>3. ASSUME NEW report \in Reports, ChildAnswers(report)
      PROVE  DoneInv'
  BY <1>3 DEF ChildAnswers
<1>4. ASSUME NEW class \in InfraFailures, CallAborts(class)
      PROVE  DoneInv'
  BY <1>4 DEF CallAborts
<1>5. ASSUME NEW s \in Syntheses, ParentAnswers(s)
      PROVE  DoneInv'
  BY <1>5 DEF ParentAnswers
<1>6. ASSUME NEW s \in Syntheses, RepairAnswers(s)
      PROVE  DoneInv'
  BY <1>6 DEF RepairAnswers
<1>7. CASE RepairFails
  BY <1>7 DEF RepairFails
<1>8. ASSUME NEW s \in Syntheses, RetryAnswers(s)
      PROVE  DoneInv'
  BY <1>8 DEF RetryAnswers
<1>9. CASE RetryFails
  BY <1>9 DEF RetryFails
<1>10. CASE Conclude
  BY <1>10 DEF Conclude, MandatoryPass, RetryPass, CoveragePass,
                   FreshChildEvidencePass, Observations
<1>11. ASSUME NEW part \in SUBSET Kinds, StoreFails(part)
       PROVE  DoneInv'
  BY <1>11 DEF StoreFails, Observations
<1>12. CASE UNCHANGED vars
  BY <1>12 DEF vars, MandatoryPass, RetryPass, CoveragePass,
               FreshChildEvidencePass, Observations
<1>13. QED
  BY <1>1, <1>2, <1>3, <1>4, <1>5, <1>6, <1>7, <1>8, <1>9, <1>10, <1>11,
     <1>12 DEF Next

\* The strengthened invariant the theorems below read off.
THEOREM IInvariant == Spec => []IInv
<1>1. IInv /\ [Next]_vars => IInv'
  BY TypeStep, BeforeGateStep, GateStep, RepairStep, DoneStep DEF IInv
<1>2. QED
  BY InitIInv, <1>1, PTL DEF Spec

\* The variables only ever hold values of their types.
THEOREM TypeCorrect == Spec => []TypeOK
<1>1. IInv => TypeOK
  BY DEF IInv
<1>2. QED
  BY <1>1, IInvariant, PTL

-----------------------------------------------------------------------------

\* The effective synthesis of a gated cell that accepted it is the original
\* one with nothing but missing handles filled in.
LEMMA GatedKeepsTheDraft ==
  ASSUME TypeOK, Gated, repairAccept # "no", RetryPass
  PROVE  SameButFilled(original, effective)
<1>1. CASE repairAccept = "unset"
  BY <1>1 DEF Gated, SameButFilled
<1>2. CASE repairAccept = "yes"
  <2>1. PatchFidelity(original, manifest, records, effective)
    BY <1>2 DEF Gated, RetryPass
  <2>2. QED
    BY <2>1, FaithfulIsSameButFilled DEF TypeOK
<1>3. QED
  BY <1>1, <1>2 DEF TypeOK, Decision

\* The strengthened invariant is enough for both promises about a passed cell.
LEMMA IInvBacks == IInv => PassIsBacked /\ PassKeepsTheDraft
<1> SUFFICES ASSUME IInv, verdict = "pass"
             PROVE  /\ BackedBy(effective, FreshManifest(records))
                    /\ FreshManifest(records) = RetainedFacts
                    /\ CoveragePass
                    /\ SameButFilled(original, effective)
  BY DEF PassIsBacked, PassKeepsTheDraft
<1>1. Gated /\ MandatoryPass
  BY DEF IInv, DoneInv
<1>2. BackedBy(effective, manifest)
  BY <1>1, AcceptedIsBacked DEF Gated, MandatoryPass
<1>3. SameButFilled(original, effective)
  BY <1>1, GatedKeepsTheDraft DEF IInv, MandatoryPass
<1>4. QED
  BY <1>1, <1>2, <1>3 DEF Gated, MandatoryPass, FreshChildEvidencePass

\* No cell passes unless its effective answer is backed, claim by claim, by
\* complete evidence its own children reported.
THEOREM PassedCellIsBacked == Spec => []PassIsBacked
<1>1. QED
  BY IInvBacks, IInvariant, PTL

\* No repair and no retry gets a cell to pass with an answer that differs from
\* the first one in more than filled-in missing handles.
THEOREM PassedCellKeepsTheDraft == Spec => []PassKeepsTheDraft
<1>1. QED
  BY IInvBacks, IInvariant, PTL

\* A repair is only attempted for an answer all of whose claims name reported
\* facts.
THEOREM RepairIsNarrow == Spec => []RepairOnlyWhatMissesHandles
<1>1. IInv => RepairOnlyWhatMissesHandles
  BY EligibleOnlyMisses DEF IInv, RepairInv, RepairOnlyWhatMissesHandles
<1>2. QED
  BY <1>1, IInvariant, PTL

\* A cell never exceeds its budget of provider calls.
THEOREM CallsAreBounded == Spec => []CallBudget
<1>1. ASSUME IInv PROVE CallBudget
  <2> USE <1>1, CellAssumption DEF IInv, CallBudget
  <2>1. /\ calls \in Nat /\ Len(records) \in Nat /\ Len(ChildOrder) \in Nat
        /\ repairAttempts \in {0, 1}
    BY DEF TypeOK, MaxRepairAttempts
  <2>2. CASE phase \in {"start", "child", "parent"}
    <3>1. Len(records) <= Len(ChildOrder)
      BY <2>1, <2>2 DEF BeforeGateInv
    <3>2. QED
      BY <2>1, <2>2, <3>1 DEF BeforeGateInv
  <2>3. CASE phase \in {"repair", "retry", "conclude"}
    BY <2>1, <2>3 DEF GateInv, Gated
  <2>4. CASE phase = "done"
    BY <2>4 DEF DoneInv
  <2>5. QED
    BY <2>2, <2>3, <2>4 DEF TypeOK, Phases
<1>2. QED
  BY <1>1, IInvariant, PTL

\* What a cell leaves in the operational memory agrees with how it ended.
THEOREM MemoryIsHonest == Spec => []MemoryAgreesWithCell
<1>1. ASSUME IInv PROVE MemoryAgreesWithCell
  <2>1. CASE memory = {}
    BY <2>1 DEF MemoryAgreesWithCell
  <2>2. CASE memory # {}
    <3>1. /\ Gated
          /\ memory \subseteq Observations
          /\ repairAccept = "yes" => calls = Len(ChildOrder) + 3
      BY <1>1, <2>2 DEF IInv, DoneInv
    <3>2. "provider_schema_stability" \in memory =>
             BackedBy(effective, FreshManifest(records))
      BY <3>1, AcceptedIsBacked DEF Observations, Gated
    <3>3. verdict = "pass" => repairAccept # "no"
      BY <1>1 DEF IInv, DoneInv, MandatoryPass
    <3>4. QED
      BY <3>1, <3>2, <3>3 DEF MemoryAgreesWithCell, Observations, Gated
  <2>3. QED
    BY <2>1, <2>2
<1>2. QED
  BY <1>1, IInvariant, PTL

-----------------------------------------------------------------------------
(* The cell implements the evidence gate                                   *)

\* The operators of the abstract gate are those of TraceGuard, over the same
\* constants.
LEMMA GateOperators ==
  /\ Gate!Synthesis = Synthesis
  /\ Gate!NoSynthesis = NoSynthesis
  /\ \A s, m : Gate!BackedBy(s, m) <=> BackedBy(s, m)
  /\ \A s, t : Gate!SameButFilled(s, t) <=> SameButFilled(s, t)
BY DEF Gate!Synthesis, Synthesis, Gate!Entry, Entry, Gate!NoSynthesis,
       NoSynthesis, Gate!BackedBy, BackedBy, Gate!Claims, Claims,
       Gate!SameButFilled, SameButFilled

\* A cell that has not started is an open gate without evidence.
LEMMA InitImplementsGate == Init => Gate!Init
<1> SUFFICES ASSUME Init PROVE Gate!Init
  OBVIOUS
<1>1. FreshManifest(records) = {}
  BY DEF Init, FreshManifest
<1>2. QED
  BY <1>1, GateOperators DEF Init, Gate!Init

\* Appending a child record only adds evidence.
LEMMA EvidenceGrows ==
  ASSUME NEW record \in ChildRecord, records \in Seq(ChildRecord)
  PROVE  FreshManifest(records) \subseteq FreshManifest(Append(records, record))
<1> DEFINE new == Append(records, record)
<1>1. \A i \in DOMAIN records : i \in DOMAIN new /\ new[i] = records[i]
  OBVIOUS
<1> HIDE DEF new
<1>2. FreshManifest(records) \subseteq FreshManifest(new)
  BY <1>1 DEF FreshManifest
<1>3. QED
  BY <1>2 DEF new

\* Every step of a cell is a step of the gate or leaves it unchanged.
LEMMA StepImplementsGate ==
  ASSUME IInv, IInv', [Next]_vars
  PROVE  [Gate!Next]_(Gate!vars)
<1> USE DEF Gate!vars, repairVars
<1>1. CASE Start
  BY <1>1 DEF Start
<1>2. CASE StartFails
  <2>1. verdict = "none"
    BY <1>2 DEF StartFails, IInv, DoneInv
  <2>2. Gate!Close
    BY <1>2, <2>1 DEF StartFails, Gate!Close
  <2>3. QED
    BY <2>2 DEF Gate!Next
<1>3. ASSUME NEW report \in Reports, ChildAnswers(report)
      PROVE  Gate!Gather
  <2>1. verdict = "none" /\ original = NoSynthesis
    BY <1>3 DEF ChildAnswers, IInv, DoneInv, BeforeGateInv
  <2>2. [chunk |-> ChildOrder[Len(records) + 1], report |-> report]
          \in ChildRecord
    BY <1>3, CellAssumption
    DEF ChildAnswers, IInv, TypeOK, BeforeGateInv, ChildRecord
  <2>3. FreshManifest(records) \subseteq FreshManifest(records')
    BY <1>3, <2>2, EvidenceGrows DEF ChildAnswers, IInv, TypeOK
  <2>4. FreshManifest(records') \in SUBSET RetainedFacts
    BY FreshIsRetained
  <2>5. QED
    BY <1>3, <2>1, <2>3, <2>4, GateOperators DEF ChildAnswers, Gate!Gather
<1>4. ASSUME NEW class \in InfraFailures, CallAborts(class)
      PROVE  Gate!Close
  <2>1. verdict = "none"
    BY <1>4 DEF CallAborts, IInv, DoneInv
  <2>2. QED
    BY <1>4, <2>1 DEF CallAborts, InfraFailures, Gate!Close
<1>5. ASSUME NEW s \in Syntheses, ParentAnswers(s)
      PROVE  Gate!Propose
  <2>1. verdict = "none" /\ original = NoSynthesis
    BY <1>5 DEF ParentAnswers, IInv, DoneInv, BeforeGateInv
  <2>2. QED
    BY <1>5, <2>1, GateOperators, CellAssumption
    DEF ParentAnswers, Gate!Propose
<1>6. ASSUME NEW s \in Syntheses, RepairAnswers(s)
      PROVE  UNCHANGED Gate!vars
  <2>1. verdict # "pass"
    BY <1>6 DEF RepairAnswers, IInv, DoneInv
  <2>2. QED
    BY <1>6, <2>1 DEF RepairAnswers
<1>7. CASE RepairFails
  BY <1>7 DEF RepairFails
<1>8. ASSUME NEW s \in Syntheses, RetryAnswers(s)
      PROVE  UNCHANGED Gate!vars
  <2>1. verdict # "pass"
    BY <1>8 DEF RetryAnswers, IInv, DoneInv
  <2>2. QED
    BY <1>8, <2>1 DEF RetryAnswers
<1>9. CASE RetryFails
  BY <1>9 DEF RetryFails
<1>10. CASE Conclude
  <2>1. verdict = "none"
    BY <1>10 DEF Conclude, IInv, DoneInv
  <2>2. CASE MandatoryPass
    <3>1. /\ BackedBy(effective, FreshManifest(records))
          /\ FreshManifest(records) = RetainedFacts
          /\ SameButFilled(original, effective)
      <4>1. Gated
        BY <1>10 DEF Conclude, IInv, GateInv
      <4>2. BackedBy(effective, manifest)
        BY <2>2, <4>1, AcceptedIsBacked DEF Gated, MandatoryPass
      <4>3. SameButFilled(original, effective)
        BY <2>2, <4>1, GatedKeepsTheDraft DEF IInv, MandatoryPass
      <4>4. QED
        BY <2>2, <4>1, <4>2, <4>3
        DEF Gated, MandatoryPass, FreshChildEvidencePass
    <3>2. effective \in Synthesis
      BY DEF IInv, TypeOK
    <3>3. Gate!Admit
      BY <1>10, <2>1, <2>2, <3>1, <3>2, GateOperators DEF Conclude, Gate!Admit
    <3>4. QED
      BY <3>3 DEF Gate!Next
  <2>3. CASE ~ MandatoryPass
    <3>1. Gate!Close
      BY <1>10, <2>1, <2>3 DEF Conclude, Gate!Close
    <3>2. QED
      BY <3>1 DEF Gate!Next
  <2>4. QED
    BY <2>2, <2>3
<1>11. ASSUME NEW part \in SUBSET Kinds, StoreFails(part)
       PROVE  Gate!Close
  <2>1. verdict = "none"
    BY <1>11 DEF StoreFails, IInv, DoneInv
  <2>2. QED
    BY <1>11, <2>1 DEF StoreFails, Gate!Close
<1>12. CASE UNCHANGED vars
  BY <1>12 DEF vars
<1>13. QED
  BY <1>1, <1>2, <1>3, <1>4, <1>5, <1>6, <1>7, <1>8, <1>9, <1>10, <1>11,
     <1>12 DEF Next, Gate!Next

\* A live cell implements evidence-gated parent synthesis.
THEOREM CellRefinesGate == Spec => CellImplementsGate
<1>1. IInv /\ IInv' /\ [Next]_vars => [Gate!Next]_(Gate!vars)
  BY StepImplementsGate
<1>2. QED
  BY InitImplementsGate, <1>1, IInvariant, PTL
  DEF Spec, CellImplementsGate, Gate!Spec

=============================================================================
