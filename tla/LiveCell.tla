------------------------------ MODULE LiveCell ------------------------------
(***************************************************************************)
(* One cell of the live portability matrix:                                *)
(* egri/live_portability.py, _run_live_rlm_traceguard_cell.                *)
(*                                                                         *)
(* The cell recalls operational memory, calls the provider once per        *)
(* selected chunk, calls it for the parent synthesis, runs TraceGuard on   *)
(* the answer against the evidence these children reported, may ask for    *)
(* one repair of missing evidence handles and, when that is accepted, for  *)
(* one new parent synthesis, decides the cell and writes observations to   *)
(* the memory.  Every provider call answers, fails or times out; what it   *)
(* answers is any element of Reports or Syntheses.  An action is the code  *)
(* between two awaits.                                                     *)
(***************************************************************************)
EXTENDS TraceGuard

CONSTANTS
  ChildOrder,      \* the selected chunks in the order the target lists them
  SelectedChunks,  \* the fixture's selected_chunk_ids
  Reports,         \* what a child may answer: sets of observed facts
  Syntheses,       \* what a parent, repair or retry call may answer
  CanWrite         \* the memory mode is write or read-write

ASSUME CellAssumption ==
  /\ ChildOrder \in Seq(Chunks)
  /\ SelectedChunks \subseteq Chunks
  /\ Reports \subseteq SUBSET ObservedFact
  /\ Syntheses \subseteq Synthesis
  /\ CanWrite \in BOOLEAN

MaxRepairAttempts == 1

VARIABLES
  phase,     \* where the coroutine stands
  calls,     \* provider calls made
  records,   \* child_records
  original,  \* parent_output
  manifest,  \* the fresh child evidence manifest
  effective, \* effective_parent_output
  accepted,  \* effective_validation.accepted
  initialAccept,   \* initial_accept of the repair block
  repairAttempts,  \* retry_state's count for this cell
  repairAccept,    \* repair_accept
  retryAccept,     \* parent_synthesis_retry_accept
  verdict,   \* the failure classification of the finished cell
  memory     \* the kinds of the observations appended to the store

repairVars == <<initialAccept, repairAttempts, repairAccept, retryAccept>>
vars == <<phase, calls, records, original, manifest, effective, accepted,
          repairVars, verdict, memory>>

Phases == {"start", "child", "parent", "repair", "retry", "conclude", "done"}
Decision == {"unset", "yes", "no"}
InfraFailures == {"infra_timeout", "infra_skip"}
Verdicts == {"none", "pass", "primary_contract_failure"} \cup InfraFailures
Kinds == {"missing_evidence_handle_seen", "repair_strategy_succeeded",
          "repair_strategy_failed", "provider_schema_stability"}

Decide(b) == IF b THEN "yes" ELSE "no"

TypeOK ==
  /\ phase \in Phases
  /\ calls \in Nat
  /\ records \in Seq(ChildRecord)
  /\ original \in Synthesis
  /\ manifest \in SUBSET RetainedFacts
  /\ effective \in Synthesis
  /\ accepted \in BOOLEAN
  /\ initialAccept \in BOOLEAN
  /\ repairAttempts \in 0 .. MaxRepairAttempts
  /\ repairAccept \in Decision
  /\ retryAccept \in Decision
  /\ verdict \in Verdicts
  /\ memory \in SUBSET Kinds

Init ==
  /\ phase = "start"
  /\ calls = 0
  /\ records = << >>
  /\ original = NoSynthesis
  /\ manifest = {}
  /\ effective = NoSynthesis
  /\ accepted = FALSE
  /\ initialAccept = FALSE
  /\ repairAttempts = 0
  /\ repairAccept = "unset"
  /\ retryAccept = "unset"
  /\ verdict = "none"
  /\ memory = {}

-----------------------------------------------------------------------------
(* The calls that gather evidence                                          *)

\* The runtime is built and, in a reading mode, the memory is recalled: the
\* priors only reach the prompts.
Start ==
  /\ phase = "start"
  /\ phase' = IF ChildOrder = << >> THEN "parent" ELSE "child"
  /\ UNCHANGED <<calls, records, original, manifest, effective, accepted,
                 repairVars, verdict, memory>>

\* The runtime cannot be built, or the store cannot be read.
StartFails ==
  /\ phase = "start"
  /\ phase' = "done"
  /\ verdict' = "infra_skip"
  /\ UNCHANGED <<calls, records, original, manifest, effective, accepted,
                 repairVars, memory>>

ChildAnswers(report) ==
  /\ phase = "child"
  /\ calls' = calls + 1
  /\ records' = Append(records, [chunk |-> ChildOrder[Len(records) + 1],
                                 report |-> report])
  /\ phase' = IF Len(records) + 1 = Len(ChildOrder) THEN "parent" ELSE "child"
  /\ UNCHANGED <<original, manifest, effective, accepted, repairVars,
                 verdict, memory>>

\* Mutant: the failure is noted and the call made again.
CallAbortsAndRepeats(class) ==
  /\ phase \in {"child", "parent"}
  /\ verdict' = class
  /\ UNCHANGED <<phase, calls, records, original, manifest, effective,
                 accepted, repairVars, memory>>

\* A child or parent call that times out, reports an error or answers with
\* something that is not a JSON object leaves the cell through the matrix
\* loop's exception handlers.
CallAborts(class) ==
  /\ phase \in {"child", "parent"}
  /\ calls' = calls + 1
  /\ phase' = "done"
  /\ verdict' = class
  /\ UNCHANGED <<records, original, manifest, effective, accepted,
                 repairVars, memory>>

-----------------------------------------------------------------------------
(* The gate and the repair                                                 *)

CoveragePass == {records[i].chunk : i \in DOMAIN records} = SelectedChunks

FreshChildEvidencePass == manifest # {} /\ manifest = RetainedFacts

CanAttemptRepair == repairAttempts < MaxRepairAttempts

\* The parent answers s: the manifest is built, s validated, and the repair
\* attempt recorded before its call is made.
ParentAnswers(s) ==
  LET m == FreshManifest(records)
      attempt == /\ CoveragePass
                 /\ RepairEligible(s, m, records)
                 /\ CanAttemptRepair
  IN
  /\ phase = "parent"
  /\ calls' = calls + 1
  /\ original' = s
  /\ manifest' = m
  /\ effective' = s
  /\ accepted' = Accepted(s, m)
  /\ initialAccept' = Accepted(s, m)
  /\ repairAttempts' = IF attempt THEN repairAttempts + 1 ELSE repairAttempts
  /\ phase' = IF attempt THEN "repair" ELSE "conclude"
  /\ UNCHANGED <<records, repairAccept, retryAccept, verdict, memory>>

RepairAccepted(response) ==
  LET patched == ApplyRepair(original, manifest, records, response)
  IN  /\ Accepted(patched, manifest)
      /\ ~ ProposesForeignHandle(original, manifest, records, response)
      /\ PatchFidelity(original, manifest, records, patched)

RepairAnswers(response) ==
  LET patched == ApplyRepair(original, manifest, records, response)
  IN
  /\ phase = "repair"
  /\ calls' = calls + 1
  /\ effective' = patched
  /\ accepted' = Accepted(patched, manifest)
  /\ repairAccept' = Decide(RepairAccepted(response))
  /\ phase' = IF RepairAccepted(response) THEN "retry" ELSE "conclude"
  /\ UNCHANGED <<records, original, manifest, initialAccept, repairAttempts,
                 retryAccept, verdict, memory>>

\* Mutant: a repair call that raises is made again.
RepairFailsAndRepeats ==
  /\ phase = "repair"
  /\ calls' = calls + 1
  /\ UNCHANGED <<phase, records, original, manifest, effective, accepted,
                 repairVars, verdict, memory>>

\* Mutant: the attempt is counted a second time when the call raises.
RepairFailsCountsAgain ==
  /\ phase = "repair"
  /\ calls' = calls + 1
  /\ repairAttempts' = repairAttempts + 1
  /\ repairAccept' = "no"
  /\ phase' = "conclude"
  /\ UNCHANGED <<records, original, manifest, effective, accepted,
                 initialAccept, retryAccept, verdict, memory>>

\* The repair call raises: the original synthesis stays the effective one.
RepairFails ==
  /\ phase = "repair"
  /\ calls' = calls + 1
  /\ repairAccept' = "no"
  /\ phase' = "conclude"
  /\ UNCHANGED <<records, original, manifest, effective, accepted,
                 initialAccept, repairAttempts, retryAccept, verdict, memory>>

RetryAnswers(s) ==
  /\ phase = "retry"
  /\ calls' = calls + 1
  /\ effective' = s
  /\ accepted' = Accepted(s, manifest)
  /\ retryAccept' = Decide(/\ Accepted(s, manifest)
                           /\ PatchFidelity(original, manifest, records, s))
  /\ phase' = "conclude"
  /\ UNCHANGED <<records, original, manifest, initialAccept, repairAttempts,
                 repairAccept, verdict, memory>>

\* The retry call raises: the repaired synthesis stays the effective one.
RetryFails ==
  /\ phase = "retry"
  /\ calls' = calls + 1
  /\ retryAccept' = "no"
  /\ phase' = "conclude"
  /\ UNCHANGED <<records, original, manifest, effective, accepted,
                 initialAccept, repairAttempts, repairAccept, verdict, memory>>

-----------------------------------------------------------------------------
(* The verdict and the memory write                                        *)

RetryPass ==
  IF repairAccept = "yes" THEN retryAccept = "yes" ELSE retryAccept # "no"

MandatoryPass ==
  /\ accepted
  /\ CoveragePass
  /\ FreshChildEvidencePass
  /\ repairAccept # "no"
  /\ RetryPass

\* Mutant: schema stability is read off the repair, not the validation.
ObservationsFromRepair ==
  {k \in Kinds :
     \/ k = "missing_evidence_handle_seen" /\ ~ initialAccept
     \/ k = "repair_strategy_succeeded" /\ repairAccept = "yes"
     \/ k = "repair_strategy_failed" /\ repairAccept = "no"
     \/ k = "provider_schema_stability" /\ repairAccept # "no"}

Observations ==
  {k \in Kinds :
     \/ k = "missing_evidence_handle_seen" /\ ~ initialAccept
     \/ k = "repair_strategy_succeeded" /\ repairAccept = "yes"
     \/ k = "repair_strategy_failed" /\ repairAccept = "no"
     \/ k = "provider_schema_stability" /\ accepted}

Conclude ==
  /\ phase = "conclude"
  /\ phase' = "done"
  /\ verdict' = IF MandatoryPass THEN "pass" ELSE "primary_contract_failure"
  /\ memory' = IF CanWrite THEN Observations ELSE memory
  /\ UNCHANGED <<calls, records, original, manifest, effective, accepted,
                 repairVars>>

\* The store raises while it appends: the decided cell is recorded as an
\* infrastructure skip, with any part of its observations on disk.
StoreFails(part) ==
  /\ phase = "conclude"
  /\ CanWrite
  /\ part \subseteq Observations
  /\ phase' = "done"
  /\ verdict' = "infra_skip"
  /\ memory' = part
  /\ UNCHANGED <<calls, records, original, manifest, effective, accepted,
                 repairVars>>

-----------------------------------------------------------------------------

Next ==
  \/ Start
  \/ StartFails
  \/ \E report \in Reports : ChildAnswers(report)
  \/ \E class \in InfraFailures : CallAborts(class)
  \/ \E s \in Syntheses : ParentAnswers(s)
  \/ \E s \in Syntheses : RepairAnswers(s)
  \/ RepairFails
  \/ \E s \in Syntheses : RetryAnswers(s)
  \/ RetryFails
  \/ Conclude
  \/ \E part \in SUBSET Kinds : StoreFails(part)

Spec == Init /\ [][Next]_vars

\* Every call is bounded by asyncio.wait_for and the rest is straight-line
\* code, so a cell that can go on does.
FairSpec == Spec /\ WF_vars(Next)

-----------------------------------------------------------------------------
(* Properties                                                              *)

\* A passed cell's answer makes at least one claim, and each of its claims
\* cites the home chunk of a retained fact that a child of this very run
\* reported with the right chunk and text; and no retained fact went
\* unreported.  (mandatory_pass and the validators it reads, over whichever
\* of the three parent answers ended up effective.)
PassIsBacked ==
  verdict = "pass" =>
    /\ BackedBy(effective, FreshManifest(records))
    /\ FreshManifest(records) = RetainedFacts
    /\ CoveragePass

\* Whatever the repair and the retry answered, a passed cell's answer is the
\* first parent synthesis with nothing changed but missing handles, each
\* filled with the home chunk of every fact of its entry.
PassKeepsTheDraft == verdict = "pass" => SameButFilled(original, effective)

\* A repair is only ever asked for a synthesis all of whose claims name
\* reported facts: a synthesis rejected for any other reason too is final, and
\* fails the cell.  (The exclusive-reason gate of _initial_traceguard_repair_
\* block.)
RepairOnlyWhatMissesHandles ==
  repairAttempts > 0 =>
    /\ Claims(original) # {}
    /\ \A c \in Claims(original) :
         /\ c[2] \in FreshManifest(records)
         /\ original[c[1]].handle \in {Missing, HomeChunk[c[2]]}

\* The cell spends at most one call per selected chunk, one parent call, and
\* two more when a repair is recorded, however the calls fail.
CallBudget == calls <= Len(ChildOrder) + 1 + 2 * repairAttempts

\* What the cell leaves in the store agrees with how it ended: a passed cell
\* never reports a failed repair, a cell without a recorded attempt reports no
\* repair at all, and schema stability is only reported for an answer whose
\* claims are all backed.
MemoryAgreesWithCell ==
  /\ verdict = "pass" => "repair_strategy_failed" \notin memory
  /\ repairAttempts = 0 =>
       memory \cap {"repair_strategy_failed", "repair_strategy_succeeded"} = {}
  /\ "provider_schema_stability" \in memory =>
       BackedBy(effective, FreshManifest(records))
  /\ "repair_strategy_succeeded" \in memory => calls = Len(ChildOrder) + 3

\* The cell implements the evidence gate: what it gathers is the evidence, the
\* first parent answer the draft, and a passed cell admits its effective one.
Gate == INSTANCE EvidenceGate WITH
  evidence <- FreshManifest(records),
  draft    <- original,
  answer   <- IF verdict = "pass" THEN effective ELSE NoSynthesis,
  outcome  <- CASE verdict = "none" -> "open"
                [] verdict = "pass" -> "admitted"
                [] verdict = "primary_contract_failure" -> "refused"
                [] OTHER -> "aborted"

CellImplementsGate == Gate!Spec

\* Every cell ends with a classification.
CellEnds == <>(phase = "done" /\ verdict # "none")

=============================================================================
