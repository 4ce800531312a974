-------------------------- MODULE ParallelExecutor --------------------------
(***************************************************************************)
(* Parallel execution of acceptance criteria (ACs):                        *)
(* ouroboros/orchestrator/parallel_executor.py, ParallelACExecutor, over   *)
(* the plan of ExecutionPlan and with the files of CheckpointStore.        *)
(*                                                                         *)
(* Stages run one after the other; the ACs of a stage run concurrently, as *)
(* many as the semaphore has slots.  An AC is executed by one agent call,  *)
(* or decomposed into sub-ACs that are executed in turn, each of which may *)
(* be decomposed again; a call that stalls is made again.  After a stage a *)
(* checkpoint is saved, and an executor that is started again for the same *)
(* session goes on from the checkpoint it loads.                           *)
(***************************************************************************)
EXTENDS ExecutionPlan

CONSTANTS
  Inputs,        \* what the run is given: a graph and the satisfied ACs
  MaxConcurrent, \* slots of the semaphore
  MaxDepth,      \* max_decomposition_depth
  MaxSubAcs,     \* MAX_SUB_ACS, 5 in the code
  Misread,       \* bound: ACs whose failure may be taken for a blocked AC's
  MaxFaults      \* bound: interruptions and failed saves

MaxStallRetries == 2
MinSubAcs == 2

ASSUME ExecutorAssumption ==
  /\ \A i \in Inputs : LET acs == DOMAIN i.graph.deps
                       IN  /\ acs \subseteq Nat /\ IsFiniteSet(acs)
                           /\ i.graph \in Graphs(acs, Resources(i.graph))
  /\ MaxConcurrent \in Nat \ {0}
  /\ MaxDepth \in Nat /\ MaxSubAcs \in Nat /\ MaxFaults \in Nat

Statuses == {"pending", "executing", "completed", "failed", "skipped"}
Outcomes == {"succeeded", "satisfied_externally", "failed", "blocked"}

\* The checkpoint of a run that has saved none.
NoCheckpoint == [levels |-> 0, statuses |-> << >>, failed |-> {}, completed |-> 0,
                 contexts |-> << >>]

Store == INSTANCE CheckpointStore

VARIABLES
  input,     \* [graph, satisfied]
  stages,    \* the plan
  pc,        \* where execute_parallel stands
  level,     \* the stage reached
  statuses,  \* ac_statuses
  failed,    \* failed_indices
  blocked,   \* blocked_indices
  completed, \* completed_count
  contexts,  \* the stages level_contexts tells of
  results,   \* all_results, as [ac, outcome] in the order of appending
  work,      \* AC of the stage |-> its execution
  slots,     \* free slots of the semaphore
  files,     \* the checkpoint files
  step,      \* the next step of the save
  faults,
  \* What happened, for the properties:
  done,      \* ACs an agent has brought to success
  saved,     \* the checkpoint last saved
  broken     \* saves cut short since then

memory == <<level, statuses, failed, blocked, completed, contexts, results, work, slots>>
ghosts == <<done, saved, broken>>
vars == <<input, stages, pc, memory, files, step, faults, ghosts>>

Acs == DOMAIN input.graph.deps
Deps(a) == Dependencies(input.graph)[a]

\* An execution: the position among sub-ACs from the outermost down, each
\* as [at, of], and whether all calls so far have succeeded.
Phases == {"waiting", "analyzing", "calling", "succeeded", "failed", "blocked"}
Ended(w) == w.phase \in {"succeeded", "failed", "blocked"}

TypeOK ==
  /\ input \in Inputs
  /\ pc \in {"begin", "stage", "batch", "saving", "returned", "raised"}
  /\ level \in 0 .. Cardinality(Acs) + 1
  /\ statuses \in [Acs -> Statuses]
  /\ failed \subseteq Acs /\ blocked \subseteq Acs
  /\ completed \in 0 .. Cardinality(Acs)
  /\ contexts \in Seq(Nat)
  /\ results \in Seq([ac : Acs, outcome : Outcomes])
  /\ DOMAIN work \subseteq Acs
  /\ \A a \in DOMAIN work :
       /\ work[a].phase \in Phases
       /\ work[a].tries \in 0 .. MaxStallRetries
       /\ work[a].good \in BOOLEAN
       /\ Len(work[a].path) <= MaxDepth
       /\ \A f \in {work[a].path[i] : i \in DOMAIN work[a].path} :
            f.at \in 1 .. f.of /\ f.of \in MinSubAcs .. MaxSubAcs
  /\ slots \in 0 .. MaxConcurrent
  /\ \A i \in Store!Levels : files[i].state \in {"absent", "corrupt", "valid"}
  /\ step \in Store!SaveSteps
  /\ faults \in 0 .. MaxFaults
  /\ done \subseteq Acs

NoWork == [a \in {} |-> 0]
Pending == [a \in Acs |-> "pending"]

Init ==
  /\ input \in Inputs
  /\ stages = Stages(input.graph)
  /\ pc = IF Plannable(input.graph) THEN "begin" ELSE "raised"
  /\ level = 0 /\ statuses = Pending
  /\ failed = {} /\ blocked = {} /\ completed = 0
  /\ contexts = << >> /\ results = << >>
  /\ work = NoWork /\ slots = MaxConcurrent
  /\ files = Store!NoFiles /\ step = 0
  /\ faults = 0
  /\ done = {} /\ saved = NoCheckpoint /\ broken = 0

-----------------------------------------------------------------------------
(* Stages                                                                  *)

InOrder(acs) == CHOOSE s \in [1 .. Cardinality(acs) -> acs] :
                  \A i, j \in DOMAIN s : i < j => s[i] < s[j]

ResultsOf(acs, outcome) ==
  LET order == InOrder(acs)
  IN  [i \in DOMAIN order |-> [ac |-> order[i], outcome |-> outcome[order[i]]]]

RestoredOutcome(status) == CASE status = "completed" -> "succeeded"
                             [] status = "skipped" -> "blocked"
                             [] OTHER -> "failed"

\* The results of the stages the checkpoint has behind it.
Restored(checkpoint) ==
  LET upTo[k \in 0 .. checkpoint.levels] ==
        IF k = 0 THEN << >>
        ELSE upTo[k - 1] \o ResultsOf(stages[k],
               [a \in Acs |-> RestoredOutcome(checkpoint.statuses[a])])
  IN  upTo[checkpoint.levels]

\* Mutant: the run takes the stage its checkpoint was saved after up again.
BeginAtSavedStage ==
  /\ pc = "begin"
  /\ LET found == Store!Loaded(files)
     IN  /\ level' = IF found.levels = 0 THEN 1 ELSE found.levels
         /\ statuses' = IF found.levels = 0 THEN Pending ELSE found.statuses
         /\ failed' = found.failed
         /\ completed' = found.completed
         /\ contexts' = found.contexts
         /\ results' = Restored(found)
  /\ blocked' = {}
  /\ pc' = "stage"
  /\ UNCHANGED <<input, stages, work, slots, files, step, faults, ghosts>>

\* The run takes up the checkpoint it finds; the blocked ACs are not in it.
Begin ==
  /\ pc = "begin"
  /\ LET found == Store!Loaded(files)
     IN  /\ level' = found.levels + 1
         /\ statuses' = IF found.levels = 0 THEN Pending ELSE found.statuses
         /\ failed' = found.failed
         /\ completed' = found.completed
         /\ contexts' = found.contexts
         /\ results' = Restored(found)
  /\ blocked' = {}
  /\ pc' = "stage"
  /\ UNCHANGED <<input, stages, work, slots, files, step, faults, ghosts>>

\* Mutant: what depends on a blocked AC is not blocked.
BlockedByFailure(acs) == {a \in acs : Deps(a) \cap failed # {}}

BlockedIn(acs) == {a \in acs : Deps(a) \cap (failed \cup blocked) # {}}

SatisfiedIn(acs) == (acs \cap input.satisfied) \ BlockedIn(acs)
ExecutableIn(acs) == acs \ (BlockedIn(acs) \cup input.satisfied)

\* The ACs of the next stage are sorted into blocked, satisfied and
\* executable; a stage with none of the last is over, and is not saved.
EnterStage ==
  /\ pc = "stage" /\ level <= Len(stages)
  /\ LET acs == stages[level]
         toRun == ExecutableIn(acs)
     IN  /\ blocked' = blocked \cup BlockedIn(acs)
         /\ completed' = completed + Cardinality(SatisfiedIn(acs))
         /\ statuses' = [a \in Acs |-> CASE a \in BlockedIn(acs) -> "skipped"
                                         [] a \in SatisfiedIn(acs) -> "completed"
                                         [] a \in toRun -> "executing"
                                         [] OTHER -> statuses[a]]
         /\ results' = results
              \o ResultsOf(SatisfiedIn(acs), [a \in Acs |-> "satisfied_externally"])
              \o ResultsOf(BlockedIn(acs), [a \in Acs |-> "blocked"])
         /\ IF toRun = {}
            THEN pc' = "stage" /\ level' = level + 1 /\ UNCHANGED work
            ELSE /\ pc' = "batch" /\ UNCHANGED level
                 /\ work' = [a \in toRun |-> [phase |-> "waiting", path |-> << >>,
                                              tries |-> 0, good |-> TRUE]]
  /\ UNCHANGED <<input, stages, failed, contexts, slots, files, step, faults, ghosts>>

Return ==
  /\ pc = "stage" /\ level > Len(stages)
  /\ pc' = "returned"
  /\ UNCHANGED <<input, stages, memory, files, step, faults, ghosts>>

-----------------------------------------------------------------------------
(* One AC                                                                  *)

OnlyWork == UNCHANGED <<input, stages, pc, level, statuses, failed, blocked, completed,
                        contexts, results, files, step, faults, saved, broken>>

StartAc(a) ==
  /\ work[a].phase = "waiting" /\ slots > 0
  /\ slots' = slots - 1
  /\ work' = [work EXCEPT ![a].phase = "analyzing"]
  /\ OnlyWork /\ UNCHANGED done

\* Mutant: the parts wait for a slot of their own, while their whole keeps one.
DecomposeInSlots(a, n) ==
  /\ work[a].phase = "analyzing"
  /\ Len(work[a].path) < MaxDepth
  /\ work' = [work EXCEPT ![a].path = Append(@, [at |-> 1, of |-> n]), ![a].phase = "waiting"]
  /\ OnlyWork /\ UNCHANGED <<slots, done>>

\* The AC, or the sub-AC reached, is split into n parts, done in turn.
Decompose(a, n) ==
  /\ work[a].phase = "analyzing"
  /\ Len(work[a].path) < MaxDepth
  /\ work' = [work EXCEPT ![a].path = Append(@, [at |-> 1, of |-> n])]
  /\ OnlyWork /\ UNCHANGED <<slots, done>>

\* It is found atomic, is not to be split, or the analysis fails.
CallAgent(a) ==
  /\ work[a].phase = "analyzing"
  /\ work' = [work EXCEPT ![a].phase = "calling"]
  /\ OnlyWork /\ UNCHANGED <<slots, done>>

Stall(a) ==
  /\ work[a].phase = "calling"
  /\ work[a].tries < MaxStallRetries
  /\ work' = [work EXCEPT ![a].tries = @ + 1]
  /\ OnlyWork /\ UNCHANGED <<slots, done>>

\* Mutant: a place is left one part too late.
OpenInclusive(path) == {i \in DOMAIN path : path[i].at <= path[i].of}

\* The places of a path with a part still to do; the innermost is next.
Open(path) == {i \in DOMAIN path : path[i].at < path[i].of}

Advanced(path) ==
  LET i == CHOOSE i \in Open(path) : \A j \in Open(path) : j <= i
  IN  [SubSeq(path, 1, i) EXCEPT ![i].at = @ + 1]

\* Mutant: a decomposed AC is judged by its last part.
LastPartCounts(a, ok) ==
  /\ work[a].phase = "calling"
  /\ IF Open(work[a].path) # {}
     THEN /\ work' = [work EXCEPT ![a] = [phase |-> "analyzing", tries |-> 0, good |-> @.good /\ ok,
                                          path |-> Advanced(@.path)]]
          /\ UNCHANGED <<slots, done>>
     ELSE /\ work' = [work EXCEPT ![a] = [phase |-> IF ok THEN "succeeded" ELSE "failed",
                                          tries |-> 0, good |-> @.good /\ ok, path |-> << >>]]
          /\ slots' = slots + 1
          /\ done' = IF work[a].good /\ ok THEN done \cup {a} ELSE done
  /\ OnlyWork

\* The call ends, well or badly: an error, an exception, or a stall too
\* many.  The next part follows whatever became of this one, and after the
\* last the AC has succeeded if every part has.
EndCall(a, ok) ==
  /\ work[a].phase = "calling"
  /\ LET good == work[a].good /\ ok
     IN  IF Open(work[a].path) # {}
         THEN /\ work' = [work EXCEPT ![a] = [phase |-> "analyzing", tries |-> 0, good |-> good,
                                              path |-> Advanced(@.path)]]
              /\ UNCHANGED <<slots, done>>
         ELSE /\ work' = [work EXCEPT ![a] = [phase |-> IF good THEN "succeeded" ELSE "failed",
                                              tries |-> 0, good |-> good, path |-> << >>]]
              /\ slots' = slots + 1
              /\ done' = IF good THEN done \cup {a} ELSE done
  /\ OnlyWork

\* The call of an AC that was not split raises an exception, and its text is
\* one that _infer_outcome takes for a dependency's failure.
CallReadsBlocked(a) ==
  /\ work[a].phase = "calling" /\ a \in Misread
  /\ work[a].path = << >>
  /\ work' = [work EXCEPT ![a] = [phase |-> "blocked", tries |-> 0, good |-> FALSE,
                                  path |-> << >>]]
  /\ slots' = slots + 1
  /\ OnlyWork /\ UNCHANGED done

AcStep(a) ==
  \/ StartAc(a)
  \/ \E n \in MinSubAcs .. MaxSubAcs : Decompose(a, n)
  \/ CallAgent(a)
  \/ Stall(a)
  \/ \E ok \in BOOLEAN : EndCall(a, ok)
  \/ CallReadsBlocked(a)

\* All ACs of the stage have ended, and their results are taken up together.
EndBatch ==
  /\ pc = "batch"
  /\ \A a \in DOMAIN work : Ended(work[a])
  /\ LET as(phase) == {a \in DOMAIN work : work[a].phase = phase}
     IN  /\ statuses' = [a \in Acs |-> CASE a \in as("succeeded") -> "completed"
                                         [] a \in as("blocked") -> "skipped"
                                         [] a \in as("failed") -> "failed"
                                         [] OTHER -> statuses[a]]
         /\ failed' = failed \cup as("failed")
         /\ blocked' = blocked \cup as("blocked")
         /\ completed' = completed + Cardinality(as("succeeded"))
         /\ contexts' = IF as("succeeded") = {} /\ SatisfiedIn(stages[level]) = {} THEN contexts
                        ELSE Append(contexts, level)
         /\ results' = results \o ResultsOf(DOMAIN work,
                                            [a \in DOMAIN work |-> work[a].phase])
  /\ work' = NoWork
  /\ pc' = "saving"
  /\ UNCHANGED <<input, stages, level, slots, files, step, faults, ghosts>>

-----------------------------------------------------------------------------
(* The checkpoint of a stage                                               *)

Current == [levels |-> level, statuses |-> statuses, failed |-> failed,
            completed |-> completed, contexts |-> contexts]

NextStage == pc' = "stage" /\ level' = level + 1 /\ step' = 0

SaveStep ==
  /\ pc = "saving"
  /\ files' = Store!AfterStep(files, step, Current)
  /\ IF step < Store!LastStep
     THEN step' = step + 1 /\ UNCHANGED <<pc, level, saved, broken>>
     ELSE NextStage /\ saved' = Current /\ broken' = 0
  /\ UNCHANGED <<input, stages, statuses, failed, blocked, completed, contexts, results,
                 work, slots, faults, done>>

\* A step fails: the error is logged and the run goes on.
SaveFails ==
  /\ pc = "saving" /\ faults < MaxFaults
  /\ NextStage
  /\ faults' = faults + 1 /\ broken' = broken + 1
  /\ UNCHANGED <<input, stages, statuses, failed, blocked, completed, contexts, results,
                 work, slots, files, done, saved>>

\* The process dies, the run is cancelled, or an event cannot be stored;
\* the executor is then started again for the same session.
Interrupt ==
  /\ pc \in {"stage", "batch", "saving"} /\ faults < MaxFaults
  /\ pc' = "begin" /\ step' = 0
  /\ level' = 0 /\ statuses' = Pending
  /\ failed' = {} /\ blocked' = {} /\ completed' = 0
  /\ contexts' = << >> /\ results' = << >>
  /\ work' = NoWork /\ slots' = MaxConcurrent
  /\ faults' = faults + 1
  /\ broken' = IF pc = "saving" THEN broken + 1 ELSE broken
  /\ UNCHANGED <<input, stages, files, done, saved>>

RunStep == \/ Begin \/ EnterStage \/ Return \/ EndBatch \/ SaveStep
           \/ \E a \in DOMAIN work : AcStep(a)

Next == RunStep \/ SaveFails \/ Interrupt

Spec == Init /\ [][Next]_vars

\* Every call of an agent ends or is found stalled.
FairSpec == Spec /\ WF_vars(RunStep)

-----------------------------------------------------------------------------
(* Properties                                                              *)

\* No AC is executed unless all it depends on have completed, and the
\* context it is given tells of the stages where agents completed them.
\* After a restart the executor no longer knows which ACs were blocked, and
\* then it is only certain that none of them is marked failed.
RunsAfterItsDependencies ==
  \A a \in DOMAIN work : \A d \in Deps(a) :
    IF statuses[d] = "completed"
    THEN d \in input.satisfied \/ \E i \in DOMAIN contexts : d \in stages[contexts[i]]
    ELSE statuses[d] = "skipped" /\ faults > 0

\* As long as no more saves in a row are cut short than there are rollback
\* levels, the checkpoint last saved is the one a restart finds.
RollbackSuffices ==
  broken + (IF pc = "saving" THEN 1 ELSE 0) <= Store!MaxRollbackDepth
    => Store!Loaded(files) = saved

\* What the checkpoint last saved has settled is settled for good: no start
\* of the executor has an agent work on such an AC again, unless more saves
\* in a row were cut short than there are rollback levels.
NothingIsRedone ==
  saved.levels > 0 /\ broken <= Store!MaxRollbackDepth
    => \A a \in DOMAIN work : saved.statuses[a] = "pending"

\* The run returns one result for each AC, a success only for an AC that an
\* agent has brought to success in all its parts, in this start or an
\* earlier one, or that was satisfied beforehand, never for one that
\* depends on a failed AC; and the count of completed ACs agrees.
ResultsAreEarned ==
  pc = "returned" =>
    /\ \A a \in Acs : Cardinality({i \in DOMAIN results : results[i].ac = a}) = 1
    /\ \A i \in DOMAIN results :
         /\ results[i].outcome = "succeeded" => results[i].ac \in done \cup input.satisfied
         /\ results[i].outcome \in {"succeeded", "satisfied_externally"}
              => \A d \in Deps(results[i].ac) : statuses[d] # "failed"
    /\ completed = Cardinality({a \in Acs : statuses[a] = "completed"})

\* The run comes to an end: an AC and its parts never wait for each other's
\* slot, and interrupted runs go on to the last stage.
RunReturns == <>(pc \in {"returned", "raised"})

=============================================================================
