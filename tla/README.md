# A verification project for EGRI

EGRI runs a recursive language-model task as *evidence-gated parent synthesis*:
child calls report facts from chunks of a document, a parent call answers from
what they reported, and a deterministic gate (TraceGuard) accepts the answer only
if each of its claims cites the chunk of a fact a child reported. The repository
carries the framework this runs in, a snapshot of Ouroboros, which executes
longer work as sessions of background jobs. This directory models both in TLA+,
checks them with TLC, and proves the most important promises with TLAPS.

Paths are relative to the repository root; `egri/` is `src/src/egri/`,
`ouroboros/` is `egri/_vendor/runtime_scaffold_branch/src/ouroboros/`, and `rlm/`
is `ouroboros/rlm/`.

## The system

| Part | State it keeps | Operations | Interacts with |
|---|---|---|---|
| TraceGuard validator, `egri/traceguard.py` | none (pure) | extract claims, validate against an evidence manifest | called by the live cell, the scaffold gate, the benchmarks |
| Missing-handle repair, `egri/live_portability.py:1810-3077` | none (pure) | eligibility, patching, foreign-handle and fidelity checks | called by the live cell |
| Live cell, `egri/live_portability.py:1440-1698` | child records, three parent answers, the validation in force, repair block, retry counter | one coroutine: recall, children, parent, gate, repair, retry, verdict, memory write | provider calls, operational memory, matrix |
| Operational memory, `egri/memory.py` | one JSONL file, shared by runs | recall, store, record guard | read when a cell starts, written when it is decided |
| Live matrix, `egri/live_portability.py:763-931,1303-1405,3581-3675` | finished cells, four output files | run every cell, checkpoint after each, summarise, final output | runs the cells, catches their exceptions |
| RLM scaffold loop, `rlm/loop.py` | run and node lifecycle states, AC tree, work queue, iteration counter, recorded results | select, call, decompose, validate, synthesize, finish | provider calls, trace store |
| Scaffold gate, `egri/runtime_scaffold_traceguard.py` | none; patches the command line once | normalise a finished run's answer, validate it against the run's child results | result of the scaffold loop, TraceGuard |
| Execution planning, `ouroboros/orchestrator/dependency_analyzer.py` | none (pure) | dependencies, levels, serial stages, validation of the plan | called before the parallel executor |
| Parallel executor, `ouroboros/orchestrator/parallel_executor.py` | AC statuses, failed and blocked sets, results, level contexts, a semaphore | stages, decomposition, agent calls, stall retries, checkpoint after a stage, recovery | plan, agent runtimes, checkpoint store, event store |
| Checkpoint store, `ouroboros/persistence/checkpoint.py` | one file and three rollback levels per key | save with rotation, load with rollback | parallel executor |
| Background jobs, `ouroboros/mcp/job_manager.py` over `persistence/event_store.py` | the log of a job's events; tasks of the job, its runner, its monitor | start, update, mirror progress, cancel, end | awaits the session runner, writes the event store |
| Session runner and cancellation, `ouroboros/orchestrator/{runner,session,heartbeat}.py`, `mcp/tools/execution_handlers.py`, `cli/commands/{cancel,mcp}.py` | session events, cancellation registry, lock files, the running coroutine | prepare, register, execute, resume, check and handle cancellation, end, clean up orphans | parallel executor or agent runtime, job manager, other processes |
| Trace store, `rlm/trace.py` | append-only records of calls | append the start and the end of a call | written by the scaffold loop |
| Preflight, fixtures, benchmarks, scripts, rest of the snapshot | constant data, reports | offline evaluation | TraceGuard |

Hard behaviour, and what makes each part correct:

* **Cell.** Up to three answers take turns at being the effective one, each with
  its own validation; the repair may fail, be rejected, or succeed and be undone
  by the retry. Correct: a cell passes only with an answer that its own children's
  evidence backs and that is the first answer but for filled-in missing handles;
  one repair at most; the memory write agrees with the verdict.
* **Memory.** Runs share a file without a lock, a write may be cut at any byte,
  the file may come from elsewhere. Correct: append-only, nothing but guarded
  records of the right addressee in a prompt, no intact record hidden or lost.
* **Matrix.** Stops in and between four files, reruns over old files. Correct: the
  aggregate is what the grid earned, and a stopped run never looks like a
  finished one.
* **Scaffold and gate.** Depth and iteration limits at three places, failures that
  must not stop the drain but must fail the run, exceptions from inside a call,
  three keys by which an answer may cite. Correct: the synthesis sees every child,
  success means that everything succeeded, the limit stops exactly the runs that
  do not fit it, and an answer is accepted only over the run's own child results.
* **Jobs.** A log ordered by timestamps taken before an await, four coroutines
  that read it and write it later, cancellation delivered at any await. Correct:
  one ending, the one that happened; a request to cancel is heeded; nothing stays
  behind.
* **Parallel executor and checkpoints.** Concurrent ACs that hold a slot while
  their parts run, failures that must block what depends on them, also across a
  restart; a save that renames four files one after the other. Correct: an AC runs
  after what it depends on, a result is returned only for work that was done, a
  cut save costs no more than itself, and what a checkpoint settles is not done again.
* **Sessions.** Five parties may write the ending of a session: the runner, its
  cancellation handler, `cancel_job`, another process, the orphan clean-up; a lock
  file and a registry say who is at work. Correct: locks are given back, one
  ending is announced, an ending is reached.

`PROJECT.json` lists the hazards at their lines, with the properties about each.

## Modules

| Module | Models | Correspondence |
|---|---|---|
| `TraceGuard` | validator and repair helpers | operators. A synthesis is a function from reference paths to entries `[facts, handle, body]`; `Reason` is one claim's branch of `validate_parent_synthesis`; `FreshManifest`, `RepairEligible`, `ApplyRepair`, `ProposesForeignHandle`, `PatchFidelity` are the helpers of the same purpose |
| `EvidenceGate` | what the gate promises, abstractly | gather evidence, propose a draft, admit it (or it with handles filled) or close |
| `LiveCell` | one cell | an action is the code between two awaits: `Start`, `ChildAnswers`, `CallAborts`, `ParentAnswers` (validation and recording of the attempt included), `RepairAnswers`/`RepairFails`, `RetryAnswers`/`RetryFails`, `Conclude`, `StoreFails` |
| `OperationalMemory` | the JSONL store under several runs | `Recall`, `RecallFails`, `Store`, `StoreCut`, `StoreStops`, `Leave` |
| `LiveMatrix` | matrix loop, summary, output files | `RunCell`, `WriteOutput`, `WriteFails`, `Stop`, `Restart` |
| `DivideAndGather` | what the recursive loop promises, abstractly | divide a question, record one result for each part, answer only from successes |
| `RLMScaffold` | the recursive loop | `Guard`, `BeginAtomic`/`BeginDecomposed`, `SelectChunk`, `ChunkAnswers*`, `NestedAnswers`, `Synthesize`, `SynthesisAnswers`, `IterationsExhausted`, `CallRaises` |
| `RuntimeScaffoldGate` | the gate after a run of the loop | `RunGate` is `run_with_traceguard` from the returned result on: `Manifest`, `Normalized` and `Status` are the steps of `validate_runtime_scaffold_result` |
| `ExecutionPlan` | dependency analysis and staging | operators: `Dependencies` (serialised resource claims included), `ExecutionLevels`, `Split`, `Stages`, `Plannable` |
| `CheckpointStore` | the files of one checkpoint key | operators: `AfterStep` is one step of `save`, `Loaded` is `load` |
| `ParallelExecutor` | one run of `execute_parallel`, and its restarts | `Begin` (recovery), `EnterStage`, per AC `StartAc`, `Decompose`, `CallAgent`, `Stall`, `EndCall`, `CallReadsBlocked`; `EndBatch`, `SaveStep`, `SaveFails`, `Interrupt`, `Return` |
| `JobManager` | one job over the event log | the task (`Task*`), its runner, the monitor (`Monitor*`), `cancel_job` (`Cancel*`), `Store` for the commit of a row, `Shutdown`, `Restart` |
| `SessionRunner` | one session and all who write its ending | the runner and its handler (`Prepare` ... `Leave`, `Recover` for the second stream after a failed one, `Handle*`, `Raise`, `Interrupted`, `HandlerReports`), `cancel_job` (`Ask` ... `CancelTells`), `Outside*` for `ouroboros cancel`, `Restart`, `ShutDown`, `Resume`, `CleanerStep` |
| `MC*` | small instances | constants and inputs for TLC |
| `*Proofs` | proofs | lemmas about the operators; the theorems below |

Composition: `LiveCell` extends `TraceGuard` and implements `EvidenceGate`;
`LiveMatrix` sees a cell only through its failure classification, which is
`LiveCell`'s `verdict`; `OperationalMemory` sees a cell through the three values
`build_memory_observations_from_cell` reads, restricted to the combinations
`LiveCell` can reach (`CellOutcome`). `RLMScaffold` implements `DivideAndGather`;
`RuntimeScaffoldGate` extends `RLMScaffold` and instantiates `TraceGuard` with child
results for facts. `ParallelExecutor` extends `ExecutionPlan` and instantiates
`CheckpointStore`. `SessionRunner` sees the parallel executor, or the agent's
message loop, as the place "working", and a job as open or closed; `JobManager`
sees the session's handler as its `runner`, by its outcome, and reads a linked
session as an await between two of its own steps.

Each mutated form of a definition (marked `Mutant:`) stands before the definition
it varies; no action or property uses it. It records the programming error that a
property is there to exclude.

### Abstractions

* Answers are sets of facts, a handle and a body, not JSON. A body stands for all
  keys but the handle and the facts; two bodies differ when a patch changed text.
  An absent or null handle is `Missing`, an unusable one `Malformed`: only the
  first can be filled.
* Rejections are a set of reasons. The code keeps one per claim, but every
  decision reads whether some reason occurs or only one does.
* A provider call is its outcome. Deadlines, adapter errors and answers that are
  not a JSON object all leave a cell through the matrix loop's handlers
  (`infra_timeout`, `infra_skip`).
* Memory priors only reach prompts, so `LiveCell` does not carry them;
  `OperationalMemory` says what they may be.
* A line of the store is a record or `Junk`. Confidence and sort order of priors,
  `latency_bucket` observations (no cell passes a latency) and blank lines are
  left out.
* A node of the scaffold is its path from the root, which serves both for the RLM
  node and for the AC node linked to it. An AC under which a node is added turns
  `DECOMPOSED` until it ends (`WithChildren`); none of the loop's is ever `ATOMIC`.
  `CANCELLED`, `BLOCKED_RETRY`, `SUMMARY_COMPLETE`, `WORK_QUEUE_EXHAUSTED`,
  `GUARDRAIL_FAILED` and the maximum-depth branch of
  `schedule_atomic_chunk_children` are declared in the code and never reached from
  `run_rlm_loop`, so they are not in the model.
* The gate reads of an answer the ids and handles it names. A list entry that is
  not a mapping is ignored by the code and absent here; the patch of the command
  line, which lasts for one process, is left out.
* Event stores append a row atomically when they commit. Reads do not fail;
  writes fail where the code handles it.
* The executor runs one batch per stage, as the code does when no coordinator
  review is configured; runtime handles, progress events, a plan that misses a
  criterion and the wait for memory pressure are left out. A restart finds the
  plan of the first start: it is computed from the same seed.
* A session has one runner at a time, and is resumed only after its server ended.
  How old a session must be to be stale is a nondeterministic choice. Of a recovery
  the model has what it does to the session: the first stream's failure may be its
  status until the second stream reports (`Recover`, `Report`). The planner that
  chooses the directive, the verification after a run and worktrees are left out.

## Runs

| Run | Question | Bounds, and why they are enough |
|---|---|---|
| `live_cell` | do all properties of the cell hold | two retained facts in two chunks and an omitted one; six reports, including a wrong text, a wrong chunk, a fact of another child's chunk and disagreeing chunk keys; answers of up to two entries out of ten kinds, with all four kinds of handle. Two facts and two entries are what an entry with conflicting handles, a mixed rejection and a partial repair take |
| `live_cell_repairable` | is what the gate calls repairable repairable | as above; violated |
| `memory` | is the store append-only, guarded, complete, and how much is lost | two runs, one family, two categories, two stores that reach the file (`MaxStores`): one store on top of a torn line, and one recall between two stores |
| `memory_persisted` | is what a store reports there to be read | a seed without a final newline; violated |
| `memory_repair_priors` | are repair observations recalled | as `memory`; violated |
| `matrix` | is the aggregate earned and stable, are the files trustworthy | three fixtures by two families in one run, and three by one family in two runs (`attempts`): three fixtures tell two failures from one and from all, and the second run writes over every state the first can leave |
| `rlm_scaffold` | does the scaffold converge, see all children, gather a result of each part before it answers, respect its limits and end, and is the gate over it exact | one to three chunks, depths 0 to 3 (the loop uses 0, 1 and 2), limits 1 to 8 (7 is the most a run takes), 0 to 2 validations; answers that cite by each of the three keys, with own, foreign and missing handles |
| `scaffold_gate_claims` | is an unsupported claim rejected | a few of these configurations; violated |
| `job_manager` | does a job end once and truly, is a cancellation heeded, does nothing stay behind | a linked and an unlinked job, one update of the monitor (`MaxProgress`), one request (`MaxRequests`): one of each is what the races between stale updates, requests and endings take |
| `parallel_executor` | do ACs run in order, do results tell the truth, does a restart find the last checkpoint and do nothing again that it has settled, does a run return | three ACs under every shape of plan and five in three stages, two slots, one level of decomposition into two parts, three faults (`MaxFaults`), and the failure of AC 4, on which 5 depends, may read as a blocked AC's (`Misread`): a save can be cut as often as there are rollback levels; two slots with two decomposed ACs are what a wait for each other takes |
| `session_runner` | are locks given back, is one ending announced, is an ending reached | three modes, two calls of `cancel_job`, one exception, one restart: two calls are what an interrupted cancellation handler takes |
| `session_resume` | does a resumed session give its lock back | one call of `cancel_job`; violated |

Deadlock is not checked where a process ends and none goes on:
`CHECK_DEADLOCK FALSE` in every configuration stands for exactly that (a finished
cell, a store with its bound used up, a stopped matrix out of attempts, a
returned or raised loop, a settled job or session). That they do not stop
*earlier* is what `CellEnds`, `RunEnds`, `JobSettles`, `RunReturns` and
`SessionSettles` say.

`PlansAreSound`, an assumption of `MCParallelExecutor` that TLC evaluates, says of
`ExecutionPlan` over all graphs of up to three ACs that a plan holds each AC once
and that a graph has a plan exactly when no AC depends on itself. `PlanIsPartition` and
`PlannableIffAcyclic` prove this for all finite graphs, the second with a numbering
of the ACs in place of the closure of their dependencies.

### What the properties say

* Cell: `PassIsBacked`, `RepairOnlyWhatMissesHandles`, `CallBudget`,
  `MemoryAgreesWithCell`, `CellEnds`, and `CellImplementsGate` (refinement), which
  contains `PassKeepsTheDraft`: what passes is the first answer with missing handles
  filled in.
* Memory: `AppendOnly`, `LossIsBounded` (at most one reported record for each time
  the file was left without a newline), `PriorsAreGuarded`, `RecallIsComplete`.
* Matrix: `VerdictIsEarned`, `VerdictIsStable`; files: `FinalIsComplete`,
  `PairsAgree`, `CheckpointIsCurrent`.
* Scaffold: `Converged`, `SynthesisSeesEveryChild`, `TreesAgree` (an AC node is
  completed or failed exactly when its RLM node is, and decomposed exactly when it
  has a child and has not ended), `LimitIsExact`, `RunEnds`, and `ScaffoldGathers`
  (refinement): the results of chunks and validations, seen as one record, are made
  once and kept, and a run completes only from a success of all that is scheduled
  under the root. Gate: `GateIsExact`, which states from the answer and the run
  alone, without the gate's own operators, which answers are accepted and which
  escape.
* Jobs: `OneTrueEnding` (one ending is ever stored, and it is what the runner came
  to or a cancellation), `CancelHeeded` (a stored request ends the job cancelled,
  but for the one stale update that can hide it), `JobSettles`.
* Parallel executor: `RunsAfterItsDependencies`, `RollbackSuffices`,
  `NothingIsRedone` (what the checkpoint last saved has settled is not executed
  again), `ResultsAreEarned`, `RunReturns`.
* Sessions: `FreshRunsCleanUp`, `EndingsAgree`, `SessionSettles`. The first two are
  about sessions run anew; what a resumed session does instead is finding 5.
  `SessionSettles` excepts a recovered session that `cancel_job` is called on, for
  the reason given under "Noticed" below.

### Fairness

* `LiveCell`: `WF_vars(Next)`. Every call is under `asyncio.wait_for`
  (`_execute_json_task`), everything else is straight-line code.
* `RLMScaffold`, `RuntimeScaffoldGate`: weak fairness of the next step. The loop
  itself has no deadline; the Hermes CLI runtime ends a call that prints nothing
  for its startup or idle deadline (`ouroboros/orchestrator/hermes_runtime.py:155-158`).
  A call that printed for ever would be awaited for ever: that is the assumption.
* `JobManager`: weak fairness of the store, the task, the runner and the monitor
  (the event loop runs every ready coroutine; the runner ends). Requests,
  shutdowns and restarts are owed to nobody.
* `ParallelExecutor`: `WF_vars(RunStep)`. An agent's call ends, or is found
  stalled after `STALL_TIMEOUT_SECONDS`, and stalls at most three times.
  Interruptions and failing saves are not fair.
* `SessionRunner`: weak fairness of the run, of the end of its job and of
  `cancel_job`; other processes and the life of the server are not fair.
* `OperationalMemory` and `LiveMatrix` state no liveness; that a cell ends is
  `CellEnds`.

## Where the code and its documentation part

1. `EligibleIsRepairable`. `_initial_rejection_contains_only_repairable_missing_handles`
   says each rejection it lets through is patch-repairable. An entry that supports
   two facts of different chunks without a handle is let through, and no handle is
   right for both: the repair attempt is spent, the cell fails.
2. `ReportedIsPersisted`. A store whose file lacks a final newline, like the one
   the repository's memory test seeds, appends to that line: two records are lost,
   one of them reported as stored.
3. `RepairPriorsAreRecalled`. README and manifest promise repair priors; what cells
   store about repairs has tasks that no cell recalls.
4. `UnsupportedClaimsAreRejected`. The gate's docstring says that unsupported answer
   facts are rejected. A synthesised claim that names no child result is counted
   but leaves no reference to validate, and is accepted beside a supported one.
5. `RunsCleanUp`. `_unregister_session` says it is called at the end of execution,
   cancellation included. `resume_session` catches `Exception` only: when its job is
   cancelled the lock file stays and names a live process.

Noticed while modelling, and left to the reader.

Cell, memory, scaffold: a list-valued family or category in a stored record raises
in `prior_from_record` and makes each later reading cell an infrastructure skip
(`RecallFails`); `missing_evidence_handle_seen` is stored for any rejected first
answer, whatever it was rejected for; a failing store turns a decided cell into an
infrastructure skip (`StoreFails`); the partial files still say `in_progress` after
a run completed; `run_rlm_loop` reports status `completed` for a run whose synthesis
failed (its `termination_reason` tells); after an adapter error the scaffold state
stays at `running_node` without a termination reason (`CallRaises`); a chunk whose
validation exceeds the iteration limit keeps its AC node at `decomposed`
(`ChunkAnswersExhausted`).

Jobs: an update of the monitor, created from a snapshot read before a request to
cancel, hides that request (`CancelHeeded` names the case); a job whose task is
cancelled before its first update, or while it stores its ending, and every job
open when a server ends, keeps a non-terminal status (`TaskAbandoned`,
`TaskInterrupted`, `Restart`).

Executor: which ACs were blocked is not in the checkpoint, so after a restart an AC
whose only unmet dependency was blocked is run (`Begin`, and the exception in
`RunsAfterItsDependencies`); an agent call whose exception text contains
"blocked: dependency" counts as blocked and not as failed (`CallReadsBlocked`,
`ouroboros/orchestrator/parallel_executor_models.py:85`), so the same holds of the
ACs that depend on it; an AC that claims one resource twice, or a cycle,
makes `create_plan` raise (`Plannable`).

Sessions: a progress event after `ouroboros cancel` turns the status back to running
(`Report`, `ouroboros/orchestrator/session.py:289`); the final error of a first
stream reads as failed until the second stream of a recovery reports, and a
`cancel_job` that looks in between takes it for the ending, puts no request into
the registry and cancels the task, so that the session stays running without one
(`Recover`, `Ask`; `ouroboros/orchestrator/runner.py:1903`); `ouroboros cancel` and the orphan
clean-up read, and then write without reading again, so they overwrite an ending
stored in between (`OutsideMark`, `CleanerStep`); `resume_session` takes the lock
without looking whose it is (`Register`); a refused resume of an ended session is
marked failed by the handler (`HandlerReports`,
`ouroboros/mcp/tools/execution_handlers.py:500`); a second `cancel_job`
interrupts the cancellation handler of the first, and so does one that arrives
while a failure is being recorded (`Interrupted` where not `guarded`,
`ouroboros/orchestrator/runner.py:2040`).

## Proofs

`LiveCellProofs` proves for every fixture, every number of chunks, every set of
child reports and parent answers, under the named assumptions of `TraceGuard`
(retained facts have home chunks; `Missing` and `Malformed` are no chunks) and
`LiveCell` (the constants have their types):

| Theorem | Statement |
|---|---|
| `IInvariant` | `Spec => []IInv` |
| `TypeCorrect` | `Spec => []TypeOK` |
| `PassedCellIsBacked` | `Spec => []PassIsBacked` |
| `PassedCellKeepsTheDraft` | `Spec => []PassKeepsTheDraft` |
| `RepairIsNarrow` | `Spec => []RepairOnlyWhatMissesHandles` |
| `CallsAreBounded` | `Spec => []CallBudget` |
| `MemoryIsHonest` | `Spec => []MemoryAgreesWithCell` |
| `CellRefinesGate` | `Spec => CellImplementsGate` |

The argument. `PassIsBacked` alone is not inductive: the verdict is read off
`accepted`, which was computed for whichever answer was effective two calls
earlier. `IInv` therefore adds what ties them: before the parent answers nothing
but child records exists (`BeforeGateInv`); afterwards the manifest is that of the
records, `accepted` is the validation of the effective answer, that answer is the
original one or faithful to it when a repair or retry was accepted, and the call
count fits the phase (`GateInv`); a recorded attempt belongs to an eligible answer
(`RepairInv`); the verdict and the memory write of a decided cell were computed
from these (`DoneInv`). Each conjunct is proved by cases on the actions
(`TypeStep`, `BeforeGateStep`, `GateStep`, `RepairStep`, `DoneStep`).
What the validator's operators guarantee comes first in the module: an accepted
answer is backed (`AcceptedIsBacked`), an eligible one only misses handles
(`EligibleOnlyMisses`), a faithful patch is the same but filled
(`FaithfulIsSameButFilled`). The refinement proof maps each action to `Gather`,
`Propose`, `Admit`, `Close` or a stutter.

The other proof modules hold for every value of their specification's constants
under the assumptions the modules name: types and sizes; for `OperationalMemory`
also that no record the store held before is newer than the first run, which is how
`created_at` tells seeds from writes; for `LiveMatrix` that the selected families
are a sequence without repetition, which is what `_select_families` returns; for
`ParallelExecutor` that ACs are finitely many numbers and depend on each other
only, as the indices of a list of criteria do (the analyzer keeps an answered
dependency only when it is the index of another criterion,
`ouroboros/orchestrator/dependency_analyzer.py:546-550`).

| Module | Theorem | Statement |
|---|---|---|
| `OperationalMemoryProofs` | `LinesAreKept` | `Spec => AppendOnly` |
| | `LossesAreCounted` | `Spec => []LossIsBounded` |
| | `PriorsPassTheGuard` | `Spec => []PriorsAreGuarded` |
| | `NothingIsHidden` | `Spec => RecallIsComplete` |
| | `StoreIsTyped` | `Spec => []TypeOK` |
| `LiveMatrixProofs` | `VerdictsAreEarned` | `Spec => []VerdictIsEarned` |
| | `DecidedIsDecided` | `Spec => VerdictIsStable` |
| | `OnlyWholeRunsAreFinal` | `Spec => []FinalIsComplete` |
| | `ReportsFollowResults` | `Spec => []PairsAgree` |
| | `CheckpointsKeepUp` | `Spec => []CheckpointIsCurrent` |
| | `MatrixIsTyped` | `Spec => []TypeOK` |
| `RLMScaffoldProofs` | `RunsConverge` | `Spec => []Converged` |
| | `SynthesisIsLast` | `Spec => []SynthesisSeesEveryChild` |
| | `BothTreesAgree` | `Spec => []TreesAgree` |
| | `LimitStopsTheRightRuns` | `Spec => []LimitIsExact` |
| | `ScaffoldRefinesWhole` | `Spec => ScaffoldGathers` |
| | `GateIsTyped` | `GatedSpec => []GateTypeOK` |
| | `TheGateIsExact` | `GatedSpec => []GateIsExact` |
| `JobManagerProofs` | `JobEndsOnce` | `Spec => []OneTrueEnding` |
| | `CancellationsAreHeeded` | `Spec => []CancelHeeded` |
| | `JobIsTyped` | `Spec => []TypeOK` |
| `ExecutionPlanProofs` | `PlanIsPartition` | the stages of a plan partition the ACs |
| | `PlanIsOrdered` | in a plan that is not refused, what an AC depends on is in earlier stages |
| | `PlannableIffAcyclic` | a finite list of ACs has a plan if and only if its dependencies have no cycle |
| `ParallelExecutorProofs` | `RollbackIsEnough` | `Spec => []RollbackSuffices` |
| | `SavedIsSettled` | `Spec => []NothingIsRedone` |
| | `DependenciesComeFirst` | `Spec => []RunsAfterItsDependencies` |
| | `EveryResultIsEarned` | `Spec => []ResultsAreEarned` |
| | `ExecutorIsTyped` | `Spec => []TypeOK` |
| `SessionRunnerProofs` | `LocksAreGivenBack` | `Spec => []FreshRunsCleanUp` |
| | `OneEndingIsTold` | `Spec => []EndingsAgree` |
| | `SessionIsTyped` | `Spec => []TypeOK` |

The arguments, by inductive invariant.

* Memory (`MemoryInv`). The bound on what is lost is not inductive: a write that
  continues a torn line loses its own first record, so one loss is owed already
  while the file is ragged. `LossInv` counts it (`ragged` less one while the last
  line is open) and says that the open line is not among the reported ones;
  `FileInv` says that what runs wrote is addressed to a family and category, which
  is why a prior with a positive `created_at` fits exactly. `ExtendedFile` says
  what one write leaves of the lines before it. `Stored` filters with `Kept`,
  written out because there are no facts about `SelectSeq` to cite; `KeptIsAll`
  shows that it rejects none of a cell's own observations.
* Matrix (`MatrixInv`). The files are tied to the place in the run: `SavedInv`
  says which cells each of the pair holds there and that the final pair is still
  an earlier run's. That the aggregate is earned is arithmetic: cells of one
  family are every `n`-th (`Rows`, `CellsOfAFamily`), so counting them counts
  fixtures (`CountedByFixture`). A pass needs the last cell and a failure stays
  one (`CellKeepsVerdict`).
* Scaffold (`ScaffoldInv`). While the queue is drained, the iteration counter, the
  results, the nested calls left and every node's state are functions of the
  number of chunks taken from it (`CountInv`, `NodeInv`); the limit then compares
  with the number of calls the whole run takes. A node added under another makes that
  one the only parent that is new (`ChildAdded`), which is what keeps exactly the
  unended parents decomposed (`MarksInv`). The refinement adds that a run
  still going has no verdict yet (`Undecided`) and that the part being called has no
  result (`CalledHasNoResult`); each action is then a step of `DivideAndGather` or
  a stutter (`ScaffoldStepsWhole`).
* Gate (`GateInv`). A run that returns leaves either the root alone or a recorded
  result of each chunk (`ReturnedInv`), so the manifest is the run's own chunks;
  over such a manifest TraceGuard accepts an entry exactly when it cites its own
  chunk, and the three keys of an answer are normalised to such entries
  (`ExactReason`, `AcceptedExactly`).
* Jobs. `EndingInv` follows the one ending from the task that chooses it to its
  row. For `CancelHeeded`, timestamps are unique (`StampsInv`), and each
  writer that goes on after a request has found that request overwritten by a
  later row (`ExcusesInv`, `AskedInv`); the latest of the rows is the greatest of
  a bounded set, by well-founded induction from the library. The types need
  every row and every event on its way to have been given a time (`TimesInv`), since
  the clock and the latest snapshot are computed from the times of the rows.
* Plan. `Stages` is built by two recursive functions. A function given by its value
  at 0 and a step to each number exists (`Recursion`, by well-founded induction),
  which makes the `CHOOSE` behind each of them meaningful; each step of the walk
  places a new AC until none is left (`PlacedAll`), `Split` cuts a level into a
  partition (`SplitPartition`), and partitions of disjoint sets join
  (`PartitionsJoin`). Nothing is assumed of the graph, so this holds of cyclic ones.
  The order follows from what `create_plan` verifies (`Plannable`). That the
  verification refuses only cycles takes two more facts: without a cycle the walk
  is never stuck, so each level depends on earlier ones only (`ReadyFollow`,
  `LevelsFollow`), and a serial AC is alone in its stage of a level (`SplitAlone`).
* Executor (`RunInv`). The properties speak of running ACs and of returned runs; what
  is inductive is one relation, `Record`, between statuses, failed ACs, the count of
  completed ones and contexts, over the ACs that have ended (`Finished`). It holds of
  the run and, with the stages behind it, of each checkpoint in the store
  (`StoreInv`), which is what carries it over a restart. It grows by the ACs a step
  brings to an end (`RecordGrows`), once when a stage is sorted and once when its
  batch ends, and needs that what ended depends on nothing that has not
  (`FinishedIs`, from `PlanIsOrdered`). The results have one row for each ended AC
  (`Tells`); a restart recomputes them from the checkpoint (`RestoredTells`). Blocked
  ACs are known exactly as long as there was no fault (`BlockedInv`).
* Checkpoints (`FilesInv`). Between two renames of a cut save the saved checkpoint
  is in no deeper level than saves have been cut, plus one if this save has
  renamed it already (`Reached`); the place of the next rename is free. As long as
  rollback finds it, the run is past the stage that checkpoint was saved after
  (`SavedInv`), and stages are disjoint.
* Sessions. `LockInv` says where the runner may hold its lock: only where a handler
  of its own will release it. For one ending, five facts are inductive together:
  what the runner decided fits the events (`VerdictInv`), what was told fits what
  was decided (`ToldInv`), and a request or a stored ending stands behind each
  ending (`OneEndingInv`, `RequestInv`, `PersistInv`).

Only model-checked: liveness (`CellEnds`, `RunEnds`, `JobSettles`, `RunReturns`,
`SessionSettles`), because it needs fairness. Every invariant,
every action property and both refinements that a passing run checks are proved. What
a recursive definition computes for every input is out of the provers' reach in
general; where a theorem needs it, for the plan and for restored results, the
recursion is over numbers, and `Recursion` makes its equations available.

## Not modelled

The trace store (append-only records that nothing reads back while the system
runs; `egri/replay.py` prints a stored benchmark result); preflight and dry plan
(sequential checks of generated fixtures by the modelled validator); fixture
generation and baseline (constant data); prompts, answer parsing and reports
(text); the benchmark suite and scripts (offline evaluation); the provider
adapters (external processes, seen through their outcomes); of the vendored
snapshot the packages beside the modelled ones: evolution, evaluation, interview,
the terminal interface, MCP client and bridge, plugins, provider adapters. The
artifact does not drive them.

Of the parts marked *partly* in `PROJECT.json`: `wait_for_change` and
`cleanup_expired_jobs` of the job manager; the coordinator's review, runtime
handles and missing criteria of the executor; the periodic checkpointer and the
file lock of the checkpoint store; the tools and worktrees of the session runner
and the choice of its recovery directives.

## Plan

1. `TraceStore`: started and terminal records around each call of the scaffold, and
   stops between them.
2. An abstract specification of a session with a single ending that
   `SessionRunner` implements for new sessions.
3. `JsonExtract`: which answers `_extract_json_object` takes, against a reference
   definition over short token sequences.
4. The benchmark suite's own logic: policies and evaluator, atomic-task boundary,
   context budget.
