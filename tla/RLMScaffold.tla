---------------------------- MODULE RLMScaffold ----------------------------
(***************************************************************************)
(* The recursive outer scaffold: ouroboros/rlm/loop.py of the vendored     *)
(* snapshot, run_rlm_loop, RLMOuterScaffoldLoop and RLMOuterScaffoldState. *)
(*                                                                         *)
(* The root node is executed by one call, or decomposed into one child per *)
(* chunk; the children are drained from the work queue, one call each,     *)
(* and the root is then synthesized from their results.  A benchmark run   *)
(* nests a validation call under the first chunk.  An action is the code   *)
(* between two awaits.                                                     *)
(*                                                                         *)
(* A node is its path from the root: << >> is the root, <<i>> the child of *)
(* chunk i, <<i, j>> the j-th validation call, made under chunk i.  The AC *)
(* node linked to an RLM node has the same path.                           *)
(***************************************************************************)
EXTENDS Naturals, Sequences, FiniteSets

CONSTANT Configs  \* the run configurations

MaxAcTreeDepth == 5

\* What _validate_config lets pass.
Config == [chunks        : Nat \ {0},  \* selected target chunks
           maxDepth      : 0 .. MaxAcTreeDepth,
           maxIterations : Nat \ {0},
           nested        : Nat,        \* validation calls the benchmark asks for
           dryRun        : BOOLEAN]

ASSUME ConfigAssumption == Configs \subseteq Config

VARIABLES
  config,
  pc,           \* where the coroutine stands
  active,       \* the node whose call is awaited
  run,          \* run_state
  reason,       \* termination_reason
  node,         \* RLM node |-> lifecycle state
  ac,           \* AC node |-> status
  queue,        \* work_queue
  iteration,
  nestedLeft,   \* nested_benchmark_calls_remaining
  results,      \* chunk call results recorded in the parent execution state
  nestedResults \* results of the validation calls

vars == <<config, pc, active, run, reason, node, ac, queue, iteration,
          nestedLeft, results, nestedResults>>

Root == << >>
Chunk(i) == <<i>>
Chunks == {Chunk(i) : i \in 1 .. config.chunks}
Depth(n) == Len(n)

PCs == {"guard", "begin", "drain", "root_call", "chunk_call", "nested_call",
        "synthesis_call", "returned", "raised"}
Calls == {"root_call", "chunk_call", "nested_call", "synthesis_call"}
RunStates == {"initialized", "guarding", "scheduling", "running_node",
              "synthesizing", "completed", "failed"}
NodeStates == {"queued", "preparing", "context_bound", "awaiting_hermes",
               "validating_response", "committing", "decomposed",
               "atomic_complete", "synthesis_complete", "failed"}
\* Of ACStatus the loop never uses "atomic".
AcStates == {"pending", "decomposed", "executing", "completed", "failed"}
Reasons == {"none", "dry_run_ready", "root_atomic_completed",
            "parent_synthesis_completed", "max_iterations_reached",
            "node_failed"}
Successes == {"atomic_complete", "synthesis_complete"}

With(f, n, v) == [m \in DOMAIN f \cup {n} |-> IF m = n THEN v ELSE f[m]]

Nodes == {Root} \cup Chunks \cup {<<i, j>> : i \in 1 .. config.chunks,
                                            j \in 1 .. config.nested}

TypeOK ==
  /\ config \in Configs
  /\ pc \in PCs
  /\ active \in DOMAIN node
  /\ run \in RunStates
  /\ reason \in Reasons
  /\ DOMAIN node \subseteq Nodes
  /\ \A n \in DOMAIN node : node[n] \in NodeStates
  /\ DOMAIN ac = DOMAIN node
  /\ \A n \in DOMAIN ac : ac[n] \in AcStates
  /\ queue \in Seq(DOMAIN node)
  /\ iteration \in 0 .. config.maxIterations
  /\ nestedLeft \in 0 .. config.nested
  /\ DOMAIN results \subseteq Chunks
  /\ DOMAIN nestedResults \subseteq Nodes \ Chunks
  /\ \A n \in DOMAIN results : results[n] \in BOOLEAN
  /\ \A n \in DOMAIN nestedResults : nestedResults[n] \in BOOLEAN

\* _validate_config has passed and initialize has made the root.
Init ==
  /\ config \in Configs
  /\ pc = "guard"
  /\ active = Root
  /\ run = "initialized"
  /\ reason = "none"
  /\ node = [n \in {Root} |-> "queued"]
  /\ ac = [n \in {Root} |-> "pending"]
  /\ queue = <<Root>>
  /\ iteration = 0
  /\ nestedLeft = 0
  /\ results = [n \in {} |-> TRUE]
  /\ nestedResults = [n \in {} |-> TRUE]

-----------------------------------------------------------------------------
(* Starting                                                                *)

Guard ==
  /\ pc = "guard"
  /\ IF config.dryRun
     THEN pc' = "returned" /\ run' = "completed" /\ reason' = "dry_run_ready"
     ELSE pc' = "begin" /\ run' = "scheduling" /\ reason' = reason
  /\ UNCHANGED <<config, active, node, ac, queue, iteration, nestedLeft,
                 results, nestedResults>>

ExecuteRootAtomically ==
  \/ config.chunks = 1 /\ config.nested = 0
  \/ Depth(Root) + 1 > config.maxDepth

\* ACTree.add_node for nodes made executing under a parent, which is decomposed
\* from then on, whatever its status was.
WithChildren(tree, parent, children) ==
  [n \in DOMAIN tree \cup children |->
     IF n \in children THEN "executing"
     ELSE IF n = parent THEN "decomposed" ELSE tree[n]]

\* The root is selected and called with all the chunks.
BeginAtomic ==
  /\ pc = "begin"
  /\ ExecuteRootAtomically
  /\ pc' = "root_call"
  /\ run' = "running_node"
  /\ node' = [node EXCEPT ![Root] = "awaiting_hermes"]
  /\ queue' = << >>
  /\ iteration' = iteration + 1
  /\ nestedLeft' = config.nested
  /\ UNCHANGED <<config, active, reason, ac, results, nestedResults>>

\* The root is selected and decomposed into a queued child per chunk.
BeginDecomposed ==
  /\ pc = "begin"
  /\ ~ ExecuteRootAtomically
  /\ pc' = "drain"
  /\ run' = "scheduling"
  /\ node' = [n \in {Root} \cup Chunks |->
                IF n = Root THEN "decomposed" ELSE "queued"]
  /\ ac' = WithChildren(ac, Root, Chunks)
  /\ queue' = [i \in 1 .. config.chunks |-> Chunk(i)]
  /\ iteration' = iteration + 1
  /\ nestedLeft' = config.nested
  /\ UNCHANGED <<config, active, reason, results, nestedResults>>

-----------------------------------------------------------------------------
(* The work queue                                                          *)

\* The next child is selected and called.
SelectChunk ==
  /\ pc = "drain"
  /\ queue # << >>
  /\ iteration < config.maxIterations
  /\ pc' = "chunk_call"
  /\ active' = Head(queue)
  /\ queue' = Tail(queue)
  /\ run' = "running_node"
  /\ node' = [node EXCEPT ![Head(queue)] = "awaiting_hermes"]
  /\ iteration' = iteration + 1
  /\ UNCHANGED <<config, reason, ac, nestedLeft, results, nestedResults>>

\* Mutant: the run is marked failed, but the loop goes on.
IterationsExhaustedUnraised ==
  /\ pc = "drain"
  /\ iteration >= config.maxIterations
  /\ run' = "failed"
  /\ reason' = "max_iterations_reached"
  /\ UNCHANGED <<config, pc, active, node, ac, queue, iteration, nestedLeft,
                 results, nestedResults>>

\* Neither another child nor the synthesis may be selected: the run fails and
\* the loop raises.
IterationsExhausted ==
  /\ pc = "drain"
  /\ iteration >= config.maxIterations
  /\ pc' = "raised"
  /\ run' = "failed"
  /\ reason' = "max_iterations_reached"
  /\ UNCHANGED <<config, active, node, ac, queue, iteration, nestedLeft,
                 results, nestedResults>>

\* complete_node for a child with its call's result.
Terminal(ok) == IF ok THEN "atomic_complete" ELSE "failed"

\* Mutant: the AC node is marked completed whatever became of its RLM node.
AcTerminalAlways(ok) == "completed"

AcTerminal(ok) == IF ok THEN "completed" ELSE "failed"

RunAfterNode == IF queue # << >> THEN "scheduling" ELSE run

ValidationDue == nestedLeft > 0 /\ Depth(active) + 1 <= config.maxDepth

\* Mutant: a failed chunk ends the drain.
ChunkAnswersOrStops(ok) ==
  /\ pc = "chunk_call"
  /\ ~ ValidationDue
  /\ results' = With(results, active, ok)
  /\ node' = [node EXCEPT ![active] = Terminal(ok)]
  /\ ac' = [ac EXCEPT ![active] = AcTerminal(ok)]
  /\ run' = RunAfterNode
  /\ queue' = IF ok THEN queue ELSE << >>
  /\ pc' = "drain"
  /\ UNCHANGED <<config, active, reason, iteration, nestedLeft, nestedResults>>

\* A chunk call returns and its node is committed, failed calls included.
ChunkAnswers(ok) ==
  /\ pc = "chunk_call"
  /\ ~ ValidationDue
  /\ results' = With(results, active, ok)
  /\ node' = [node EXCEPT ![active] = Terminal(ok)]
  /\ ac' = [ac EXCEPT ![active] = AcTerminal(ok)]
  /\ run' = RunAfterNode
  /\ pc' = "drain"
  /\ UNCHANGED <<config, active, reason, queue, iteration, nestedLeft,
                 nestedResults>>

Validation == Append(active, Cardinality(DOMAIN nestedResults) + 1)

\* A chunk call returns, and a validation call is made under it before its
\* node is committed.
ChunkAnswersAndNests(ok) ==
  /\ pc = "chunk_call"
  /\ ValidationDue
  /\ iteration < config.maxIterations
  /\ results' = With(results, active, ok)
  /\ node' = With([node EXCEPT ![active] = "validating_response"],
                  Validation, "awaiting_hermes")
  /\ ac' = WithChildren(ac, active, {Validation})
  /\ run' = "running_node"
  /\ active' = Validation
  /\ iteration' = iteration + 1
  /\ pc' = "nested_call"
  /\ UNCHANGED <<config, reason, queue, nestedLeft, nestedResults>>

\* The same, but the validation node may not be selected any more: it stays
\* queued, and the chunk's node is not committed.
ChunkAnswersExhausted(ok) ==
  /\ pc = "chunk_call"
  /\ ValidationDue
  /\ iteration >= config.maxIterations
  /\ results' = With(results, active, ok)
  /\ node' = With([node EXCEPT ![active] = "validating_response"],
                  Validation, "queued")
  /\ ac' = WithChildren(ac, active, {Validation})
  /\ queue' = Append(queue, Validation)
  /\ run' = "failed"
  /\ reason' = "max_iterations_reached"
  /\ pc' = "raised"
  /\ UNCHANGED <<config, active, iteration, nestedLeft, nestedResults>>

\* Mutant: the validation is counted when it is selected and when it returns.
NestedAnswersCountedTwice(ok) ==
  LET chunk == SubSeq(active, 1, 1) IN
  /\ pc = "nested_call"
  /\ nestedResults' = With(nestedResults, active, ok)
  /\ nestedLeft' = nestedLeft - 1
  /\ node' = [node EXCEPT ![active] = Terminal(ok),
                          ![chunk] = Terminal(results[chunk])]
  /\ ac' = [ac EXCEPT ![active] = AcTerminal(ok),
                      ![chunk] = AcTerminal(results[chunk])]
  /\ run' = RunAfterNode
  /\ iteration' = iteration + 1
  /\ pc' = "drain"
  /\ UNCHANGED <<config, active, reason, queue, results>>

\* Mutant: the validation's outcome replaces the chunk's.
NestedAnswersForTheChunk(ok) ==
  LET chunk == SubSeq(active, 1, 1) IN
  /\ pc = "nested_call"
  /\ nestedResults' = With(nestedResults, active, ok)
  /\ results' = With(results, chunk, ok)
  /\ nestedLeft' = nestedLeft - 1
  /\ node' = [node EXCEPT ![active] = Terminal(ok), ![chunk] = Terminal(ok)]
  /\ ac' = [ac EXCEPT ![active] = AcTerminal(ok), ![chunk] = AcTerminal(ok)]
  /\ run' = RunAfterNode
  /\ pc' = "drain"
  /\ UNCHANGED <<config, active, reason, queue, iteration>>

\* The validation call returns; its node and then the chunk's are committed.
NestedAnswers(ok) ==
  LET chunk == SubSeq(active, 1, 1) IN
  /\ pc = "nested_call"
  /\ nestedResults' = With(nestedResults, active, ok)
  /\ nestedLeft' = nestedLeft - 1
  /\ node' = [node EXCEPT ![active] = Terminal(ok),
                          ![chunk] = Terminal(results[chunk])]
  /\ ac' = [ac EXCEPT ![active] = AcTerminal(ok),
                      ![chunk] = AcTerminal(results[chunk])]
  /\ run' = RunAfterNode
  /\ pc' = "drain"
  /\ UNCHANGED <<config, active, reason, queue, iteration, results>>

-----------------------------------------------------------------------------
(* Ending                                                                  *)

\* Mutant: the synthesis is not held to the limit.
SynthesizeUnguarded ==
  /\ pc = "drain"
  /\ queue = << >>
  /\ pc' = "synthesis_call"
  /\ active' = Root
  /\ run' = "synthesizing"
  /\ node' = [node EXCEPT ![Root] = "awaiting_hermes"]
  /\ iteration' = iteration + 1
  /\ UNCHANGED <<config, reason, ac, queue, nestedLeft, results, nestedResults>>

\* The queue is drained: the root is called again, with every result.
Synthesize ==
  /\ pc = "drain"
  /\ queue = << >>
  /\ iteration < config.maxIterations
  /\ pc' = "synthesis_call"
  /\ active' = Root
  /\ run' = "synthesizing"
  /\ node' = [node EXCEPT ![Root] = "awaiting_hermes"]
  /\ iteration' = iteration + 1
  /\ UNCHANGED <<config, reason, ac, queue, nestedLeft, results, nestedResults>>

\* complete_node for the root, which finishes the run.
Finish(ok, success, why) ==
  /\ node' = [node EXCEPT ![Root] = IF ok THEN success ELSE "failed"]
  /\ ac' = [ac EXCEPT ![Root] = AcTerminal(ok)]
  /\ run' = IF ok THEN "completed" ELSE "failed"
  /\ reason' = IF ok THEN why ELSE "node_failed"
  /\ pc' = "returned"
  /\ UNCHANGED <<config, active, queue, iteration, nestedLeft, results,
                 nestedResults>>

RootAnswers(ok) ==
  /\ pc = "root_call"
  /\ Finish(ok, "atomic_complete", "root_atomic_completed")

AllSucceeded ==
  /\ \A n \in DOMAIN results : results[n]
  /\ \A n \in DOMAIN nestedResults : nestedResults[n]

\* Mutant: the synthesis call alone decides.
SynthesisAnswersAlone(ok) ==
  /\ pc = "synthesis_call"
  /\ Finish(ok, "synthesis_complete", "parent_synthesis_completed")

SynthesisAnswers(ok) ==
  /\ pc = "synthesis_call"
  /\ Finish(ok /\ AllSucceeded, "synthesis_complete", "parent_synthesis_completed")

\* The adapter reports an error, or the trace store raises: the exception
\* passes through the loop, which leaves everything as it was at the await.
CallRaises ==
  /\ pc \in Calls
  /\ pc' = "raised"
  /\ UNCHANGED <<config, active, run, reason, node, ac, queue, iteration,
                 nestedLeft, results, nestedResults>>

-----------------------------------------------------------------------------

Next ==
  \/ Guard \/ BeginAtomic \/ BeginDecomposed
  \/ SelectChunk \/ IterationsExhausted \/ Synthesize
  \/ \E ok \in BOOLEAN : \/ ChunkAnswers(ok)
                         \/ ChunkAnswersAndNests(ok)
                         \/ ChunkAnswersExhausted(ok)
                         \/ NestedAnswers(ok)
                         \/ RootAnswers(ok)
                         \/ SynthesisAnswers(ok)
  \/ CallRaises

Spec == Init /\ [][Next]_vars

\* Nothing but the calls waits.  The Hermes CLI runtime ends a call that stays
\* silent for its startup or its idle deadline; what is assumed beyond that is
\* that a call does not go on printing for ever.
FairSpec == Spec /\ WF_vars(Next)

-----------------------------------------------------------------------------
(* Properties                                                              *)

\* A run that completed has converged and owes it to every call it made: the
\* queue is empty, every AC node is completed, the root succeeded, and no chunk
\* or validation call failed or was left out.  (has_converged, which no caller
\* consults, and the success test of _synthesize_parent.)
Converged ==
  run = "completed" /\ reason # "dry_run_ready" =>
    /\ queue = << >>
    /\ node[Root] \in Successes
    /\ \A n \in DOMAIN ac : ac[n] = "completed"
    /\ reason = "parent_synthesis_completed" =>
         /\ DOMAIN node = {Root} \cup Chunks \cup DOMAIN nestedResults
         /\ \A c \in Chunks : c \in DOMAIN results /\ results[c]
         /\ \A n \in DOMAIN nestedResults : nestedResults[n]

\* The root is called for a synthesis only when every chunk's call has
\* returned, its node is committed as the call ended, nothing is queued, and
\* the validation calls asked for were made as far as depth and chunks allow.
SynthesisSeesEveryChild ==
  pc = "synthesis_call" =>
    /\ queue = << >>
    /\ DOMAIN results = Chunks
    /\ \A c \in Chunks : node[c] = Terminal(results[c])
    /\ DOMAIN node = {Root} \cup Chunks \cup DOMAIN nestedResults
    /\ config.maxDepth >= 2 =>
         nestedLeft = 0 \/ Cardinality(DOMAIN nestedResults) = config.chunks

Parent(n) == SubSeq(n, 1, Len(n) - 1)
HasChild(tree, n) == \E m \in tree \ {Root} : Parent(m) = n

\* The AC tree and the RLM tree agree: a node's AC node is completed or failed
\* exactly when the node is, and decomposed exactly when the node has not ended
\* and has a child; and the one node whose call is awaited is the one the state
\* shows as awaiting, no deeper than the configured depth.
TreesAgree ==
  /\ \A n \in DOMAIN node :
       /\ ac[n] = "completed" <=> node[n] \in Successes
       /\ ac[n] = "failed" <=> node[n] = "failed"
       /\ ac[n] = "decomposed" <=> /\ HasChild(DOMAIN node, n)
                                   /\ node[n] \notin Successes \cup {"failed"}
       /\ Depth(n) <= config.maxDepth
  /\ pc \in Calls => {n \in DOMAIN node : node[n] = "awaiting_hermes"} = {active}

\* The calls a run takes when none is refused: the root's selection, one per
\* chunk, the validations, and the synthesis.
ValidationsMade ==
  IF config.maxDepth < 2 THEN 0
  ELSE IF config.nested < config.chunks THEN config.nested ELSE config.chunks

IterationsNeeded == 2 + config.chunks + ValidationsMade

\* The iteration limit stops exactly the runs it is too small for: a run it
\* stops could not have finished within it, and a decomposed run that gets to
\* its synthesis has counted one iteration per call and one for the root.
LimitIsExact ==
  /\ reason = "max_iterations_reached" => config.maxIterations < IterationsNeeded
  /\ pc = "synthesis_call" => iteration = IterationsNeeded

\* What the calls under the root came to, validations included.
Gathered == [n \in DOMAIN results \cup DOMAIN nestedResults |->
               IF n \in DOMAIN results THEN results[n] ELSE nestedResults[n]]

Verdict == IF reason = "dry_run_ready" THEN "planned"
           ELSE IF run = "completed" THEN "answered"
           ELSE IF run = "failed" \/ pc = "raised" THEN "failed"
           ELSE "open"

\* The loop divides and gathers: what it has scheduled under the root are the
\* parts, each gets one result, which is kept, and a run completes only when
\* all of them have succeeded, and then for good.
Whole == INSTANCE DivideAndGather WITH
           Parts <- Seq(Nat), parts <- DOMAIN node \ {Root},
           results <- Gathered, verdict <- Verdict

ScaffoldGathers == Whole!Spec

\* Every run ends, by returning a result or by raising.
RunEnds == <>(pc \in {"returned", "raised"})

=============================================================================
