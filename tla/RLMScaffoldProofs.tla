------------------------- MODULE RLMScaffoldProofs -------------------------
(***************************************************************************)
(* What the recursive loop promises, for every configuration: any number   *)
(* of chunks, validation calls and iterations, every outcome of the calls  *)
(* and an exception from any of them; and that the TraceGuard gate over a  *)
(* returned run accepts exactly the answers it should.                     *)
(***************************************************************************)
EXTENDS RuntimeScaffoldGate, FiniteSetTheorems, SequenceTheorems, TLAPS

\* Chunks selected so far, those of them that are committed, and the
\* validations made.
Taken == config.chunks - Len(queue)
Busy == pc \in {"chunk_call", "nested_call"}
Committed == IF Busy THEN Taken - 1 ELSE Taken
Made == Cardinality(DOMAIN nestedResults)
Draining == pc \in {"drain", "chunk_call", "nested_call", "synthesis_call"}

TypesInv ==
  /\ config \in Config
  /\ iteration \in Nat
  /\ nestedLeft \in Nat
  /\ DOMAIN ac = DOMAIN node

\* Before the root is decomposed, and when it never is, it is the only node.
RootInv ==
  /\ pc = "guard" => run # "completed"
  /\ pc \in {"guard", "begin", "root_call"} =>
       /\ DOMAIN node = {Root}
       /\ active = Root
       /\ reason = "none"
       /\ iteration = (IF pc = "root_call" THEN 1 ELSE 0)
       /\ DOMAIN results = {} /\ DOMAIN nestedResults = {}
  /\ pc \in {"guard", "begin"} => node[Root] = "queued"
  /\ pc = "root_call" => node[Root] = "awaiting_hermes" /\ queue = << >>
  /\ pc \in {"root_call", "synthesis_call"} => active = Root

\* While the queue is drained, the counters and the results follow from the
\* number of chunks taken from it.
CountInv ==
  Draining =>
    /\ config.maxDepth >= 1
    /\ reason = "none"
    /\ queue \in Seq(Seq(Nat))
    /\ Len(queue) <= config.chunks
    /\ Busy => Len(queue) < config.chunks
    /\ pc = "synthesis_call" => queue = << >>
    /\ \A i \in 1 .. Len(queue) : queue[i] = Chunk(Taken + i)
    /\ IsFiniteSet(DOMAIN nestedResults)
    /\ Made = (IF config.maxDepth < 2 THEN 0
               ELSE IF config.nested < Committed THEN config.nested ELSE Committed)
    /\ nestedLeft = config.nested - Made
    /\ iteration = 1 + Taken + Made
                   + (IF pc \in {"nested_call", "synthesis_call"} THEN 1 ELSE 0)

\* And so do the nodes: a chunk's is committed, in hand or still queued.
NodeInv ==
  Draining =>
    /\ DOMAIN results = {Chunk(i) : i \in 1 .. (IF pc = "chunk_call" THEN Taken - 1 ELSE Taken)}
    /\ \A n \in DOMAIN nestedResults : Len(n) = 2 /\ n[1] \in 1 .. Committed
    /\ DOMAIN node = {Root} \cup Chunks \cup DOMAIN nestedResults
                     \cup (IF pc = "nested_call" THEN {active} ELSE {})
    /\ node[Root] = (IF pc = "synthesis_call" THEN "awaiting_hermes" ELSE "decomposed")
    /\ \A i \in 1 .. Committed : node[Chunk(i)] = Terminal(results[Chunk(i)])
    /\ \A n \in DOMAIN nestedResults : node[n] = Terminal(nestedResults[n])
    /\ \A i \in Taken + 1 .. config.chunks : node[Chunk(i)] = "queued"
    /\ pc = "chunk_call" => active = Chunk(Taken) /\ node[active] = "awaiting_hermes"
    /\ pc = "nested_call" => /\ active = <<Taken, Made + 1>>
                             /\ config.maxDepth >= 2 /\ nestedLeft > 0
                             /\ node[active] = "awaiting_hermes"
                             /\ node[Chunk(Taken)] = "validating_response"

MarksInv ==
  \A n \in DOMAIN node :
    /\ ac[n] = "completed" <=> node[n] \in Successes
    /\ ac[n] = "failed" <=> node[n] = "failed"
    /\ ac[n] = "decomposed" <=> /\ HasChild(DOMAIN node, n)
                                /\ node[n] \notin Successes \cup {"failed"}
    /\ Depth(n) <= config.maxDepth

EndInv ==
  /\ run = "completed" => pc = "returned"
  /\ reason = "max_iterations_reached" => config.maxIterations < IterationsNeeded
  /\ Converged

ScaffoldInv == TypesInv /\ RootInv /\ CountInv /\ NodeInv /\ MarksInv /\ EndInv

-----------------------------------------------------------------------------
(* Paths                                                                   *)

LEMMA Appended ==
  ASSUME NEW s \in Seq(Nat), NEW y \in Nat
  PROVE  /\ Append(s, y) \in Seq(Nat) /\ Len(Append(s, y)) = Len(s) + 1
         /\ \A m \in 1 .. Len(s) : Append(s, y)[m] = s[m]
         /\ Append(s, y)[Len(s) + 1] = y
OBVIOUS

LEMMA FunctionIsSequence ==
  ASSUME NEW n \in Nat, NEW S, NEW f \in [1 .. n -> S]
  PROVE  f \in Seq(S) /\ Len(f) = n
OBVIOUS

LEMMA PairIsAppended ==
  ASSUME NEW x \in Nat, NEW y \in Nat
  PROVE  Append(<<x>>, y) = <<x, y>>
<1>1. <<x>> \in Seq(Nat) /\ Len(<<x>>) = 1 /\ <<x>>[1] = x
  OBVIOUS
<1>2. /\ Append(<<x>>, y) \in Seq(Nat) /\ Len(Append(<<x>>, y)) = Len(<<x>>) + 1
      /\ \A m \in 1 .. Len(<<x>>) : Append(<<x>>, y)[m] = <<x>>[m]
      /\ Append(<<x>>, y)[Len(<<x>>) + 1] = y
  BY <1>1, Appended, Zenon
<1>3. Len(<<x>>) + 1 = 2 /\ 1 \in 1 .. Len(<<x>>)
  BY <1>1
<1>4. /\ Len(Append(<<x>>, y)) = 2 /\ Append(<<x>>, y)[1] = x /\ Append(<<x>>, y)[2] = y
  BY <1>1, <1>2, <1>3, Zenon
<1>5. <<x, y>> \in Seq(Nat) /\ Len(<<x, y>>) = 2 /\ <<x, y>>[1] = x /\ <<x, y>>[2] = y
  OBVIOUS
<1>6. \A m \in 1 .. 2 : m = 1 \/ m = 2
  OBVIOUS
<1>7. \A m \in 1 .. 2 : Append(<<x>>, y)[m] = <<x, y>>[m]
  BY <1>4, <1>5, <1>6, Zenon
<1>8. QED
  BY <1>2, <1>4, <1>5, <1>7, SeqEqual, Zenon

LEMMA Paths ==
  ASSUME NEW i \in Nat
  PROVE  /\ Chunk(i) \in Seq(Nat) /\ Len(Chunk(i)) = 1 /\ Chunk(i)[1] = i
         /\ Chunk(i) # Root /\ Len(Root) = 0
         /\ \A j \in Nat : /\ Append(Chunk(i), j) = <<i, j>>
                           /\ <<i, j>> \in Seq(Nat) /\ Len(<<i, j>>) = 2 /\ <<i, j>>[1] = i
                           /\ SubSeq(<<i, j>>, 1, 1) = Chunk(i)
                           /\ <<i, j>> # Root
                           /\ \A k \in Nat : <<i, j>> # Chunk(k)
         /\ \A k \in Nat : Chunk(k) = Chunk(i) => k = i
<1>1. /\ Chunk(i) \in Seq(Nat) /\ Len(Chunk(i)) = 1 /\ Chunk(i)[1] = i
      /\ Chunk(i) # Root /\ Len(Root) = 0
  BY DEF Chunk, Root
<1>2. \A k \in Nat : Chunk(k) = Chunk(i) => k = i
  BY DEF Chunk
<1>3. ASSUME NEW j \in Nat
      PROVE  /\ Append(Chunk(i), j) = <<i, j>>
             /\ <<i, j>> \in Seq(Nat) /\ Len(<<i, j>>) = 2 /\ <<i, j>>[1] = i
  BY PairIsAppended DEF Chunk
<1>4. ASSUME NEW j \in Nat
      PROVE  /\ <<i, j>> # Root
             /\ \A k \in Nat : <<i, j>> # Chunk(k)
  <2>1. Len(<<i, j>>) = 2 /\ Len(Root) = 0
    BY DEF Root
  <2>2. \A k \in Nat : Len(Chunk(k)) = 1
    BY DEF Chunk
  <2>3. QED
    BY <2>1, <2>2
<1>5. ASSUME NEW j \in Nat
      PROVE  SubSeq(<<i, j>>, 1, 1) = Chunk(i)
  <2>1. /\ <<i, j>> \in Seq(Nat) /\ Len(<<i, j>>) = 2 /\ <<i, j>>[1] = i
    OBVIOUS
  <2>2. /\ Len(SubSeq(<<i, j>>, 1, 1)) = 1 /\ SubSeq(<<i, j>>, 1, 1) \in Seq(Nat)
        /\ SubSeq(<<i, j>>, 1, 1)[1] = i
    BY <2>1, SubSeqProperties
  <2>3. QED
    BY <2>2, SeqEqual, <1>1
<1>6. QED
  BY <1>1, <1>2, <1>3, <1>4, <1>5

LEMMA ChunksDiffer ==
  \A i, k \in Nat : /\ Chunk(i) # Root /\ Len(Chunk(i)) = 1
                    /\ Chunk(i) = Chunk(k) => i = k
BY Paths

LEMMA ChildOfChunk == \A i, j \in Nat : Append(Chunk(i), j) = <<i, j>>
BY Paths

LEMMA PairsDiffer ==
  \A i, j \in Nat : \A p : p = <<i, j>> =>
    /\ Len(p) = 2 /\ p[1] = i
    /\ SubSeq(p, 1, 1) = Chunk(i)
    /\ p # Root
    /\ \A k \in Nat : p # Chunk(k)
BY Paths

LEMMA RootAlone == \A n : ~ HasChild({Root}, n)
BY DEF HasChild

\* Under the chunks there is nothing yet.
LEMMA ChunksUnderRoot ==
  ASSUME config.chunks \in Nat \ {0}
  PROVE  \A n : HasChild({Root} \cup Chunks, n) <=> n = Root
<1>1. ASSUME NEW m \in Chunks
      PROVE  m # Root /\ Parent(m) = Root
  <2>1. PICK i \in 1 .. config.chunks : m = Chunk(i)
    BY DEF Chunks
  <2>2. m \in Seq(Nat) /\ Len(m) = 1 /\ m # Root
    BY <2>1, Paths
  <2>3. SubSeq(m, 1, 0) = << >>
    BY <2>2, SubSeqEmpty
  <2>4. QED
    BY <2>2, <2>3 DEF Parent, Root
<1>2. Chunk(1) \in Chunks
  BY DEF Chunks
<1>3. QED
  BY <1>1, <1>2 DEF HasChild

\* A validation is the child of its chunk and has none.
LEMMA ChildAdded ==
  ASSUME NEW S, NEW i \in Nat, NEW j \in Nat, NEW p, p = <<i, j>>
  PROVE  \A n : HasChild(S \cup {p}, n) <=> HasChild(S, n) \/ n = Chunk(i)
<1>1. Len(p) = 2 /\ p # Root /\ SubSeq(p, 1, 1) = Chunk(i)
  BY PairsDiffer
<1>2. Parent(p) = Chunk(i)
  BY <1>1 DEF Parent
<1>3. QED
  BY <1>1, <1>2 DEF HasChild

LEMMA ShortParent ==
  ASSUME NEW m, Len(m) \in {1, 2}
  PROVE  Len(Parent(m)) \in {0, 1}
<1>1. CASE Len(m) = 1
  <2>1. Parent(m) = SubSeq(m, 1, 0)
    BY <1>1 DEF Parent
  <2>2. SubSeq(m, 1, 0) = << >>
    BY SubSeqEmpty
  <2>3. QED
    BY <2>1, <2>2
<1>2. CASE Len(m) = 2
  <2>1. Parent(m) = SubSeq(m, 1, 1)
    BY <1>2 DEF Parent
  <2>2. \A k \in 1 .. 1 : m[k] \in {m[1]}
    <3>1. \A k \in 1 .. 1 : k = 1
      OBVIOUS
    <3>2. QED
      BY <3>1, Zenon
  <2> DEFINE first == {m[1]}
  <2>3. \A k \in 1 .. 1 : m[k] \in first
    BY <2>2
  <2> HIDE DEF first
  <2>4. Len(SubSeq(m, 1, 1)) = 1
    BY <2>3, SubSeqProperties
  <2>5. QED
    BY <2>1, <2>4
<1>3. QED
  BY <1>1, <1>2

LEMMA PairsAreLeaves ==
  ASSUME NEW S, \A m \in S : m = Root \/ Len(m) \in {1, 2},
         NEW p, Len(p) = 2
  PROVE  ~ HasChild(S, p)
<1>1. ASSUME NEW m \in S \ {Root}
      PROVE  Parent(m) # p
  <2>1. Len(Parent(m)) \in {0, 1}
    BY ShortParent
  <2>2. QED
    BY <2>1
<1>2. QED
  BY <1>1 DEF HasChild

-----------------------------------------------------------------------------
(* Starting                                                                *)

LEMMA ScaffoldInit == Init => ScaffoldInv
<1> SUFFICES ASSUME Init
             PROVE  ScaffoldInv
  OBVIOUS
<1>1. config \in Config
  BY ConfigAssumption DEF Init
<1>2. TypesInv /\ RootInv
  BY <1>1 DEF Init, TypesInv, RootInv
<1>3. CountInv /\ NodeInv
  BY DEF Init, CountInv, NodeInv, Draining
<1>4. MarksInv
  <2>1. /\ DOMAIN node = {Root} /\ node[Root] = "queued" /\ ac[Root] = "pending"
        /\ Depth(Root) <= config.maxDepth
    BY <1>1 DEF Init, Depth, Root, Config
  <2>2. QED
    BY <2>1, RootAlone DEF MarksInv, Successes
<1>5. EndInv
  BY DEF Init, EndInv, Converged
<1>6. QED
  BY <1>2, <1>3, <1>4, <1>5 DEF ScaffoldInv

LEMMA GuardKeeps == ScaffoldInv /\ Guard => ScaffoldInv'
<1> SUFFICES ASSUME ScaffoldInv, Guard
             PROVE  ScaffoldInv'
  OBVIOUS
<1> USE DEF ScaffoldInv
<1>1. TypesInv' /\ RootInv' /\ MarksInv'
  BY DEF Guard, TypesInv, RootInv, MarksInv
<1>2. CountInv' /\ NodeInv'
  BY DEF Guard, CountInv, NodeInv, Draining
<1>3. EndInv'
  BY DEF Guard, EndInv, RootInv, Converged
<1>4. QED
  BY <1>1, <1>2, <1>3

LEMMA BeginAtomicKeeps == ScaffoldInv /\ BeginAtomic => ScaffoldInv'
<1> SUFFICES ASSUME ScaffoldInv, BeginAtomic
             PROVE  ScaffoldInv'
  OBVIOUS
<1> USE DEF ScaffoldInv
<1>1. TypesInv' /\ RootInv'
  BY DEF BeginAtomic, TypesInv, RootInv, Config
<1>2. CountInv' /\ NodeInv'
  BY DEF BeginAtomic, CountInv, NodeInv, Draining
<1>3. MarksInv'
  <2>1. /\ DOMAIN node = {Root} /\ DOMAIN node' = {Root} /\ UNCHANGED <<ac, config>>
        /\ node'[Root] = "awaiting_hermes" /\ node[Root] = "queued"
    BY DEF BeginAtomic, RootInv
  <2>2. QED
    BY <2>1, RootAlone DEF MarksInv, Successes
<1>4. EndInv'
  BY DEF BeginAtomic, EndInv, RootInv, Converged
<1>5. QED
  BY <1>1, <1>2, <1>3, <1>4

LEMMA BeginDecomposedKeeps == ScaffoldInv /\ BeginDecomposed => ScaffoldInv'
<1> SUFFICES ASSUME ScaffoldInv, BeginDecomposed
             PROVE  ScaffoldInv'
  OBVIOUS
<1> USE DEF ScaffoldInv
<1>1. /\ config' = config /\ config \in Config /\ config.chunks \in Nat /\ config.maxDepth >= 1
      /\ config.nested \in Nat
  BY DEF BeginDecomposed, TypesInv, Config, ExecuteRootAtomically, Depth, Root
<1>2. TypesInv' /\ RootInv'
  <2>1. DOMAIN ac' = {Root} \cup Chunks /\ DOMAIN node' = {Root} \cup Chunks
    BY DEF BeginDecomposed, WithChildren, RootInv, TypesInv
  <2>2. QED
    BY <1>1, <2>1 DEF BeginDecomposed, TypesInv, RootInv
<1>3. /\ queue' = [i \in 1 .. config.chunks |-> Chunk(i)]
      /\ queue' \in Seq(Seq(Nat)) /\ Len(queue') = config.chunks
      /\ Taken' = 0 /\ Committed' = 0 /\ ~ Busy' /\ pc' = "drain"
  <2>1. \A i \in 1 .. config.chunks : Chunk(i) \in Seq(Nat)
    BY <1>1, Paths
  <2>2. queue' = [i \in 1 .. config.chunks |-> Chunk(i)] /\ pc' = "drain"
    BY DEF BeginDecomposed
  <2>3. queue' \in Seq(Seq(Nat)) /\ Len(queue') = config.chunks
    <3>1. queue' \in [1 .. config.chunks -> Seq(Nat)]
      BY <2>1, <2>2
    <3>2. QED
      BY <1>1, <3>1, FunctionIsSequence, Zenon
  <2>4. QED
    BY <1>1, <2>2, <2>3 DEF Taken, Committed, Busy
<1>4. DOMAIN nestedResults = {} /\ nestedResults' = nestedResults
      /\ IsFiniteSet({}) /\ Cardinality({}) = 0
  BY FS_EmptySet DEF BeginDecomposed, RootInv
<1>5. CountInv'
  BY <1>1, <1>3, <1>4 DEF BeginDecomposed, CountInv, Made, RootInv
<1>6. NodeInv'
  <2>1. /\ \A i \in 1 .. config.chunks : Chunk(i) # Root /\ Chunk(i) \in Chunks
        /\ Chunks' = Chunks
    BY <1>1, Paths DEF Chunks, BeginDecomposed
  <2>2. /\ node' = [n \in {Root} \cup Chunks |-> IF n = Root THEN "decomposed" ELSE "queued"]
        /\ results' = results /\ DOMAIN results = {}
    BY DEF BeginDecomposed, RootInv
  <2>3. /\ DOMAIN node' = {Root} \cup Chunks
        /\ node'[Root] = "decomposed"
        /\ \A i \in 1 .. config.chunks : node'[Chunk(i)] = "queued"
    BY <2>1, <2>2
  <2>4. QED
    BY <1>1, <1>3, <1>4, <2>1, <2>2, <2>3 DEF NodeInv
<1>7. MarksInv'
  <2>1. \A n \in Chunks : n # Root /\ Depth(n) = 1
    BY <1>1, Paths DEF Chunks, Depth
  <2>2. /\ DOMAIN node' = {Root} \cup Chunks
        /\ \A n \in DOMAIN node' :
             /\ node'[n] = IF n = Root THEN "decomposed" ELSE "queued"
             /\ ac'[n] = IF n = Root THEN "decomposed" ELSE "executing"
    BY <2>1 DEF BeginDecomposed, WithChildren, RootInv, TypesInv
  <2>3. Depth(Root) <= config.maxDepth
    BY DEF BeginDecomposed, RootInv, MarksInv
  <2>4. \A n : HasChild(DOMAIN node', n) <=> n = Root
    BY <1>1, <2>2, ChunksUnderRoot DEF Config
  <2>5. QED
    BY <1>1, <2>1, <2>2, <2>3, <2>4 DEF MarksInv, Successes
<1>8. EndInv'
  BY DEF BeginDecomposed, EndInv, RootInv, Converged
<1>9. QED
  BY <1>2, <1>5, <1>6, <1>7, <1>8

-----------------------------------------------------------------------------
(* Draining the queue                                                      *)

LEMMA Numbers ==
  ASSUME TypesInv, CountInv, Draining
  PROVE  /\ config.chunks \in Nat \ {0} /\ config.nested \in Nat
         /\ config.maxDepth \in Nat /\ config.maxDepth >= 1
         /\ config.maxIterations \in Nat
         /\ Len(queue) \in Nat /\ Taken \in 0 .. config.chunks
         /\ Committed \in 0 .. config.chunks /\ Committed <= Taken
         /\ Busy => Taken >= 1 /\ Committed = Taken - 1
         /\ Made \in Nat /\ Made <= Committed
<1>1. config \in Config /\ Len(queue) \in Nat
  BY DEF TypesInv, CountInv
<1>2. /\ config.chunks \in Nat \ {0} /\ config.nested \in Nat
      /\ config.maxDepth \in Nat /\ config.maxDepth >= 1 /\ config.maxIterations \in Nat
  BY <1>1 DEF Config, CountInv, MaxAcTreeDepth
<1>3. Taken \in 0 .. config.chunks /\ (Busy => Taken >= 1)
  BY <1>1, <1>2 DEF CountInv, Taken
<1>4. /\ Committed \in 0 .. config.chunks /\ Committed <= Taken
      /\ Busy => Committed = Taken - 1
  BY <1>2, <1>3 DEF Committed
<1>5. Made \in Nat /\ Made <= Committed
  BY <1>2, <1>4 DEF CountInv
<1>6. QED
  BY <1>1, <1>2, <1>3, <1>4, <1>5

LEMMA SelectChunkKeeps == ScaffoldInv /\ SelectChunk => ScaffoldInv'
<1> SUFFICES ASSUME ScaffoldInv, SelectChunk
             PROVE  ScaffoldInv'
  OBVIOUS
<1> USE DEF ScaffoldInv
<1>1. /\ pc = "drain" /\ Draining /\ ~ Busy /\ pc' = "chunk_call" /\ Draining' /\ Busy'
      /\ UNCHANGED <<config, reason, ac, nestedLeft, results, nestedResults>>
      /\ Made' = Made /\ Chunks' = Chunks
  BY DEF SelectChunk, Draining, Busy, Made, Chunks
<1>2. /\ config.chunks \in Nat \ {0} /\ config.nested \in Nat
      /\ Taken \in 0 .. config.chunks /\ Committed = Taken
      /\ Made \in Nat
  BY <1>1, Numbers DEF Committed
<1>3. /\ queue \in Seq(Seq(Nat)) /\ queue # << >> /\ Len(queue) \in Nat \ {0}
      /\ queue' = Tail(queue)
      /\ queue' \in Seq(Seq(Nat)) /\ Len(queue') = Len(queue) - 1
      /\ \A i \in 1 .. Len(queue') : queue'[i] = queue[i + 1]
      /\ Head(queue) = queue[1]
  <2>1. queue \in Seq(Seq(Nat)) /\ queue # << >> /\ queue' = Tail(queue)
    BY <1>1 DEF SelectChunk, CountInv
  <2>2. QED
    BY <2>1
<1>4. /\ Taken' = Taken + 1 /\ Committed' = Taken /\ Taken < config.chunks
      /\ active' = Chunk(Taken')
  <2>1. Taken' = Taken + 1 /\ Taken < config.chunks
    <3>1. /\ Taken' = config.chunks - Len(queue')
          /\ Taken = config.chunks - Len(queue)
      BY <1>1 DEF Taken
    <3>2. /\ Len(queue') = Len(queue) - 1 /\ Len(queue) \in Nat \ {0}
          /\ config.chunks \in Nat
      BY <1>2, <1>3
    <3>3. QED
      BY <3>1, <3>2
  <2>2. Head(queue) = Chunk(Taken + 1)
    BY <1>1, <1>2, <1>3 DEF CountInv
  <2>3. QED
    BY <1>1, <1>2, <2>1, <2>2 DEF SelectChunk, Committed
<1>5. /\ node' = [node EXCEPT ![active'] = "awaiting_hermes"]
      /\ DOMAIN node = {Root} \cup Chunks \cup DOMAIN nestedResults
      /\ active' \in DOMAIN node /\ node[active'] = "queued"
      /\ active' # Root
  <2>1. active' = Head(queue) /\ node' = [node EXCEPT ![active'] = "awaiting_hermes"]
    BY DEF SelectChunk
  <2>2. DOMAIN node = {Root} \cup Chunks \cup DOMAIN nestedResults
    BY <1>1 DEF NodeInv
  <2>3. Taken' \in 1 .. config.chunks /\ Taken' \in Taken + 1 .. config.chunks
    BY <1>2, <1>4
  <2>4. active' \in Chunks /\ active' # Root
    BY <1>2, <1>4, <2>3, ChunksDiffer DEF Chunks
  <2>5. node[active'] = "queued"
    BY <1>1, <1>4, <2>3 DEF NodeInv
  <2>6. QED
    BY <2>1, <2>2, <2>4, <2>5
<1>6. TypesInv'
  BY <1>1, <1>5 DEF SelectChunk, TypesInv
<1>7. RootInv'
  BY <1>1 DEF SelectChunk, RootInv
<1>8. CountInv'
  <2>1. \A i \in 1 .. Len(queue') : queue'[i] = Chunk(Taken' + i)
    <3>1. ASSUME NEW i \in 1 .. Len(queue')
          PROVE  queue'[i] = Chunk(Taken' + i)
      <4>1. i + 1 \in 1 .. Len(queue) /\ Taken + (i + 1) = Taken' + i
        BY <1>2, <1>3, <1>4
      <4>2. queue'[i] = queue[i + 1] /\ queue[i + 1] = Chunk(Taken + (i + 1))
        BY <1>1, <1>3, <4>1 DEF CountInv
      <4>3. QED
        BY <4>1, <4>2
    <3>2. QED
      BY <3>1
  <2>2. /\ Len(queue') <= config.chunks /\ Len(queue') < config.chunks
        /\ iteration' = 1 + Taken' + Made'
    BY <1>1, <1>2, <1>3, <1>4 DEF SelectChunk, CountInv
  <2>3. QED
    BY <1>1, <1>2, <1>3, <1>4, <2>1, <2>2 DEF CountInv
<1>9. NodeInv'
  <2>1. \A n \in DOMAIN node : n # active' => node'[n] = node[n]
    BY <1>5
  <2>2. node'[active'] = "awaiting_hermes" /\ DOMAIN node' = DOMAIN node
    BY <1>5
  <2>3. \A i \in 1 .. config.chunks : Chunk(i) \in DOMAIN node /\ (i # Taken' => Chunk(i) # active')
    <3>1. \A i \in 1 .. config.chunks : i \in Nat /\ Chunk(i) \in Chunks
      BY <1>2 DEF Chunks
    <3>2. Taken' \in Nat
      BY <1>2, <1>4
    <3>3. QED
      BY <1>4, <1>5, <3>1, <3>2, ChunksDiffer
  <2>4. \A i \in 1 .. Taken : node'[Chunk(i)] = Terminal(results[Chunk(i)])
    BY <1>1, <1>2, <1>4, <2>1, <2>3 DEF NodeInv
  <2>5. \A i \in Taken' + 1 .. config.chunks : node'[Chunk(i)] = "queued"
    BY <1>1, <1>2, <1>4, <2>1, <2>3 DEF NodeInv
  <2>6. \A n \in DOMAIN nestedResults : n # active' /\ n \in DOMAIN node
    <3>1. \A n \in DOMAIN nestedResults : Len(n) = 2
      BY <1>1 DEF NodeInv
    <3>2. Len(active') = 1
      BY <1>2, <1>4, ChunksDiffer
    <3>3. QED
      BY <1>5, <3>1, <3>2
  <2>7. QED
    BY <1>1, <1>2, <1>4, <1>5, <2>1, <2>2, <2>4, <2>5, <2>6 DEF NodeInv
<1>10. MarksInv'
  BY <1>1, <1>5 DEF MarksInv, Successes
<1>11. EndInv'
  BY <1>1 DEF SelectChunk, EndInv, Converged, CountInv
<1>12. QED
  BY <1>6, <1>7, <1>8, <1>9, <1>10, <1>11

LEMMA SynthesizeKeeps == ScaffoldInv /\ Synthesize => ScaffoldInv'
<1> SUFFICES ASSUME ScaffoldInv, Synthesize
             PROVE  ScaffoldInv'
  OBVIOUS
<1> USE DEF ScaffoldInv
<1>1. /\ pc = "drain" /\ Draining /\ ~ Busy /\ pc' = "synthesis_call" /\ Draining' /\ ~ Busy'
      /\ UNCHANGED <<config, reason, ac, queue, nestedLeft, results, nestedResults>>
      /\ Made' = Made /\ Chunks' = Chunks /\ Taken' = Taken /\ Committed' = Taken
      /\ Committed = Taken
      /\ active' = Root /\ node' = [node EXCEPT ![Root] = "awaiting_hermes"]
  BY DEF Synthesize, Draining, Busy, Made, Chunks, Taken, Committed
<1>2. /\ config.chunks \in Nat /\ Taken \in 0 .. config.chunks /\ Made \in Nat
      /\ config.nested \in Nat
  BY <1>1, Numbers
<1>3. /\ DOMAIN node = {Root} \cup Chunks \cup DOMAIN nestedResults
      /\ DOMAIN node' = DOMAIN node
      /\ node'[Root] = "awaiting_hermes"
      /\ \A n \in DOMAIN node : n # Root => node'[n] = node[n]
  BY <1>1 DEF NodeInv
<1>4. TypesInv' /\ RootInv'
  BY <1>1, <1>3 DEF Synthesize, TypesInv, RootInv
<1>5. CountInv'
  BY <1>1, <1>2 DEF Synthesize, CountInv
<1>6. NodeInv'
  <2>1. \A j \in 1 .. config.chunks : Chunk(j) # Root /\ Chunk(j) \in DOMAIN node
    BY <1>2, <1>3, ChunksDiffer DEF Chunks
  <2>2. \A n \in DOMAIN nestedResults : n # Root /\ n \in DOMAIN node
    <3>1. \A n \in DOMAIN nestedResults : Len(n) = 2
      BY <1>1 DEF NodeInv
    <3>2. Len(Root) = 0
      BY DEF Root
    <3>3. QED
      BY <1>3, <3>1, <3>2
  <2>3. QED
    BY <1>1, <1>2, <1>3, <2>1, <2>2 DEF NodeInv
<1>7. MarksInv'
  <2>1. ac[Root] \notin {"completed", "failed"}
    BY <1>1, <1>3 DEF MarksInv, NodeInv, Successes
  <2>2. QED
    BY <1>1, <1>3, <2>1 DEF MarksInv, Successes
<1>8. EndInv'
  BY <1>1 DEF Synthesize, EndInv, Converged, CountInv
<1>9. QED
  BY <1>4, <1>5, <1>6, <1>7, <1>8

LEMMA ChunkAnswersKeeps ==
  ASSUME ScaffoldInv, NEW ok \in BOOLEAN, ChunkAnswers(ok)
  PROVE  ScaffoldInv'
<1> USE DEF ScaffoldInv
<1>1. /\ pc = "chunk_call" /\ Draining /\ Busy /\ pc' = "drain" /\ Draining' /\ ~ Busy'
      /\ UNCHANGED <<config, active, reason, queue, iteration, nestedLeft, nestedResults>>
      /\ Made' = Made /\ Chunks' = Chunks /\ Taken' = Taken /\ Committed' = Taken
      /\ node' = [node EXCEPT ![active] = Terminal(ok)]
      /\ ac' = [ac EXCEPT ![active] = AcTerminal(ok)]
      /\ results' = With(results, active, ok)
      /\ ~ ValidationDue
  BY DEF ChunkAnswers, Draining, Busy, Made, Chunks, Taken, Committed
<1>2. /\ config.chunks \in Nat /\ Taken \in 1 .. config.chunks /\ Made \in Nat
      /\ config.nested \in Nat /\ config.maxDepth \in Nat /\ Committed = Taken - 1
      /\ nestedLeft \in Nat
  BY <1>1, Numbers DEF TypesInv
<1>3. /\ active = Chunk(Taken) /\ active \in Chunks /\ active # Root
      /\ DOMAIN node = {Root} \cup Chunks \cup DOMAIN nestedResults
      /\ active \in DOMAIN node /\ DOMAIN node' = DOMAIN node
      /\ node'[active] = Terminal(ok)
      /\ \A n \in DOMAIN node : n # active => node'[n] = node[n]
  <2>1. active = Chunk(Taken) /\ DOMAIN node = {Root} \cup Chunks \cup DOMAIN nestedResults
    BY <1>1 DEF NodeInv
  <2>2. active \in Chunks /\ active # Root
    BY <1>2, <2>1, ChunksDiffer DEF Chunks
  <2>3. QED
    BY <1>1, <2>1, <2>2
<1>4. TypesInv' /\ RootInv'
  BY <1>1, <1>3 DEF TypesInv, RootInv
<1>5. CountInv'
  <2>1. Depth(active) = 1
    BY <1>2, <1>3, ChunksDiffer DEF Depth
  <2>2. config.maxDepth < 2 \/ nestedLeft = 0
    BY <1>1, <1>2, <2>1 DEF ValidationDue
  <2>3. Made = IF config.maxDepth < 2 THEN 0
               ELSE IF config.nested < Taken THEN config.nested ELSE Taken
    BY <1>1, <1>2, <2>2 DEF CountInv
  <2>4. QED
    BY <1>1, <1>2, <2>3 DEF CountInv
<1>6. NodeInv'
  <2>1. \A i \in 1 .. config.chunks : Chunk(i) \in DOMAIN node /\ (i # Taken => Chunk(i) # active)
    <3>1. \A i \in 1 .. config.chunks : i \in Nat /\ Chunk(i) \in Chunks
      BY <1>2 DEF Chunks
    <3>2. QED
      BY <1>2, <1>3, <3>1, ChunksDiffer
  <2>2. /\ DOMAIN results = {Chunk(i) : i \in 1 .. Taken - 1}
        /\ \A i \in 1 .. Taken - 1 : node[Chunk(i)] = Terminal(results[Chunk(i)])
    BY <1>1, <1>2 DEF NodeInv
  <2>3. /\ DOMAIN results' = DOMAIN results \cup {active}
        /\ results'[active] = ok
        /\ \A n \in DOMAIN results : n # active => results'[n] = results[n]
    BY <1>1 DEF With
  <2>4. DOMAIN results' = {Chunk(i) : i \in 1 .. Taken}
    BY <1>2, <1>3, <2>2, <2>3
  <2>5. \A i \in 1 .. Taken : node'[Chunk(i)] = Terminal(results'[Chunk(i)])
    <3>1. \A i \in 1 .. Taken : i = Taken \/ (i \in 1 .. Taken - 1 /\ i \in 1 .. config.chunks)
      BY <1>2
    <3>2. \A i \in 1 .. Taken - 1 : Chunk(i) \in DOMAIN results
      BY <2>2
    <3>3. QED
      BY <1>2, <1>3, <2>1, <2>2, <2>3, <3>1, <3>2
  <2>6. \A i \in Taken + 1 .. config.chunks : node'[Chunk(i)] = "queued"
    BY <1>1, <1>2, <1>3, <2>1 DEF NodeInv
  <2>7. \A n \in DOMAIN nestedResults : n # active /\ Len(n) = 2 /\ n[1] \in 1 .. Taken
    <3>1. \A n \in DOMAIN nestedResults : Len(n) = 2 /\ n[1] \in 1 .. Taken - 1
      BY <1>1, <1>2 DEF NodeInv
    <3>2. Len(active) = 1
      BY <1>2, <1>3, ChunksDiffer
    <3>3. QED
      BY <1>2, <3>1, <3>2
  <2>8. node'[Root] = "decomposed"
    BY <1>1, <1>3 DEF NodeInv
  <2>9. \A n \in DOMAIN nestedResults : node'[n] = Terminal(nestedResults[n])
    BY <1>1, <1>3, <2>7 DEF NodeInv
  <2>10. QED
    BY <1>1, <1>2, <1>3, <2>4, <2>5, <2>6, <2>7, <2>8, <2>9 DEF NodeInv
<1>7. MarksInv'
  BY <1>1, <1>3 DEF MarksInv, Successes, Terminal, AcTerminal, TypesInv
<1>8. EndInv'
  BY <1>1 DEF ChunkAnswers, RunAfterNode, EndInv, Converged, CountInv
<1>9. QED
  BY <1>4, <1>5, <1>6, <1>7, <1>8

\* The validation about to be added has no child yet.
LEMMA ValidationHasNone ==
  ASSUME TypesInv, CountInv, NodeInv, pc = "chunk_call", NEW p, Len(p) = 2
  PROVE  ~ HasChild(DOMAIN node, p)
<1>1. Draining /\ config.chunks \in Nat
  BY Numbers DEF Draining
<1>2. DOMAIN node = {Root} \cup Chunks \cup DOMAIN nestedResults
  BY <1>1 DEF NodeInv
<1>3. \A m \in Chunks : Len(m) = 1
  BY <1>1, ChunksDiffer DEF Chunks
<1>4. \A m \in DOMAIN nestedResults : Len(m) = 2
  BY <1>1 DEF NodeInv
<1>5. QED
  BY <1>2, <1>3, <1>4, PairsAreLeaves

LEMMA ChunkAnswersAndNestsKeeps ==
  ASSUME ScaffoldInv, NEW ok \in BOOLEAN, ChunkAnswersAndNests(ok)
  PROVE  ScaffoldInv'
<1> USE DEF ScaffoldInv
<1>1. /\ pc = "chunk_call" /\ Draining /\ Busy /\ pc' = "nested_call" /\ Draining' /\ Busy'
      /\ UNCHANGED <<config, reason, queue, nestedLeft, nestedResults>>
      /\ Made' = Made /\ Chunks' = Chunks /\ Taken' = Taken /\ Committed' = Committed
      /\ node' = With([node EXCEPT ![active] = "validating_response"], Validation,
                      "awaiting_hermes")
      /\ ac' = WithChildren(ac, active, {Validation})
      /\ results' = With(results, active, ok)
      /\ active' = Validation /\ iteration' = iteration + 1
      /\ ValidationDue
  BY DEF ChunkAnswersAndNests, Draining, Busy, Made, Chunks, Taken, Committed
<1>2. /\ config.chunks \in Nat /\ Taken \in 1 .. config.chunks /\ Made \in Nat
      /\ config.nested \in Nat /\ config.maxDepth \in Nat /\ Committed = Taken - 1
      /\ nestedLeft \in Nat /\ iteration \in Nat /\ Taken \in Nat
  BY <1>1, Numbers DEF TypesInv
<1>3. /\ active = Chunk(Taken) /\ active \in Chunks /\ active # Root
      /\ DOMAIN node = {Root} \cup Chunks \cup DOMAIN nestedResults
      /\ active \in DOMAIN node
      /\ Depth(active) = 1
  <2>1. active = Chunk(Taken) /\ DOMAIN node = {Root} \cup Chunks \cup DOMAIN nestedResults
    BY <1>1 DEF NodeInv
  <2>2. active \in Chunks /\ active # Root /\ Depth(active) = 1
    BY <1>2, <2>1, ChunksDiffer DEF Chunks, Depth
  <2>3. QED
    BY <2>1, <2>2
<1>4. nestedLeft > 0 /\ config.maxDepth >= 2
  BY <1>1, <1>2, <1>3 DEF ValidationDue
<1>5. /\ Validation = <<Taken, Made + 1>>
      /\ Len(Validation) = 2 /\ Validation[1] = Taken
      /\ Validation # Root /\ \A k \in Nat : Validation # Chunk(k)
  <2>1. Made + 1 \in Nat
    BY <1>2
  <2>2. Validation = <<Taken, Made + 1>>
    <3>1. Append(Chunk(Taken), Made + 1) = <<Taken, Made + 1>>
      BY <1>2, <2>1, ChildOfChunk
    <3>2. QED
      BY <1>3, <3>1 DEF Validation, Made
  <2>3. QED
    BY <1>2, <2>1, <2>2, PairsDiffer
<1>6. Validation \notin DOMAIN node
  <2>1. Validation \notin {Root} \cup Chunks
    BY <1>2, <1>5 DEF Chunks
  <2>2. \A n \in DOMAIN nestedResults : n[1] \in 1 .. Taken - 1
    BY <1>1, <1>2 DEF NodeInv
  <2>3. Validation \notin DOMAIN nestedResults
    BY <1>2, <1>5, <2>2
  <2>4. QED
    BY <1>3, <2>1, <2>3
<1>7. /\ DOMAIN node' = DOMAIN node \cup {Validation}
      /\ node'[Validation] = "awaiting_hermes"
      /\ node'[active] = "validating_response"
      /\ \A n \in DOMAIN node : n # active => node'[n] = node[n]
  BY <1>1, <1>3, <1>6 DEF With
<1>8. /\ DOMAIN ac' = DOMAIN ac \cup {Validation} /\ DOMAIN ac = DOMAIN node
      /\ ac'[Validation] = "executing" /\ ac'[active] = "decomposed"
      /\ \A n \in DOMAIN ac : n # active => ac'[n] = ac[n]
  BY <1>1, <1>3, <1>6 DEF WithChildren, TypesInv
<1>9. TypesInv' /\ RootInv'
  BY <1>1, <1>2, <1>7, <1>8 DEF TypesInv, RootInv
<1>10. CountInv'
  BY <1>1, <1>2 DEF CountInv
<1>11. NodeInv'
  <2>1. \A i \in 1 .. config.chunks : Chunk(i) \in DOMAIN node /\ (i # Taken => Chunk(i) # active)
    <3>1. \A i \in 1 .. config.chunks : i \in Nat /\ Chunk(i) \in Chunks
      BY <1>2 DEF Chunks
    <3>2. QED
      BY <1>2, <1>3, <3>1, ChunksDiffer
  <2>2. /\ DOMAIN results = {Chunk(i) : i \in 1 .. Taken - 1}
        /\ \A i \in 1 .. Taken - 1 : node[Chunk(i)] = Terminal(results[Chunk(i)])
    BY <1>1, <1>2 DEF NodeInv
  <2>3. /\ DOMAIN results' = DOMAIN results \cup {active}
        /\ \A n \in DOMAIN results : n # active => results'[n] = results[n]
    BY <1>1 DEF With
  <2>4. DOMAIN results' = {Chunk(i) : i \in 1 .. Taken}
    BY <1>2, <1>3, <2>2, <2>3
  <2>5. \A i \in 1 .. Taken - 1 : node'[Chunk(i)] = Terminal(results'[Chunk(i)])
    <3>1. \A i \in 1 .. Taken - 1 : i \in 1 .. config.chunks /\ Chunk(i) \in DOMAIN results /\ i # Taken
      BY <1>2, <2>2
    <3>2. QED
      BY <1>7, <2>1, <2>2, <2>3, <3>1
  <2>6. \A i \in Taken + 1 .. config.chunks : node'[Chunk(i)] = "queued"
    <3>1. \A i \in Taken + 1 .. config.chunks : i \in 1 .. config.chunks /\ i # Taken
      BY <1>2
    <3>2. \A i \in Taken + 1 .. config.chunks : node[Chunk(i)] = "queued"
      BY <1>1 DEF NodeInv
    <3>3. QED
      BY <1>7, <2>1, <3>1, <3>2
  <2>7. \A n \in DOMAIN nestedResults : n # active /\ n \in DOMAIN node
    <3>1. \A n \in DOMAIN nestedResults : Len(n) = 2
      BY <1>1, <1>2 DEF NodeInv
    <3>2. Len(active) = 1
      BY <1>2, <1>3, ChunksDiffer
    <3>3. QED
      BY <1>2, <1>3, <3>1, <3>2
  <2>8. node'[Root] = "decomposed"
    BY <1>1, <1>3, <1>7 DEF NodeInv
  <2>9. \A n \in DOMAIN nestedResults : node'[n] = Terminal(nestedResults[n])
    BY <1>1, <1>7, <2>7 DEF NodeInv
  <2>10. QED
    BY <1>1, <1>2, <1>3, <1>4, <1>5, <1>7, <2>4, <2>5, <2>6, <2>8, <2>9 DEF NodeInv
<1>12. MarksInv'
  <2>1. Depth(Validation) <= config.maxDepth
    BY <1>2, <1>4, <1>5 DEF Depth
  <2>2. \A n : HasChild(DOMAIN node', n) <=> HasChild(DOMAIN node, n) \/ n = active
    <3>1. Taken \in Nat /\ Made + 1 \in Nat
      BY <1>2
    <3>2. \A n : HasChild(DOMAIN node \cup {Validation}, n)
                  <=> HasChild(DOMAIN node, n) \/ n = Chunk(Taken)
      BY <1>5, <3>1, ChildAdded
    <3>3. QED
      BY <1>3, <1>7, <3>2
  <2>3. ~ HasChild(DOMAIN node', Validation)
    BY <1>1, <1>2, <1>3, <1>5, <2>2, ValidationHasNone
  <2> SUFFICES ASSUME NEW n \in DOMAIN node'
               PROVE  /\ ac'[n] = "completed" <=> node'[n] \in Successes
                      /\ ac'[n] = "failed" <=> node'[n] = "failed"
                      /\ ac'[n] = "decomposed" <=> /\ HasChild(DOMAIN node', n)
                                                   /\ node'[n] \notin Successes \cup {"failed"}
                      /\ Depth(n) <= config.maxDepth
    BY <1>1 DEF MarksInv
  <2>4. CASE n = Validation
    BY <1>7, <1>8, <2>1, <2>3, <2>4 DEF Successes
  <2>5. CASE n = active
    BY <1>3, <1>7, <1>8, <2>2, <2>5 DEF Successes, MarksInv
  <2>6. CASE n \in DOMAIN node /\ n # active
    BY <1>7, <1>8, <2>2, <2>6 DEF MarksInv
  <2>7. QED
    BY <1>7, <2>4, <2>5, <2>6
<1>13. EndInv'
  BY <1>1 DEF ChunkAnswersAndNests, EndInv, Converged, CountInv
<1>14. QED
  BY <1>9, <1>10, <1>11, <1>12, <1>13

LEMMA NestedAnswersKeeps ==
  ASSUME ScaffoldInv, NEW ok \in BOOLEAN, NestedAnswers(ok)
  PROVE  ScaffoldInv'
<1> USE DEF ScaffoldInv
<1> DEFINE chunk == SubSeq(active, 1, 1)
<1>1. /\ pc = "nested_call" /\ Draining /\ Busy /\ pc' = "drain" /\ Draining' /\ ~ Busy'
      /\ UNCHANGED <<config, active, reason, queue, iteration, results>>
      /\ Chunks' = Chunks /\ Taken' = Taken /\ Committed' = Taken
      /\ node' = [node EXCEPT ![active] = Terminal(ok), ![chunk] = Terminal(results[chunk])]
      /\ ac' = [ac EXCEPT ![active] = AcTerminal(ok), ![chunk] = AcTerminal(results[chunk])]
      /\ nestedResults' = With(nestedResults, active, ok)
      /\ nestedLeft' = nestedLeft - 1
  BY DEF NestedAnswers, Draining, Busy, Chunks, Taken, Committed
<1>2. /\ config.chunks \in Nat /\ Taken \in 1 .. config.chunks /\ Made \in Nat
      /\ config.nested \in Nat /\ config.maxDepth \in Nat /\ Committed = Taken - 1
      /\ nestedLeft \in Nat /\ iteration \in Nat /\ Taken \in Nat
      /\ nestedLeft > 0 /\ config.maxDepth >= 2
  BY <1>1, Numbers DEF TypesInv, NodeInv
<1>3. /\ active = <<Taken, Made + 1>> /\ Len(active) = 2 /\ active[1] = Taken
      /\ chunk = Chunk(Taken) /\ chunk # active /\ active # Root
      /\ \A k \in Nat : active # Chunk(k)
  <2>1. active = <<Taken, Made + 1>>
    BY <1>1 DEF NodeInv
  <2>2. Made + 1 \in Nat
    BY <1>2
  <2>3. /\ Len(active) = 2 /\ active[1] = Taken /\ chunk = Chunk(Taken) /\ active # Root
        /\ \A k \in Nat : active # Chunk(k)
    BY <1>2, <2>1, <2>2, PairsDiffer
  <2>4. QED
    BY <1>2, <2>1, <2>3, Zenon
<1>4. /\ DOMAIN node = {Root} \cup Chunks \cup DOMAIN nestedResults \cup {active}
      /\ chunk \in Chunks /\ chunk # Root
  BY <1>1, <1>2, <1>3, ChunksDiffer DEF NodeInv, Chunks
<1>5. /\ DOMAIN node' = DOMAIN node
      /\ node'[active] = Terminal(ok)
      /\ node'[chunk] = Terminal(results[chunk])
      /\ \A n \in DOMAIN node : n # active /\ n # chunk => node'[n] = node[n]
  BY <1>1, <1>3, <1>4
<1>6. /\ DOMAIN ac' = DOMAIN ac /\ DOMAIN ac = DOMAIN node
      /\ ac'[active] = AcTerminal(ok)
      /\ ac'[chunk] = AcTerminal(results[chunk])
      /\ \A n \in DOMAIN ac : n # active /\ n # chunk => ac'[n] = ac[n]
  BY <1>1, <1>3, <1>4 DEF TypesInv
<1>7. TypesInv' /\ RootInv'
  BY <1>1, <1>2, <1>5, <1>6 DEF TypesInv, RootInv
<1>8. /\ \A n \in DOMAIN nestedResults : n # active /\ n # chunk /\ n \in DOMAIN node
                                         /\ Len(n) = 2 /\ n[1] \in 1 .. Taken
      /\ DOMAIN nestedResults' = DOMAIN nestedResults \cup {active}
      /\ nestedResults'[active] = ok
      /\ \A n \in DOMAIN nestedResults : nestedResults'[n] = nestedResults[n]
  <2>1. \A n \in DOMAIN nestedResults : Len(n) = 2 /\ n[1] \in 1 .. Taken - 1
    BY <1>1, <1>2 DEF NodeInv
  <2>2. Len(chunk) = 1
    BY <1>2, <1>3, ChunksDiffer
  <2>3. \A n \in DOMAIN nestedResults : n # active /\ n # chunk /\ n \in DOMAIN node
                                        /\ Len(n) = 2 /\ n[1] \in 1 .. Taken
    BY <1>2, <1>3, <1>4, <2>1, <2>2
  <2>4. QED
    BY <1>1, <2>3 DEF With
<1>9. CountInv'
  <2>1. IsFiniteSet(DOMAIN nestedResults)
    BY <1>1 DEF CountInv
  <2>2. active \notin DOMAIN nestedResults
    BY <1>8
  <2>3. IsFiniteSet(DOMAIN nestedResults') /\ Made' = Made + 1
    BY <1>8, <2>1, <2>2, FS_AddElement DEF Made
  <2>4. Made = Taken - 1 /\ Made < config.nested
    BY <1>1, <1>2 DEF CountInv
  <2>5. QED
    BY <1>1, <1>2, <2>3, <2>4 DEF CountInv
<1>10. NodeInv'
  <2>1. \A i \in 1 .. config.chunks : /\ Chunk(i) \in DOMAIN node /\ Chunk(i) # active
                                      /\ i # Taken => Chunk(i) # chunk
    <3>1. \A i \in 1 .. config.chunks : i \in Nat /\ Chunk(i) \in Chunks
      BY <1>2 DEF Chunks
    <3>2. QED
      BY <1>2, <1>3, <1>4, <3>1, ChunksDiffer
  <2>2. \A i \in 1 .. Taken : node'[Chunk(i)] = Terminal(results[Chunk(i)])
    <3>1. \A i \in 1 .. Taken - 1 : node[Chunk(i)] = Terminal(results[Chunk(i)])
      BY <1>1, <1>2 DEF NodeInv
    <3>2. \A i \in 1 .. Taken : i = Taken \/ (i \in 1 .. Taken - 1 /\ i \in 1 .. config.chunks)
      BY <1>2
    <3>3. QED
      BY <1>2, <1>3, <1>5, <2>1, <3>1, <3>2
  <2>3. \A i \in Taken + 1 .. config.chunks : node'[Chunk(i)] = "queued"
    BY <1>1, <1>2, <1>5, <2>1 DEF NodeInv
  <2>4. node'[Root] = "decomposed"
    BY <1>1, <1>3, <1>4, <1>5 DEF NodeInv
  <2>5. \A n \in DOMAIN nestedResults' : node'[n] = Terminal(nestedResults'[n])
    BY <1>1, <1>5, <1>8 DEF NodeInv
  <2>6. \A n \in DOMAIN nestedResults' : Len(n) = 2 /\ n[1] \in 1 .. Taken
    BY <1>2, <1>3, <1>8
  <2>7. DOMAIN results' = {Chunk(i) : i \in 1 .. Taken}
    BY <1>1 DEF NodeInv
  <2>8. DOMAIN node' = {Root} \cup Chunks \cup DOMAIN nestedResults'
    BY <1>4, <1>5, <1>8
  <2>9. /\ pc' = "drain" /\ Taken' = Taken /\ Committed' = Taken /\ Chunks' = Chunks
        /\ config' = config /\ results' = results
    BY <1>1
  <2>10. DOMAIN results'
           = {Chunk(i) : i \in 1 .. (IF pc' = "chunk_call" THEN Taken' - 1 ELSE Taken')}
    BY <2>7, <2>9
  <2>11. DOMAIN node' = {Root} \cup Chunks' \cup DOMAIN nestedResults'
                        \cup (IF pc' = "nested_call" THEN {active'} ELSE {})
    BY <2>8, <2>9
  <2>12. node'[Root] = (IF pc' = "synthesis_call" THEN "awaiting_hermes" ELSE "decomposed")
    BY <2>4, <2>9
  <2>13. \A i \in 1 .. Committed' : node'[Chunk(i)] = Terminal(results'[Chunk(i)])
    BY <2>2, <2>9
  <2>14. \A i \in Taken' + 1 .. config'.chunks : node'[Chunk(i)] = "queued"
    BY <2>3, <2>9
  <2>15. \A n \in DOMAIN nestedResults' : Len(n) = 2 /\ n[1] \in 1 .. Committed'
    BY <2>6, <2>9
  <2>16. QED
    BY <2>5, <2>9, <2>10, <2>11, <2>12, <2>13, <2>14, <2>15 DEF NodeInv
<1>11. MarksInv'
  BY <1>1, <1>5, <1>6 DEF MarksInv, Successes, Terminal, AcTerminal
<1>12. EndInv'
  BY <1>1 DEF NestedAnswers, RunAfterNode, EndInv, Converged, CountInv
<1>13. QED
  BY <1>7, <1>9, <1>10, <1>11, <1>12

-----------------------------------------------------------------------------
(* Ending                                                                  *)

\* A run that the limit stops could not have finished within it.
LEMMA IterationsExhaustedKeeps == ScaffoldInv /\ IterationsExhausted => ScaffoldInv'
<1> SUFFICES ASSUME ScaffoldInv, IterationsExhausted
             PROVE  ScaffoldInv'
  OBVIOUS
<1> USE DEF ScaffoldInv
<1>1. /\ pc = "drain" /\ Draining /\ ~ Busy /\ pc' = "raised" /\ ~ Draining'
      /\ UNCHANGED <<config, active, node, ac, queue, iteration, nestedLeft, results, nestedResults>>
      /\ iteration >= config.maxIterations /\ run' = "failed"
  BY DEF IterationsExhausted, Draining, Busy
<1>2. /\ config.chunks \in Nat /\ config.nested \in Nat /\ config.maxDepth \in Nat
      /\ config.maxIterations \in Nat /\ Taken \in 0 .. config.chunks /\ Committed = Taken
      /\ Made \in Nat
  BY <1>1, Numbers DEF Committed
<1>3. config.maxIterations < IterationsNeeded
  <2>1. iteration = 1 + Taken + Made /\ iteration >= config.maxIterations
    BY <1>1, <1>2 DEF CountInv
  <2>2. Made = (IF config.maxDepth < 2 THEN 0
                ELSE IF config.nested < Taken THEN config.nested ELSE Taken)
    BY <1>1, <1>2 DEF CountInv
  <2>3. ValidationsMade \in Nat /\ Made <= ValidationsMade
    BY <1>2, <2>2 DEF ValidationsMade
  <2>4. QED
    BY <1>2, <2>1, <2>3 DEF IterationsNeeded
<1>4. QED
  BY <1>1, <1>3 DEF TypesInv, RootInv, CountInv, NodeInv, MarksInv, EndInv, Converged,
                    IterationsNeeded, ValidationsMade

LEMMA ChunkAnswersExhaustedKeeps ==
  ASSUME ScaffoldInv, NEW ok \in BOOLEAN, ChunkAnswersExhausted(ok)
  PROVE  ScaffoldInv'
<1> USE DEF ScaffoldInv
<1>1. /\ pc = "chunk_call" /\ Draining /\ Busy /\ pc' = "raised" /\ ~ Draining'
      /\ UNCHANGED <<config, active, iteration, nestedLeft, nestedResults>>
      /\ node' = With([node EXCEPT ![active] = "validating_response"], Validation, "queued")
      /\ ac' = WithChildren(ac, active, {Validation})
      /\ iteration >= config.maxIterations /\ run' = "failed" /\ ValidationDue
  BY DEF ChunkAnswersExhausted, Draining, Busy
<1>2. /\ config.chunks \in Nat /\ Taken \in 1 .. config.chunks /\ Made \in Nat
      /\ config.nested \in Nat /\ config.maxDepth \in Nat /\ Committed = Taken - 1
      /\ config.maxIterations \in Nat
      /\ nestedLeft \in Nat /\ iteration \in Nat /\ Taken \in Nat
  BY <1>1, Numbers DEF TypesInv
<1>3. /\ active = Chunk(Taken) /\ active \in DOMAIN node /\ Depth(active) = 1
      /\ DOMAIN node = {Root} \cup Chunks \cup DOMAIN nestedResults
  <2>1. active = Chunk(Taken) /\ DOMAIN node = {Root} \cup Chunks \cup DOMAIN nestedResults
    BY <1>1 DEF NodeInv
  <2>2. active \in Chunks /\ Depth(active) = 1
    BY <1>2, <2>1, ChunksDiffer DEF Chunks, Depth
  <2>3. QED
    BY <2>1, <2>2
<1>4. nestedLeft > 0 /\ config.maxDepth >= 2
  BY <1>1, <1>2, <1>3 DEF ValidationDue
<1>5. Validation = <<Taken, Made + 1>> /\ Len(Validation) = 2 /\ Validation[1] = Taken
  <2>1. Made + 1 \in Nat
    BY <1>2
  <2>2. Validation = <<Taken, Made + 1>>
    <3>1. Append(Chunk(Taken), Made + 1) = <<Taken, Made + 1>>
      BY <1>2, <2>1, ChildOfChunk
    <3>2. QED
      BY <1>3, <3>1 DEF Validation, Made
  <2>3. QED
    BY <1>2, <2>1, <2>2, PairsDiffer
<1>6. /\ DOMAIN node' = DOMAIN node \cup {Validation}
      /\ node'[Validation] = "queued"
      /\ active # Validation => node'[active] = "validating_response"
      /\ \A n \in DOMAIN node : n # active /\ n # Validation => node'[n] = node[n]
  BY <1>1, <1>3 DEF With
<1>7. /\ DOMAIN ac' = DOMAIN ac \cup {Validation} /\ DOMAIN ac = DOMAIN node
      /\ ac'[Validation] = "executing"
      /\ active # Validation => ac'[active] = "decomposed"
      /\ \A n \in DOMAIN ac : n # active /\ n # Validation => ac'[n] = ac[n]
  BY <1>1, <1>3 DEF WithChildren, TypesInv
<1>8. TypesInv' /\ RootInv' /\ CountInv' /\ NodeInv'
  BY <1>1, <1>6, <1>7 DEF TypesInv, RootInv, CountInv, NodeInv
<1>9. MarksInv'
  <2>1. Depth(Validation) <= config.maxDepth
    BY <1>2, <1>4, <1>5 DEF Depth
  <2>2. \A n : HasChild(DOMAIN node', n) <=> HasChild(DOMAIN node, n) \/ n = active
    <3>1. Taken \in Nat /\ Made + 1 \in Nat
      BY <1>2
    <3>2. \A n : HasChild(DOMAIN node \cup {Validation}, n)
                  <=> HasChild(DOMAIN node, n) \/ n = Chunk(Taken)
      BY <1>5, <3>1, ChildAdded
    <3>3. QED
      BY <1>3, <1>6, <3>2
  <2>3. ~ HasChild(DOMAIN node', Validation)
    <3>1. ~ HasChild(DOMAIN node, Validation)
      BY <1>1, <1>5, ValidationHasNone
    <3>2. Validation # active
      <4>1. Len(active) = 1 /\ Len(Validation) = 2
        BY <1>3, <1>5 DEF Depth
      <4>2. QED
        BY <4>1
    <3>3. QED
      BY <2>2, <3>1, <3>2
  <2> SUFFICES ASSUME NEW n \in DOMAIN node'
               PROVE  /\ ac'[n] = "completed" <=> node'[n] \in Successes
                      /\ ac'[n] = "failed" <=> node'[n] = "failed"
                      /\ ac'[n] = "decomposed" <=> /\ HasChild(DOMAIN node', n)
                                                   /\ node'[n] \notin Successes \cup {"failed"}
                      /\ Depth(n) <= config.maxDepth
    BY <1>1 DEF MarksInv
  <2>4. CASE n = Validation
    BY <1>6, <1>7, <2>1, <2>3, <2>4 DEF Successes
  <2>5. CASE n = active /\ n # Validation
    BY <1>3, <1>6, <1>7, <2>2, <2>5 DEF Successes, MarksInv
  <2>6. CASE n \in DOMAIN node /\ n # active /\ n # Validation
    BY <1>6, <1>7, <2>2, <2>6 DEF MarksInv
  <2>7. QED
    BY <1>6, <2>4, <2>5, <2>6
<1>10. EndInv'
  <2>1. config.maxIterations < IterationsNeeded
    BY <1>1, <1>2, <1>4, SMTT(20) DEF CountInv, IterationsNeeded, ValidationsMade
  <2>2. QED
    BY <1>1, <2>1 DEF EndInv, Converged, IterationsNeeded, ValidationsMade
<1>11. QED
  BY <1>8, <1>9, <1>10

LEMMA CallRaisesKeeps == ScaffoldInv /\ CallRaises => ScaffoldInv'
BY DEF CallRaises, Calls, ScaffoldInv, TypesInv, RootInv, CountInv, NodeInv, MarksInv, EndInv,
       Converged, Chunks, Draining, Busy, IterationsNeeded, ValidationsMade

LEMMA RootAnswersKeeps ==
  ASSUME ScaffoldInv, NEW ok \in BOOLEAN, RootAnswers(ok)
  PROVE  ScaffoldInv'
<1> USE DEF ScaffoldInv, RootAnswers, Finish
<1>1. TypesInv' /\ RootInv' /\ CountInv' /\ NodeInv'
  BY DEF TypesInv, RootInv, CountInv, NodeInv, Draining
<1>2. MarksInv'
  BY DEF MarksInv, TypesInv, RootInv, Successes, AcTerminal
<1>3. EndInv'
  BY DEF EndInv, TypesInv, RootInv, Converged, Successes, AcTerminal, IterationsNeeded,
         ValidationsMade
<1>4. QED
  BY <1>1, <1>2, <1>3

LEMMA SynthesisAnswersKeeps ==
  ASSUME ScaffoldInv, NEW ok \in BOOLEAN, SynthesisAnswers(ok)
  PROVE  ScaffoldInv'
<1> USE DEF ScaffoldInv
<1>1. /\ pc = "synthesis_call" /\ Draining /\ ~ Busy /\ pc' = "returned" /\ ~ Draining'
      /\ UNCHANGED <<config, active, queue, iteration, nestedLeft, results, nestedResults>>
      /\ Chunks' = Chunks /\ reason = "none" /\ queue = << >>
  BY DEF SynthesisAnswers, Finish, Draining, Busy, Chunks, CountInv
<1> DEFINE good == ok /\ AllSucceeded
<1>2. /\ node' = [node EXCEPT ![Root] = IF good THEN "synthesis_complete" ELSE "failed"]
      /\ ac' = [ac EXCEPT ![Root] = AcTerminal(good)]
      /\ run' = IF good THEN "completed" ELSE "failed"
      /\ reason' = IF good THEN "parent_synthesis_completed" ELSE "node_failed"
  BY DEF SynthesisAnswers, Finish
<1> HIDE DEF good
<1>3. /\ config.chunks \in Nat /\ Taken = config.chunks /\ Committed = config.chunks
  <2>1. Len(queue) = 0 /\ config.chunks \in Nat
    BY <1>1, Numbers
  <2>2. QED
    BY <1>1, <2>1 DEF Taken, Committed
<1>4. /\ DOMAIN results = Chunks
      /\ DOMAIN node = {Root} \cup Chunks \cup DOMAIN nestedResults
      /\ \A c \in Chunks : node[c] = Terminal(results[c]) /\ c # Root
      /\ \A n \in DOMAIN nestedResults : node[n] = Terminal(nestedResults[n]) /\ n # Root
      /\ DOMAIN ac = DOMAIN node
  <2>1. \A n \in DOMAIN nestedResults : Len(n) = 2
    BY <1>1 DEF NodeInv
  <2>2. Len(Root) = 0
    BY DEF Root
  <2>3. DOMAIN results = Chunks
    BY <1>1, <1>3 DEF NodeInv, Chunks
  <2>4. \A c \in Chunks : node[c] = Terminal(results[c]) /\ c # Root
    BY <1>1, <1>3, ChunksDiffer DEF NodeInv, Chunks
  <2>5. QED
    BY <1>1, <2>1, <2>2, <2>3, <2>4 DEF NodeInv, TypesInv
<1>5. TypesInv' /\ RootInv' /\ CountInv' /\ NodeInv'
  BY <1>1, <1>2, <1>4 DEF TypesInv, RootInv, CountInv, NodeInv
<1>6. /\ DOMAIN node' = DOMAIN node /\ DOMAIN ac' = DOMAIN ac
      /\ node'[Root] = IF good THEN "synthesis_complete" ELSE "failed"
      /\ ac'[Root] = AcTerminal(good)
      /\ \A n \in DOMAIN node : n # Root => node'[n] = node[n] /\ ac'[n] = ac[n]
  BY <1>2, <1>4
<1>7. MarksInv'
  <2>1. \A n \in DOMAIN node' :
          /\ ac'[n] = "completed" <=> node'[n] \in Successes
          /\ ac'[n] = "failed" <=> node'[n] = "failed"
          /\ ac'[n] = "decomposed" <=> /\ HasChild(DOMAIN node', n)
                                       /\ node'[n] \notin Successes \cup {"failed"}
          /\ Depth(n) <= config.maxDepth
    BY <1>6 DEF MarksInv, Successes, AcTerminal
  <2>2. QED
    BY <1>1, <2>1 DEF MarksInv
<1>8. Converged'
  <2> SUFFICES ASSUME good
               PROVE  /\ queue = << >>
                      /\ node'[Root] \in Successes
                      /\ \A n \in DOMAIN ac' : ac'[n] = "completed"
                      /\ DOMAIN node' = {Root} \cup Chunks \cup DOMAIN nestedResults
                      /\ \A c \in Chunks : c \in DOMAIN results /\ results[c]
                      /\ \A n \in DOMAIN nestedResults : nestedResults[n]
    BY <1>1, <1>2 DEF Converged
  <2>1. /\ \A c \in Chunks : c \in DOMAIN results /\ results[c]
        /\ \A n \in DOMAIN nestedResults : nestedResults[n]
    BY <1>4 DEF good, AllSucceeded
  <2>2. \A n \in DOMAIN node : n # Root => node[n] \in Successes
    BY <1>4, <2>1 DEF Terminal, Successes
  <2>3. node'[Root] \in Successes
    BY <1>6 DEF Successes
  <2>4. \A n \in DOMAIN ac' : ac'[n] = "completed"
    BY <1>4, <1>6, <1>7, <2>2, <2>3 DEF MarksInv
  <2>5. QED
    BY <1>1, <1>4, <1>6, <2>1, <2>3, <2>4
<1>9. EndInv'
  BY <1>1, <1>2, <1>8 DEF EndInv
<1>10. QED
  BY <1>5, <1>7, <1>9

-----------------------------------------------------------------------------
(* The theorems                                                            *)

LEMMA ScaffoldStep == ScaffoldInv /\ [Next]_vars => ScaffoldInv'
<1>1. ASSUME ScaffoldInv, UNCHANGED vars
      PROVE  ScaffoldInv'
  <2> USE <1>1 DEF vars, ScaffoldInv
  <2>1. MarksInv'
    BY DEF MarksInv
  <2>2. (TypesInv /\ RootInv /\ CountInv /\ NodeInv /\ EndInv)'
    BY DEF TypesInv, RootInv, CountInv, NodeInv, EndInv, Converged, Chunks, Draining, Busy,
           Taken, Committed, Made, IterationsNeeded, ValidationsMade
  <2>3. QED
    BY <2>1, <2>2
<1>2. QED
  BY <1>1, GuardKeeps, BeginAtomicKeeps, BeginDecomposedKeeps, SelectChunkKeeps,
     IterationsExhaustedKeeps, SynthesizeKeeps, ChunkAnswersKeeps, ChunkAnswersAndNestsKeeps,
     ChunkAnswersExhaustedKeeps, NestedAnswersKeeps, RootAnswersKeeps, SynthesisAnswersKeeps,
     CallRaisesKeeps
  DEF Next

LEMMA ScaffoldInvariant == Spec => []ScaffoldInv
BY ScaffoldInit, ScaffoldStep, PTL DEF Spec

\* A run that completed owes it to every call it made, for every number of
\* chunks and validations.
THEOREM RunsConverge == Spec => []Converged
<1>1. ScaffoldInv => Converged
  BY DEF ScaffoldInv, EndInv
<1>2. QED
  BY <1>1, ScaffoldInvariant, PTL

\* A synthesis in progress has every chunk's result.
LEMMA SynthesisSeen == ScaffoldInv => SynthesisSeesEveryChild
<1> SUFFICES ASSUME ScaffoldInv, pc = "synthesis_call"
             PROVE  SynthesisSeesEveryChild
  BY DEF SynthesisSeesEveryChild
<1> USE DEF ScaffoldInv
<1>1. Draining /\ ~ Busy /\ queue = << >>
  BY DEF Draining, Busy, CountInv
<1>2. /\ config.chunks \in Nat /\ config.nested \in Nat /\ Made \in Nat
      /\ config.maxDepth \in Nat
  BY <1>1, Numbers
<1>3. Taken = config.chunks /\ Committed = config.chunks
  <2>1. Len(queue) = 0
    BY <1>1
  <2>2. QED
    BY <1>1, <1>2, <2>1 DEF Taken, Committed
<1>4. /\ DOMAIN results = Chunks
      /\ \A c \in Chunks : node[c] = Terminal(results[c])
      /\ DOMAIN node = {Root} \cup Chunks \cup DOMAIN nestedResults
  BY <1>1, <1>3 DEF NodeInv, Chunks
<1>5. config.maxDepth >= 2 => nestedLeft = 0 \/ Made = config.chunks
  BY <1>1, <1>2, <1>3 DEF CountInv
<1>6. QED
  BY <1>1, <1>4, <1>5 DEF SynthesisSeesEveryChild, Made

\* The synthesis is asked for only when every chunk has been answered and
\* committed and the validations have been made.
THEOREM SynthesisIsLast == Spec => []SynthesisSeesEveryChild
BY SynthesisSeen, ScaffoldInvariant, PTL

\* The AC tree and the RLM tree agree, and exactly the node whose call is
\* awaited is shown as awaiting.
THEOREM BothTreesAgree == Spec => []TreesAgree
<1>1. ScaffoldInv => TreesAgree
  <2> SUFFICES ASSUME ScaffoldInv, pc \in Calls
               PROVE  /\ active \in DOMAIN node
                      /\ \A n \in DOMAIN node : node[n] = "awaiting_hermes" <=> n = active
    BY DEF ScaffoldInv, MarksInv, TreesAgree
  <2> USE DEF ScaffoldInv
  <2>1. CASE pc = "root_call"
    BY <2>1 DEF RootInv
  <2>2. CASE pc # "root_call"
    <3>1. Draining
      BY <2>2 DEF Calls, Draining
    <3>2. DOMAIN node = {Root} \cup Chunks \cup DOMAIN nestedResults
                        \cup (IF pc = "nested_call" THEN {active} ELSE {})
      BY <3>1 DEF NodeInv
    <3>3. /\ config.chunks \in Nat /\ Taken \in 0 .. config.chunks /\ Made \in Nat
          /\ Busy => Taken >= 1 /\ Committed = Taken - 1
          /\ ~ Busy => Committed = Taken
      BY <3>1, Numbers DEF Committed
    <3>4. \A n \in DOMAIN nestedResults : node[n] # "awaiting_hermes"
      BY <3>1 DEF NodeInv, Terminal
    <3>5. \A i \in 1 .. config.chunks : i # Taken \/ ~ Busy => node[Chunk(i)] # "awaiting_hermes"
      <4>1. \A i \in 1 .. config.chunks : i # Taken \/ ~ Busy => \/ i \in 1 .. Committed
                                                                \/ i \in Taken + 1 .. config.chunks
        BY <3>3
      <4>2. \A i \in 1 .. Committed : node[Chunk(i)] # "awaiting_hermes"
        BY <3>1 DEF NodeInv, Terminal
      <4>3. \A i \in Taken + 1 .. config.chunks : node[Chunk(i)] # "awaiting_hermes"
        BY <3>1 DEF NodeInv
      <4>4. QED
        BY <4>1, <4>2, <4>3
    <3>6. node[Root] = "awaiting_hermes" <=> pc = "synthesis_call"
      BY <3>1 DEF NodeInv
    <3>7. CASE pc = "chunk_call"
      <4>1. active = Chunk(Taken) /\ node[active] = "awaiting_hermes" /\ active \in Chunks
        BY <3>1, <3>3, <3>7 DEF NodeInv, Chunks, Busy
      <4>2. QED
        BY <3>2, <3>4, <3>5, <3>6, <3>7, <4>1 DEF Chunks
    <3>8. CASE pc = "nested_call"
      <4>1. node[active] = "awaiting_hermes" /\ node[Chunk(Taken)] # "awaiting_hermes"
        BY <3>1, <3>8 DEF NodeInv
      <4>2. QED
        BY <3>2, <3>4, <3>5, <3>6, <3>8, <4>1 DEF Chunks
    <3>9. CASE pc = "synthesis_call"
      <4>1. active = Root /\ ~ Busy
        BY <3>9 DEF RootInv, Busy
      <4>2. QED
        BY <3>2, <3>4, <3>5, <3>6, <3>9, <4>1 DEF Chunks
    <3>10. QED
      BY <2>2, <3>7, <3>8, <3>9 DEF Calls
  <2>3. QED
    BY <2>1, <2>2
<1>2. QED
  BY <1>1, ScaffoldInvariant, PTL

\* The iteration limit stops exactly the runs that do not fit it, for every
\* limit and every number of calls a run takes.
THEOREM LimitStopsTheRightRuns == Spec => []LimitIsExact
<1>1. ScaffoldInv => LimitIsExact
  <2> SUFFICES ASSUME ScaffoldInv, pc = "synthesis_call"
               PROVE  iteration = IterationsNeeded
    BY DEF ScaffoldInv, EndInv, LimitIsExact
  <2> USE DEF ScaffoldInv
  <2>1. Draining /\ ~ Busy /\ queue = << >>
    BY DEF Draining, Busy, CountInv
  <2>2. /\ config.chunks \in Nat /\ config.nested \in Nat /\ Made \in Nat
        /\ config.maxDepth \in Nat
    BY <2>1, Numbers
  <2>3. Taken = config.chunks /\ Committed = config.chunks
    <3>1. Len(queue) = 0
      BY <2>1
    <3>2. QED
      BY <2>1, <2>2, <3>1 DEF Taken, Committed
  <2>4. QED
    BY <2>1, <2>2, <2>3, SMTT(20) DEF CountInv, IterationsNeeded, ValidationsMade
<1>2. QED
  BY <1>1, ScaffoldInvariant, PTL

-----------------------------------------------------------------------------
(* Types                                                                   *)

\* A recorded result is a Boolean for a call that may be made.
Recordings(f, D) == DOMAIN f \subseteq D /\ \A m \in DOMAIN f : f[m] \in BOOLEAN

LEMMA Recorded ==
  ASSUME NEW D, NEW f, Recordings(f, D), NEW n \in D, NEW v \in BOOLEAN,
         NEW g, g = With(f, n, v)
  PROVE  Recordings(g, D)
<1>1. DOMAIN g = DOMAIN f \cup {n}
  BY DEF With
<1>2. ASSUME NEW m \in DOMAIN g
      PROVE  g[m] \in BOOLEAN
  <2>1. g[m] = IF m = n THEN v ELSE f[m]
    BY <1>1 DEF With
  <2>2. CASE m = n
    BY <2>1, <2>2
  <2>3. CASE m # n
    BY <1>1, <2>1, <2>3, Zenon DEF Recordings
  <2>4. QED
    BY <2>2, <2>3
<1>3. QED
  BY <1>1, <1>2 DEF Recordings

\* A queue of nodes stays one when nodes are added.
LEMMA LargerAlphabet ==
  ASSUME NEW S, NEW T, S \subseteq T, NEW s \in Seq(S)
  PROVE  s \in Seq(T)
OBVIOUS

\* The chunk in hand is one of the run's, its validation is a node that may
\* be made, and there is one only while validations are left.
LEMMA InHand ==
  ASSUME ScaffoldInv, pc \in {"chunk_call", "nested_call"}
  PROVE  /\ pc = "chunk_call" => active \in Chunks /\ active \in DOMAIN node
         /\ (pc = "chunk_call" /\ nestedLeft > 0) => Validation \in Nodes \ Chunks
         /\ pc = "nested_call" =>
              /\ active \in Nodes \ Chunks /\ nestedLeft > 0
              /\ SubSeq(active, 1, 1) \in Chunks
              /\ SubSeq(active, 1, 1) \in DOMAIN results
<1> USE DEF ScaffoldInv
<1>1. Draining /\ Busy
  BY DEF Draining, Busy
<1>2. /\ config.chunks \in Nat /\ Taken \in 1 .. config.chunks /\ Made \in Nat
      /\ config.nested \in Nat
  BY <1>1, Numbers
<1>3. /\ nestedLeft = config.nested - Made
      /\ Chunk(Taken) \in Chunks
      /\ Chunks \subseteq DOMAIN node
  BY <1>1, <1>2 DEF CountInv, NodeInv, Chunks
<1>4. ASSUME nestedLeft > 0, NEW p, p = <<Taken, Made + 1>>
      PROVE  p \in Nodes \ Chunks /\ SubSeq(p, 1, 1) = Chunk(Taken)
  <2>1. Taken \in Nat /\ Made + 1 \in Nat /\ Made + 1 \in 1 .. config.nested
    BY <1>2, <1>3, <1>4
  <2>2. /\ SubSeq(p, 1, 1) = Chunk(Taken)
        /\ \A k \in Nat : p # Chunk(k)
    BY <1>4, <2>1, PairsDiffer
  <2>3. p \in Nodes
    BY <1>2, <1>4, <2>1 DEF Nodes
  <2>4. QED
    BY <1>2, <2>2, <2>3 DEF Chunks
<1>5. CASE pc = "chunk_call"
  <2>1. active = Chunk(Taken)
    BY <1>1, <1>5 DEF NodeInv
  <2>2. Made + 1 \in Nat /\ Taken \in Nat
    BY <1>2
  <2>3. Validation = <<Taken, Made + 1>>
    BY <2>1, <2>2, ChildOfChunk DEF Validation, Made
  <2>4. QED
    BY <1>3, <1>4, <1>5, <2>1, <2>3
<1>6. CASE pc = "nested_call"
  <2>1. active = <<Taken, Made + 1>> /\ nestedLeft > 0
    BY <1>1, <1>6 DEF NodeInv
  <2>2. Chunk(Taken) \in DOMAIN results
    BY <1>1, <1>2, <1>6 DEF NodeInv
  <2>3. QED
    BY <1>3, <1>4, <1>6, <2>1, <2>2
<1>7. QED
  BY <1>5, <1>6

LEMMA ScaffoldTypesInit == Init => TypeOK
<1> SUFFICES ASSUME Init
             PROVE  TypeOK
  OBVIOUS
<1>1. config \in Config
  BY ConfigAssumption DEF Init
<1>2. queue \in Seq(DOMAIN node)
  BY DEF Init
<1>3. 0 \in 0 .. config.maxIterations /\ 0 \in 0 .. config.nested
  BY <1>1 DEF Config
<1>4. QED
  BY <1>2, <1>3 DEF Init, TypeOK, PCs, RunStates, Reasons, NodeStates, AcStates, Nodes

LEMMA ScaffoldTypesStep == ScaffoldInv /\ TypeOK /\ [Next]_vars => TypeOK'
<1> SUFFICES ASSUME ScaffoldInv, TypeOK, [Next]_vars
             PROVE  TypeOK'
  OBVIOUS
<1> USE DEF TypeOK, PCs, RunStates, Reasons, NodeStates, AcStates
<1>1. /\ config \in Config /\ config.chunks \in Nat /\ config.nested \in Nat
      /\ config.maxIterations \in Nat \ {0}
      /\ config' = config /\ Chunks' = Chunks /\ Nodes' = Nodes
      /\ Root \in Nodes /\ Chunks \subseteq Nodes
  <2>1. config' = config
    BY DEF Next, vars, Guard, BeginAtomic, BeginDecomposed, SelectChunk, IterationsExhausted,
           Synthesize, ChunkAnswers, ChunkAnswersAndNests, ChunkAnswersExhausted,
           NestedAnswers, RootAnswers, SynthesisAnswers, Finish, CallRaises
  <2>2. Chunks' = Chunks /\ Nodes' = Nodes
    BY <2>1 DEF Chunks, Nodes
  <2>3. config \in Config
    BY DEF ScaffoldInv, TypesInv
  <2>4. QED
    BY <2>1, <2>2, <2>3 DEF Config, Nodes
<1>2. CASE Guard \/ IterationsExhausted \/ CallRaises
  BY <1>1, <1>2 DEF Guard, IterationsExhausted, CallRaises, Calls
<1>3. CASE BeginAtomic
  <2>1. iteration = 0 /\ Root \in DOMAIN node
    BY <1>3 DEF BeginAtomic, ScaffoldInv, RootInv
  <2>2. queue' \in Seq(DOMAIN node')
    BY <1>3 DEF BeginAtomic
  <2>3. QED
    BY <1>1, <1>3, <2>1, <2>2 DEF BeginAtomic
<1>4. CASE BeginDecomposed
  <2>1. iteration = 0 /\ Root \in DOMAIN ac /\ active = Root
    BY <1>4 DEF BeginDecomposed, ScaffoldInv, RootInv, TypesInv
  <2>2. queue' \in Seq(DOMAIN node')
    <3>1. queue' \in [1 .. config.chunks -> DOMAIN node']
      BY <1>4 DEF BeginDecomposed, Chunks
    <3>2. QED
      BY <1>1, <3>1, FunctionIsSequence, Zenon
  <2>3. /\ DOMAIN ac' = {Root} \cup Chunks
        /\ \A n \in DOMAIN ac' : ac'[n] \in AcStates
    BY <1>4 DEF BeginDecomposed, WithChildren, ScaffoldInv, RootInv, TypesInv
  <2>4. QED
    BY <1>1, <1>4, <2>1, <2>2, <2>3 DEF BeginDecomposed
<1>5. CASE SelectChunk
  <2>1. Head(queue) \in DOMAIN node /\ queue' \in Seq(DOMAIN node)
    BY <1>5 DEF SelectChunk
  <2>2. QED
    BY <1>1, <1>5, <2>1 DEF SelectChunk
<1>6. CASE Synthesize
  <2>1. Root \in DOMAIN node
    BY <1>6 DEF Synthesize, ScaffoldInv, NodeInv, Draining
  <2>2. QED
    BY <1>1, <1>6, <2>1 DEF Synthesize
<1>7. ASSUME NEW ok \in BOOLEAN, ChunkAnswers(ok)
      PROVE  TypeOK'
  <2>1. active \in Chunks
    BY <1>7, InHand DEF ChunkAnswers
  <2>2. run' \in RunStates
    BY <1>7 DEF ChunkAnswers, RunAfterNode
  <2>3. /\ DOMAIN results' \subseteq Chunks
        /\ \A n \in DOMAIN results' : results'[n] \in BOOLEAN
    <3>1. results' = With(results, active, ok)
      BY <1>7 DEF ChunkAnswers
    <3>2. Recordings(results, Chunks)
      BY DEF Recordings
    <3>3. Recordings(results', Chunks)
      BY <1>7, <2>1, <3>1, <3>2, Recorded, Zenon
    <3>4. QED
      BY <3>3 DEF Recordings
  <2>4. QED
    BY <1>1, <1>7, <2>2, <2>3 DEF ChunkAnswers, Terminal, AcTerminal
<1>8. ASSUME NEW ok \in BOOLEAN, ChunkAnswersAndNests(ok) \/ ChunkAnswersExhausted(ok)
      PROVE  TypeOK'
  <2>1. active \in Chunks /\ active \in DOMAIN node /\ Validation \in Nodes
    BY <1>8, InHand DEF ChunkAnswersAndNests, ChunkAnswersExhausted, ValidationDue
  <2>2. /\ DOMAIN results' \subseteq Chunks
        /\ \A n \in DOMAIN results' : results'[n] \in BOOLEAN
    <3>1. results' = With(results, active, ok)
      BY <1>8 DEF ChunkAnswersAndNests, ChunkAnswersExhausted
    <3>2. Recordings(results, Chunks)
      BY DEF Recordings
    <3>3. Recordings(results', Chunks)
      BY <1>8, <2>1, <3>1, <3>2, Recorded, Zenon
    <3>4. QED
      BY <3>3 DEF Recordings
  <2>3. /\ DOMAIN node' = DOMAIN node \cup {Validation}
        /\ \A n \in DOMAIN node' : node'[n] \in NodeStates
    BY <1>8 DEF ChunkAnswersAndNests, ChunkAnswersExhausted, With
  <2>4. /\ DOMAIN ac' = DOMAIN ac \cup {Validation}
        /\ \A n \in DOMAIN ac' : ac'[n] \in AcStates
    BY <1>8 DEF ChunkAnswersAndNests, ChunkAnswersExhausted, WithChildren
  <2>5. queue' \in Seq(DOMAIN node')
    <3>1. queue \in Seq(DOMAIN node') /\ Validation \in DOMAIN node'
      BY <2>3, LargerAlphabet
    <3>2. QED
      BY <1>8, <3>1 DEF ChunkAnswersAndNests, ChunkAnswersExhausted
  <2>6. QED
    BY <1>1, <1>8, <2>1, <2>2, <2>3, <2>4, <2>5
    DEF ChunkAnswersAndNests, ChunkAnswersExhausted
<1>9. ASSUME NEW ok \in BOOLEAN, NestedAnswers(ok)
      PROVE  TypeOK'
  <2>1. /\ active \in Nodes \ Chunks /\ nestedLeft > 0
        /\ results[SubSeq(active, 1, 1)] \in BOOLEAN
    BY <1>9, InHand DEF NestedAnswers
  <2>2. run' \in RunStates
    BY <1>9 DEF NestedAnswers, RunAfterNode
  <2>3. /\ DOMAIN nestedResults' \subseteq Nodes \ Chunks
        /\ \A n \in DOMAIN nestedResults' : nestedResults'[n] \in BOOLEAN
    <3>1. nestedResults' = With(nestedResults, active, ok)
      BY <1>9 DEF NestedAnswers
    <3>2. Recordings(nestedResults, Nodes \ Chunks)
      BY DEF Recordings
    <3>3. Recordings(nestedResults', Nodes \ Chunks)
      <4> DEFINE D == Nodes \ Chunks
      <4>1. active \in D /\ Recordings(nestedResults, D)
        BY <2>1, <3>2
      <4> HIDE DEF D
      <4>2. Recordings(nestedResults', D)
        BY <1>9, <3>1, <4>1, Recorded, Zenon
      <4>3. QED
        BY <4>2 DEF D
    <3>4. QED
      BY <3>3 DEF Recordings
  <2>4. QED
    BY <1>1, <1>9, <2>1, <2>2, <2>3 DEF NestedAnswers, Terminal, AcTerminal
<1>10. ASSUME NEW ok \in BOOLEAN, RootAnswers(ok) \/ SynthesisAnswers(ok)
       PROVE  TypeOK'
  BY <1>1, <1>10 DEF RootAnswers, SynthesisAnswers, Finish, AcTerminal
<1>11. CASE UNCHANGED vars
  BY <1>1, <1>11 DEF vars
<1>12. QED
  BY <1>2, <1>3, <1>4, <1>5, <1>6, <1>7, <1>8, <1>9, <1>10, <1>11 DEF Next

\* Every state of the loop is well typed: a counter never leaves its bounds, the
\* queue holds nodes only, and a result is a chunk's or a validation's.
LEMMA ScaffoldTypes == Spec => []TypeOK
BY ScaffoldTypesInit, ScaffoldTypesStep, ScaffoldInvariant, PTL DEF Spec

-----------------------------------------------------------------------------
(* The loop divides and gathers                                            *)

\* A run that goes on has not been decided.
Undecided ==
  pc \notin {"returned", "raised"} => reason = "none" /\ run \notin {"completed", "failed"}

LEMMA UndecidedInit == Init => Undecided
BY DEF Init, Undecided

LEMMA UndecidedStep == Undecided /\ [Next]_vars => Undecided'
<1> SUFFICES ASSUME Undecided, [Next]_vars
             PROVE  Undecided'
  OBVIOUS
<1> USE DEF Undecided
<1>1. CASE Guard \/ BeginAtomic \/ BeginDecomposed
  BY <1>1 DEF Guard, BeginAtomic, BeginDecomposed
<1>2. CASE SelectChunk \/ IterationsExhausted \/ Synthesize \/ CallRaises
  BY <1>2 DEF SelectChunk, IterationsExhausted, Synthesize, CallRaises
<1>3. ASSUME NEW ok \in BOOLEAN, ChunkAnswers(ok) \/ NestedAnswers(ok)
      PROVE  Undecided'
  BY <1>3 DEF ChunkAnswers, NestedAnswers, RunAfterNode
<1>4. ASSUME NEW ok \in BOOLEAN, ChunkAnswersAndNests(ok) \/ ChunkAnswersExhausted(ok)
      PROVE  Undecided'
  BY <1>4 DEF ChunkAnswersAndNests, ChunkAnswersExhausted
<1>5. ASSUME NEW ok \in BOOLEAN, RootAnswers(ok) \/ SynthesisAnswers(ok)
      PROVE  Undecided'
  BY <1>5 DEF RootAnswers, SynthesisAnswers, Finish
<1>6. CASE UNCHANGED vars
  BY <1>6 DEF vars
<1>7. QED
  BY <1>1, <1>2, <1>3, <1>4, <1>5, <1>6 DEF Next

LEMMA UndecidedIsOpen ==
  ASSUME Undecided, pc \notin {"returned", "raised"}
  PROVE  Verdict = "open"
BY DEF Undecided, Verdict

LEMMA PartsArePaths ==
  ASSUME TypesInv, TypeOK', config' = config
  PROVE  DOMAIN node' \ {Root} \in SUBSET Seq(Nat)
<1>1. config.chunks \in Nat /\ config.nested \in Nat
  BY DEF TypesInv, Config
<1>2. \A i \in 1 .. config.chunks : Chunk(i) \in Seq(Nat)
  BY <1>1, Paths
<1>3. \A i \in 1 .. config.chunks : \A j \in 1 .. config.nested : <<i, j>> \in Seq(Nat)
  BY <1>1, Paths
<1>4. DOMAIN node' \subseteq Nodes
  BY DEF TypeOK, Nodes, Chunks
<1>5. ASSUME NEW n \in Nodes, n # Root
      PROVE  n \in Seq(Nat)
  <2>1. CASE n \in Chunks
    BY <1>2, <2>1, Zenon DEF Chunks
  <2>2. CASE n \notin Chunks
    <3>1. \E i \in 1 .. config.chunks, j \in 1 .. config.nested : n = <<i, j>>
      BY <1>5, <2>2 DEF Nodes
    <3>2. QED
      BY <1>3, <3>1, Zenon
  <2>3. QED
    BY <2>1, <2>2
<1>6. QED
  BY <1>4, <1>5

\* While a chunk's or a validation's call is awaited, it is the one part
\* called that has no result.
LEMMA CalledHasNoResult ==
  ASSUME ScaffoldInv, pc \in {"chunk_call", "nested_call"}
  PROVE  /\ active \in DOMAIN node \ {Root}
         /\ active \notin DOMAIN results \cup DOMAIN nestedResults
<1>1. /\ Draining /\ Busy /\ config.chunks \in Nat /\ Taken \in 1 .. config.chunks
      /\ Taken \in Nat /\ Made \in Nat /\ Committed = Taken - 1
  BY Numbers DEF Draining, Busy, ScaffoldInv
<1>2. /\ DOMAIN results = {Chunk(i) : i \in 1 .. (IF pc = "chunk_call" THEN Taken - 1 ELSE Taken)}
      /\ \A n \in DOMAIN nestedResults : Len(n) = 2 /\ n[1] \in 1 .. Taken - 1
      /\ DOMAIN node = {Root} \cup Chunks \cup DOMAIN nestedResults
                       \cup (IF pc = "nested_call" THEN {active} ELSE {})
      /\ pc = "chunk_call" => active = Chunk(Taken)
      /\ pc = "nested_call" => active = <<Taken, Made + 1>>
  BY <1>1 DEF ScaffoldInv, NodeInv
<1>3. CASE pc = "chunk_call"
  <2>1. active = Chunk(Taken) /\ active \in Chunks /\ active # Root /\ Len(active) = 1
    BY <1>1, <1>2, <1>3, ChunksDiffer DEF Chunks
  <2>2. \A i \in 1 .. Taken - 1 : Chunk(i) # active
    <3>1. \A i \in 1 .. Taken - 1 : i \in Nat /\ i # Taken
      BY <1>1
    <3>2. QED
      BY <1>1, <2>1, <3>1, ChunksDiffer
  <2>3. active \notin DOMAIN results
    BY <1>2, <1>3, <2>2
  <2>4. active \notin DOMAIN nestedResults
    BY <1>2, <2>1
  <2>5. QED
    BY <1>2, <2>1, <2>3, <2>4
<1>4. CASE pc = "nested_call"
  <2>1. Made + 1 \in Nat
    BY <1>1
  <2>2. /\ Len(active) = 2 /\ active[1] = Taken /\ active # Root
        /\ \A k \in Nat : active # Chunk(k)
    BY <1>1, <1>2, <1>4, <2>1, PairsDiffer
  <2>3. active \notin DOMAIN results
    <3>1. \A i \in 1 .. Taken : i \in Nat
      BY <1>1
    <3>2. QED
      BY <1>2, <1>4, <2>2, <3>1
  <2>4. active \notin DOMAIN nestedResults
    BY <1>1, <1>2, <2>2
  <2>5. QED
    BY <1>2, <1>4, <2>2, <2>3, <2>4
<1>5. QED
  BY <1>3, <1>4

\* What the abstract Record(p, ok) makes of the results.
WithResult(p, ok) ==
  [q \in DOMAIN Gathered \cup {p} |-> IF q = p THEN ok ELSE Gathered[q]]

LEMMA ChunkIsGathered ==
  ASSUME NEW ok, results' = With(results, active, ok), nestedResults' = nestedResults
  PROVE  Gathered' = WithResult(active, ok)
<1>1. /\ DOMAIN results' = DOMAIN results \cup {active}
      /\ results'[active] = ok
      /\ \A n \in DOMAIN results : n # active => results'[n] = results[n]
  BY DEF With
<1>2. DOMAIN Gathered = DOMAIN results \cup DOMAIN nestedResults
  BY DEF Gathered
<1>3. DOMAIN results' \cup DOMAIN nestedResults' = DOMAIN Gathered \cup {active}
  BY <1>1, <1>2
<1>4. ASSUME NEW n \in DOMAIN Gathered \cup {active}
      PROVE  (IF n \in DOMAIN results' THEN results'[n] ELSE nestedResults'[n])
             = (IF n = active THEN ok ELSE Gathered[n])
  <2>1. CASE n = active
    BY <1>1, <2>1
  <2>2. CASE n # active
    BY <1>1, <1>2, <2>2 DEF Gathered
  <2>3. QED
    BY <2>1, <2>2
<1>5. QED
  BY <1>3, <1>4 DEF Gathered, WithResult

LEMMA ValidationIsGathered ==
  ASSUME NEW ok, nestedResults' = With(nestedResults, active, ok), results' = results,
         active \notin DOMAIN results
  PROVE  Gathered' = WithResult(active, ok)
<1>1. /\ DOMAIN nestedResults' = DOMAIN nestedResults \cup {active}
      /\ nestedResults'[active] = ok
      /\ \A n \in DOMAIN nestedResults : n # active => nestedResults'[n] = nestedResults[n]
  BY DEF With
<1>2. DOMAIN Gathered = DOMAIN results \cup DOMAIN nestedResults
  BY DEF Gathered
<1>3. DOMAIN results' \cup DOMAIN nestedResults' = DOMAIN Gathered \cup {active}
  BY <1>1, <1>2
<1>4. ASSUME NEW n \in DOMAIN Gathered \cup {active}
      PROVE  (IF n \in DOMAIN results' THEN results'[n] ELSE nestedResults'[n])
             = (IF n = active THEN ok ELSE Gathered[n])
  <2>1. CASE n = active
    BY <1>1, <2>1
  <2>2. CASE n # active
    BY <1>1, <1>2, <2>2 DEF Gathered
  <2>3. QED
    BY <2>1, <2>2
<1>5. QED
  BY <1>3, <1>4 DEF Gathered, WithResult

\* A call that returns is recorded; all but the results may be as it likes.
LEMMA CallIsRecorded ==
  ASSUME ScaffoldInv, Undecided, TypeOK', config' = config,
         pc \in {"chunk_call", "nested_call"},
         NEW ok \in BOOLEAN, Gathered' = WithResult(active, ok),
         DOMAIN node \subseteq DOMAIN node', Verdict' \in {"open", "failed"}
  PROVE  Whole!Next
<1> DEFINE parts == DOMAIN node \ {Root}
<1>1. active \in parts \ DOMAIN Gathered
  BY CalledHasNoResult DEF Gathered
<1>2. Verdict = "open"
  BY UndecidedIsOpen
<1>3. parts \subseteq parts'
  OBVIOUS
<1>4. parts' \in SUBSET Seq(Nat)
  BY PartsArePaths DEF ScaffoldInv, Root
<1>5. Whole!Record(active, ok)
  BY <1>1, <1>2, <1>3, <1>4 DEF Whole!Record, WithResult
<1>6. QED
  BY <1>1, <1>5 DEF Whole!Next

LEMMA ScaffoldStartsWhole == Init => Whole!Init
<1> SUFFICES ASSUME Init
             PROVE  Whole!Init
  OBVIOUS
<1>1. DOMAIN node \ {Root} = {}
  BY DEF Init
<1>2. Verdict = "open"
  BY DEF Init, Verdict
<1>3. Gathered = [n \in {} |-> TRUE]
  <2>1. DOMAIN results \cup DOMAIN nestedResults = {}
    BY DEF Init
  <2>2. QED
    BY <2>1 DEF Gathered
<1>4. QED
  BY <1>1, <1>2, <1>3 DEF Whole!Init

\* Each step of the loop divides, records, answers, fails, or is a stutter.
LEMMA ScaffoldStepsWhole ==
  ASSUME ScaffoldInv, Undecided, TypeOK', [Next]_vars
  PROVE  [Whole!Next]_Whole!vars
<1> USE DEF Whole!vars
<1>1. CASE Guard
  <2>1. /\ DOMAIN node \ {Root} = {} /\ Verdict = "open"
        /\ node' = node /\ Gathered' = Gathered
    BY <1>1, UndecidedIsOpen DEF Guard, ScaffoldInv, RootInv, Gathered
  <2>2. CASE config.dryRun
    <3>1. Verdict' = "planned"
      BY <1>1, <2>2 DEF Guard, Verdict
    <3>2. Whole!Plan
      BY <2>1, <3>1 DEF Whole!Plan
    <3>3. QED
      BY <3>2 DEF Whole!Next
  <2>3. CASE ~ config.dryRun
    <3>1. Verdict' = "open"
      BY <1>1, <2>3 DEF Guard, Verdict, Undecided
    <3>2. QED
      BY <2>1, <3>1
  <2>4. QED
    BY <2>2, <2>3
<1>2. CASE BeginAtomic
  <2>1. Verdict = "open" /\ Verdict' = "open"
    BY <1>2, UndecidedIsOpen DEF BeginAtomic, Verdict, Undecided
  <2>2. DOMAIN node' = DOMAIN node /\ Gathered' = Gathered
    BY <1>2 DEF BeginAtomic, Gathered
  <2>3. QED
    BY <2>1, <2>2
<1>3. CASE BeginDecomposed
  <2>1. Verdict = "open" /\ Verdict' = "open"
    BY <1>3, UndecidedIsOpen DEF BeginDecomposed, Verdict, Undecided
  <2>2. DOMAIN node \ {Root} = {} /\ Gathered' = Gathered
    BY <1>3 DEF BeginDecomposed, ScaffoldInv, RootInv, Gathered
  <2>3. DOMAIN node' \ {Root} \in SUBSET Seq(Nat)
    BY <1>3, PartsArePaths DEF BeginDecomposed, ScaffoldInv
  <2>4. Whole!Divide
    BY <2>1, <2>2, <2>3 DEF Whole!Divide
  <2>5. QED
    BY <2>4 DEF Whole!Next
<1>4. CASE SelectChunk \/ Synthesize
  <2>1. Verdict = "open" /\ Verdict' = "open"
    BY <1>4, UndecidedIsOpen DEF SelectChunk, Synthesize, Verdict, Undecided
  <2>2. DOMAIN node' = DOMAIN node /\ Gathered' = Gathered
    BY <1>4 DEF SelectChunk, Synthesize, Gathered
  <2>3. QED
    BY <2>1, <2>2
<1>5. CASE IterationsExhausted \/ CallRaises
  <2>1. Verdict = "open" /\ Verdict' = "failed"
    BY <1>5, UndecidedIsOpen DEF IterationsExhausted, CallRaises, Calls, Verdict, Undecided
  <2>2. node' = node /\ Gathered' = Gathered
    BY <1>5 DEF IterationsExhausted, CallRaises, Gathered
  <2>3. Whole!Fail
    BY <2>1, <2>2 DEF Whole!Fail
  <2>4. QED
    BY <2>3 DEF Whole!Next
<1>6. ASSUME NEW ok \in BOOLEAN, ChunkAnswers(ok)
      PROVE  Whole!Next
  <2>1. Verdict' = "open"
    BY <1>6 DEF ChunkAnswers, RunAfterNode, Verdict, Undecided
  <2>2. Gathered' = WithResult(active, ok)
    BY <1>6, ChunkIsGathered DEF ChunkAnswers
  <2>3. DOMAIN node \subseteq DOMAIN node' /\ config' = config /\ pc \in {"chunk_call", "nested_call"}
    BY <1>6 DEF ChunkAnswers
  <2>4. QED
    BY <2>1, <2>2, <2>3, CallIsRecorded
<1>7. ASSUME NEW ok \in BOOLEAN, ChunkAnswersAndNests(ok)
      PROVE  Whole!Next
  <2>1. Verdict' = "open"
    BY <1>7 DEF ChunkAnswersAndNests, Verdict, Undecided
  <2>2. Gathered' = WithResult(active, ok)
    BY <1>7, ChunkIsGathered DEF ChunkAnswersAndNests
  <2>3. DOMAIN node \subseteq DOMAIN node' /\ config' = config /\ pc \in {"chunk_call", "nested_call"}
    BY <1>7 DEF ChunkAnswersAndNests, With
  <2>4. QED
    BY <2>1, <2>2, <2>3, CallIsRecorded
<1>8. ASSUME NEW ok \in BOOLEAN, ChunkAnswersExhausted(ok)
      PROVE  Whole!Next
  <2>1. Verdict' = "failed"
    BY <1>8 DEF ChunkAnswersExhausted, Verdict
  <2>2. Gathered' = WithResult(active, ok)
    BY <1>8, ChunkIsGathered DEF ChunkAnswersExhausted
  <2>3. DOMAIN node \subseteq DOMAIN node' /\ config' = config /\ pc \in {"chunk_call", "nested_call"}
    BY <1>8 DEF ChunkAnswersExhausted, With
  <2>4. QED
    BY <2>1, <2>2, <2>3, CallIsRecorded
<1>9. ASSUME NEW ok \in BOOLEAN, NestedAnswers(ok)
      PROVE  Whole!Next
  <2>1. Verdict' = "open"
    BY <1>9 DEF NestedAnswers, RunAfterNode, Verdict, Undecided
  <2>2. Gathered' = WithResult(active, ok)
    <3>1. active \notin DOMAIN results
      BY <1>9, CalledHasNoResult DEF NestedAnswers
    <3>2. QED
      BY <1>9, <3>1, ValidationIsGathered DEF NestedAnswers
  <2>3. DOMAIN node \subseteq DOMAIN node' /\ config' = config /\ pc \in {"chunk_call", "nested_call"}
    BY <1>9 DEF NestedAnswers
  <2>4. QED
    BY <2>1, <2>2, <2>3, CallIsRecorded
<1>10. ASSUME NEW ok \in BOOLEAN, RootAnswers(ok) \/ SynthesisAnswers(ok)
       PROVE  Whole!Next
  <2>1. /\ Verdict = "open" /\ pc \in {"root_call", "synthesis_call"}
        /\ DOMAIN node' = DOMAIN node /\ Gathered' = Gathered
    BY <1>10, UndecidedIsOpen DEF RootAnswers, SynthesisAnswers, Finish, Gathered
  <2>2. Verdict' \in {"answered", "failed"}
    BY <1>10 DEF RootAnswers, SynthesisAnswers, Finish, Verdict
  <2>3. CASE Verdict' = "failed"
    <3>1. Whole!Fail
      BY <2>1, <2>3 DEF Whole!Fail
    <3>2. QED
      BY <3>1 DEF Whole!Next
  <2>4. CASE Verdict' = "answered"
    <3>1. DOMAIN Gathered = DOMAIN node \ {Root}
      <4>1. CASE pc = "root_call"
        BY <4>1 DEF ScaffoldInv, RootInv, Gathered
      <4>2. CASE pc = "synthesis_call"
        <5>1. /\ DOMAIN results = Chunks
              /\ DOMAIN node = {Root} \cup Chunks \cup DOMAIN nestedResults
          BY <4>2, SynthesisSeen DEF SynthesisSeesEveryChild
        <5>2. Root \notin Chunks
          BY <4>2, Numbers, ChunksDiffer DEF Chunks, ScaffoldInv, Draining
        <5>3. Root \notin DOMAIN nestedResults
          <6>1. \A n \in DOMAIN nestedResults : Len(n) = 2
            BY <4>2 DEF ScaffoldInv, NodeInv, Draining
          <6>2. Len(Root) = 0
            BY DEF Root
          <6>3. QED
            BY <6>1, <6>2
        <5>4. QED
          BY <5>1, <5>2, <5>3 DEF Gathered
      <4>3. QED
        BY <2>1, <4>1, <4>2
    <3>2. \A n \in DOMAIN Gathered : Gathered[n]
      <4>1. CASE pc = "root_call"
        BY <4>1 DEF ScaffoldInv, RootInv, Gathered
      <4>2. CASE pc = "synthesis_call"
        <5>1. AllSucceeded
          BY <1>10, <2>4, <4>2 DEF RootAnswers, SynthesisAnswers, Finish, Verdict
        <5>2. QED
          BY <5>1 DEF AllSucceeded, Gathered
      <4>3. QED
        BY <2>1, <4>1, <4>2
    <3>3. Whole!Answer
      BY <2>1, <2>4, <3>1, <3>2 DEF Whole!Answer
    <3>4. QED
      BY <3>3 DEF Whole!Next
  <2>5. QED
    BY <2>2, <2>3, <2>4
<1>11. CASE UNCHANGED vars
  BY <1>11 DEF vars, Gathered, Verdict
<1>12. QED
  BY <1>1, <1>2, <1>3, <1>4, <1>5, <1>6, <1>7, <1>8, <1>9, <1>10, <1>11 DEF Next

\* A run of the recursive loop divides and gathers, whatever its calls come to.
THEOREM ScaffoldRefinesWhole == Spec => ScaffoldGathers
<1>1. Spec => []Undecided
  BY UndecidedInit, UndecidedStep, PTL DEF Spec
<1>2. ScaffoldInv /\ Undecided /\ TypeOK' /\ [Next]_vars => [Whole!Next]_Whole!vars
  BY ScaffoldStepsWhole
<1>3. QED
  BY <1>1, <1>2, ScaffoldInvariant, ScaffoldTypes, ScaffoldStartsWhole, PTL
     DEF Spec, ScaffoldGathers, Whole!Spec

-----------------------------------------------------------------------------
(* The gate around the command line: what it decides, for every run and    *)
(* every set of parent answers.  It rests on what the loop has recorded    *)
(* when it returns, ScaffoldInv, and on what TraceGuard accepts.           *)

\* What a returned run leaves to the gate: the root alone, or a result of
\* every chunk.
ReturnedInv ==
  pc = "returned" =>
    \/ /\ DOMAIN node = {Root}
       /\ reason \in {"dry_run_ready", "root_atomic_completed", "node_failed"}
    \/ DOMAIN node # {Root} /\ DOMAIN results = Chunks

GateInv ==
  /\ ScaffoldInv
  /\ ReturnedInv
  /\ GateTypeOK
  /\ gate # "open" => pc = "returned"
  /\ GateIsExact

\* The parts of GateIsExact, for an answer a.
Named(a) == (UNION a.claims) \cup {r.fact : r \in a.references \cup a.facts}
OwnCall(id) == id # Elsewhere /\ id <= config.chunks
OwnHandles(a) == /\ \A r \in a.references : r.handle \in {r.fact, Missing}
                 /\ \A f \in a.facts : f.handle = f.fact

-----------------------------------------------------------------------------
(* What TraceGuard accepts                                                 *)

LEMMA ExactReason ==
  ASSUME NEW s, NEW m, m \subseteq 1 .. MaxChunks, NEW p, NEW f
  PROVE  Guarded!Reason(s, m, p, f) = "accepted" <=> f \in m /\ s[p].handle = f
<1>1. ASSUME f \in m
      PROVE  f \in Ids /\ [i \in 1 .. MaxChunks |-> i][f] = f
  BY <1>1 DEF Ids
<1>2. QED
  BY <1>1 DEF Guarded!Reason

\* Where every entry has a fact, what is accepted is not empty, and cites
\* every fact in its own chunk.
LEMMA ExactAcceptance ==
  ASSUME NEW s, NEW m, m \subseteq 1 .. MaxChunks,
         \A e \in DOMAIN s : s[e].facts # {} /\ s[e].facts \subseteq Ids
  PROVE  Guarded!Accepted(s, m) <=>
           /\ DOMAIN s # {}
           /\ \A e \in DOMAIN s : \A f \in s[e].facts : f \in m /\ s[e].handle = f
<1>1. Guarded!OrphanHandles(s) = {}
  BY DEF Guarded!OrphanHandles
<1>2. \A c \in Guarded!Claims(s) : c[1] \in DOMAIN s /\ c[2] \in s[c[1]].facts
  BY DEF Guarded!Claims
<1>3. ASSUME NEW e \in DOMAIN s, NEW f \in s[e].facts
      PROVE  \E c \in Guarded!Claims(s) : c[1] = e /\ c[2] = f
  <2>1. <<e, f>> \in Guarded!Claims(s)
    BY DEF Guarded!Claims
  <2>2. QED
    BY <2>1
<1>4. Guarded!Claims(s) = {} <=> DOMAIN s = {}
  BY <1>2, <1>3
<1>5. Guarded!Accepted(s, m) <=>
        /\ Guarded!Claims(s) # {}
        /\ \A c \in Guarded!Claims(s) : Guarded!Reason(s, m, c[1], c[2]) = "accepted"
  BY <1>1 DEF Guarded!Accepted, Guarded!RejectionReasons
<1>6. ASSUME NEW c \in Guarded!Claims(s)
      PROVE  Guarded!Reason(s, m, c[1], c[2]) = "accepted"
               <=> c[2] \in m /\ s[c[1]].handle = c[2]
  <2>1. ASSUME NEW p, NEW f
        PROVE  Guarded!Reason(s, m, p, f) = "accepted" <=> f \in m /\ s[p].handle = f
    BY ExactReason
  <2>2. QED
    BY <2>1
<1>7. (\A c \in Guarded!Claims(s) : c[2] \in m /\ s[c[1]].handle = c[2])
        <=> \A e \in DOMAIN s : \A f \in s[e].facts : f \in m /\ s[e].handle = f
  <2>1. ASSUME \A c \in Guarded!Claims(s) : c[2] \in m /\ s[c[1]].handle = c[2],
               NEW e \in DOMAIN s, NEW f \in s[e].facts
        PROVE  f \in m /\ s[e].handle = f
    BY <1>3, <2>1
  <2>2. ASSUME \A e \in DOMAIN s : \A f \in s[e].facts : f \in m /\ s[e].handle = f,
               NEW c \in Guarded!Claims(s)
        PROVE  c[2] \in m /\ s[c[1]].handle = c[2]
    BY <1>2, <2>2
  <2>3. QED
    BY <2>1, <2>2
<1>8. QED
  BY <1>4, <1>5, <1>6, <1>7

-----------------------------------------------------------------------------
(* What the gate makes of an answer                                        *)

LEMMA AnswerShape ==
  ASSUME NEW a \in Answers
  PROVE  /\ UNION a.claims \subseteq Ids
         /\ a.references \subseteq Citation /\ a.facts \subseteq Citation
         /\ \A r \in a.references \cup a.facts : r.fact \in Ids /\ r.handle \in Ids \cup {Missing}
BY GateAssumption DEF Citation

\* The manifest of a run that recorded every chunk.
LEMMA FullManifest ==
  ASSUME config \in Configs, DOMAIN results = Chunks
  PROVE  /\ Manifest = 1 .. config.chunks
         /\ Manifest # {} /\ Manifest \subseteq 1 .. MaxChunks
         /\ \A id \in Ids : id \in Manifest <=> OwnCall(id)
<1>1. /\ config.chunks \in Nat \ {0} /\ config.chunks <= MaxChunks /\ MaxChunks \in Nat
      /\ Elsewhere \notin 1 .. MaxChunks
  BY ConfigAssumption, GateAssumption DEF Config
<1>2. \A i \in 1 .. MaxChunks : Chunk(i) \in Chunks <=> i \in 1 .. config.chunks
  BY <1>1, ChunksDiffer DEF Chunks
<1>3. Manifest = 1 .. config.chunks
  BY <1>1, <1>2 DEF Manifest
<1>4. Manifest # {} /\ Manifest \subseteq 1 .. MaxChunks
  BY <1>1, <1>3
<1>5. ASSUME NEW id \in Ids
      PROVE  id \in Manifest <=> OwnCall(id)
  BY <1>1, <1>3 DEF OwnCall, Ids
<1>6. QED
  BY <1>3, <1>4, <1>5

Entries(a) == {Quote(id, ChunkOf(id)) : id \in UNION a.claims}
              \cup {Quote(r.fact, IF r.handle = Missing THEN ChunkOf(r.fact) ELSE r.handle)
                      : r \in a.references}
              \cup {Quote(f.fact, f.handle) : f \in a.facts}

LEMMA NormalizedEntries ==
  ASSUME NEW a
  PROVE  /\ DOMAIN Normalized(a) = Entries(a)
         /\ \A e \in Entries(a) : Normalized(a)[e] = e
BY DEF Normalized, Entries

LEMMA NamedMembers ==
  ASSUME NEW a, NEW id
  PROVE  id \in Named(a) <=> \/ id \in UNION a.claims
                             \/ \E r \in a.references : id = r.fact
                             \/ \E f \in a.facts : id = f.fact
BY DEF Named

LEMMA AcceptedExactly ==
  ASSUME NEW a \in Answers, config \in Configs, DOMAIN results = Chunks
  PROVE  Guarded!Accepted(Normalized(a), Manifest) <=>
           /\ Named(a) # {} /\ (\A id \in Named(a) : OwnCall(id))
           /\ OwnHandles(a)
<1>1. /\ Manifest \subseteq 1 .. MaxChunks
      /\ \A id \in Ids : id \in Manifest <=> OwnCall(id)
  BY FullManifest
<1>2. /\ UNION a.claims \subseteq Ids
      /\ \A r \in a.references : r.fact \in Ids
      /\ \A f \in a.facts : f.fact \in Ids
  BY AnswerShape
<1>3. Missing \notin Ids
  BY GateAssumption
<1>4. \A id, handle : Quote(id, handle).facts = {id} /\ Quote(id, handle).handle = handle
  BY DEF Quote
<1>5. \A e \in Entries(a) : \E id \in Ids : e.facts = {id}
  BY <1>2, <1>4 DEF Entries
<1>6. Guarded!Accepted(Normalized(a), Manifest) <=>
        /\ Entries(a) # {}
        /\ \A e \in Entries(a) : \A f \in e.facts : f \in Manifest /\ e.handle = f
  <2>1. \A e \in DOMAIN Normalized(a) : /\ Normalized(a)[e].facts # {}
                                        /\ Normalized(a)[e].facts \subseteq Ids
    BY <1>5, NormalizedEntries
  <2>2. QED
    <3>1. ASSUME NEW s, s = Normalized(a), NEW m, m = Manifest
          PROVE  Guarded!Accepted(s, m) <=>
                   /\ DOMAIN s # {}
                   /\ \A e \in DOMAIN s : \A f \in s[e].facts : f \in m /\ s[e].handle = f
      <4>1. /\ m \subseteq 1 .. MaxChunks
            /\ \A e \in DOMAIN s : s[e].facts # {} /\ s[e].facts \subseteq Ids
        BY <1>1, <2>1, <3>1
      <4>2. QED
        BY <4>1, ExactAcceptance, Zenon
    <3>2. QED
      BY <3>1, NormalizedEntries
<1>7. Entries(a) # {} <=> Named(a) # {}
  <2>1. ASSUME Named(a) # {}
        PROVE  Entries(a) # {}
    <3>1. PICK id : \/ id \in UNION a.claims
                    \/ \E r \in a.references : id = r.fact
                    \/ \E f \in a.facts : id = f.fact
      BY <2>1, NamedMembers
    <3>2. QED
      BY <3>1 DEF Entries
  <2>2. ASSUME Entries(a) # {}
        PROVE  Named(a) # {}
    <3>1. \/ \E id : id \in UNION a.claims
          \/ \E r : r \in a.references
          \/ \E f : f \in a.facts
      BY <2>2 DEF Entries
    <3>2. (\E f \in a.references \cup a.facts : TRUE) => Named(a) # {}
      BY NamedMembers
    <3>3. (\E id : id \in UNION a.claims) => Named(a) # {}
      BY NamedMembers
    <3>4. QED
      BY <3>1, <3>2, <3>3
  <2>3. QED
    BY <2>1, <2>2
<1>8. (\A e \in Entries(a) : \A f \in e.facts : f \in Manifest /\ e.handle = f) <=>
        /\ \A id \in UNION a.claims : id \in Manifest /\ ChunkOf(id) = id
        /\ \A r \in a.references :
             /\ r.fact \in Manifest
             /\ (IF r.handle = Missing THEN ChunkOf(r.fact) ELSE r.handle) = r.fact
        /\ \A f \in a.facts : f.fact \in Manifest /\ f.handle = f.fact
  BY <1>4 DEF Entries
<1>9. (\A id \in Named(a) : OwnCall(id)) <=>
        /\ \A id \in UNION a.claims : id \in Manifest
        /\ \A r \in a.references : r.fact \in Manifest
        /\ \A f \in a.facts : f.fact \in Manifest
  <2>1. (\A id \in Named(a) : OwnCall(id)) <=> \A id \in Named(a) : id \in Manifest
    <3>1. \A id \in Named(a) : id \in Ids
      BY <1>2, NamedMembers
    <3>2. QED
      BY <1>1, <3>1
  <2>2. (\A id \in Named(a) : id \in Manifest) <=>
          /\ \A id \in UNION a.claims : id \in Manifest
          /\ \A r \in a.references : r.fact \in Manifest
          /\ \A f \in a.facts : f.fact \in Manifest
    BY NamedMembers
  <2>3. QED
    BY <2>1, <2>2
<1>10. \A id \in Manifest : ChunkOf(id) = id
  BY DEF ChunkOf
<1>11. QED
  BY <1>2, <1>3, <1>6, <1>7, <1>8, <1>9, <1>10 DEF OwnHandles

-----------------------------------------------------------------------------
(* The invariant                                                           *)

LEMMA GateInit == GatedInit => GateInv
<1> SUFFICES ASSUME GatedInit
             PROVE  GateInv
  OBVIOUS
<1>1. ScaffoldInv /\ TypeOK
  BY ScaffoldInit, ScaffoldTypesInit DEF GatedInit
<1>2. answer = NoAnswer /\ answer \notin Answers \cup {NotAnObject} /\ gate = "open"
      /\ pc = "guard"
  BY GateAssumption DEF GatedInit, Init
<1>3. QED
  BY <1>1, <1>2 DEF GateInv, ReturnedInv, GateTypeOK, GateIsExact

\* A run returns as a dry run, from the root's call or from the synthesis.
LEMMA ReturnedStep ==
  ASSUME ScaffoldInv, ReturnedInv, [Next]_vars
  PROVE  ReturnedInv'
<1>1. CASE Guard
  BY <1>1 DEF Guard, ReturnedInv, ScaffoldInv, RootInv
<1>2. ASSUME NEW ok \in BOOLEAN, RootAnswers(ok)
      PROVE  ReturnedInv'
  BY <1>2 DEF RootAnswers, Finish, ReturnedInv, ScaffoldInv, RootInv
<1>3. ASSUME NEW ok \in BOOLEAN, SynthesisAnswers(ok)
      PROVE  ReturnedInv'
  <2>1. DOMAIN results = Chunks /\ Chunks \subseteq DOMAIN node
    BY <1>3, SynthesisSeen DEF SynthesisAnswers, SynthesisSeesEveryChild
  <2>2. Chunk(1) \in Chunks /\ Chunk(1) # Root
    <3>1. config.chunks \in Nat \ {0}
      BY <1>3 DEF ScaffoldInv, TypesInv, Config
    <3>2. QED
      BY <3>1, ChunksDiffer DEF Chunks
  <2>3. DOMAIN node' = DOMAIN node /\ UNCHANGED <<results, config>>
    BY <1>3 DEF SynthesisAnswers, Finish
  <2>4. QED
    BY <2>1, <2>2, <2>3 DEF ReturnedInv, Chunks
<1>4. CASE UNCHANGED vars
  BY <1>4 DEF vars, ReturnedInv, Chunks
<1>5. CASE \/ BeginAtomic \/ BeginDecomposed \/ SelectChunk \/ IterationsExhausted
           \/ Synthesize \/ CallRaises
           \/ \E ok \in BOOLEAN : \/ ChunkAnswers(ok) \/ ChunkAnswersAndNests(ok)
                                  \/ ChunkAnswersExhausted(ok) \/ NestedAnswers(ok)
  <2>1. pc' # "returned"
    BY <1>5 DEF BeginAtomic, BeginDecomposed, SelectChunk, IterationsExhausted, Synthesize,
                CallRaises, ChunkAnswers, ChunkAnswersAndNests, ChunkAnswersExhausted,
                NestedAnswers
  <2>2. QED
    BY <2>1 DEF ReturnedInv
<1>6. QED
  BY <1>1, <1>2, <1>3, <1>4, <1>5 DEF Next

\* A returned run goes no further.
LEMMA ReturnedStays == pc = "returned" /\ [Next]_vars => UNCHANGED vars
BY DEF Next, Guard, BeginAtomic, BeginDecomposed, SelectChunk, IterationsExhausted, Synthesize,
       ChunkAnswers, ChunkAnswersAndNests, ChunkAnswersExhausted, NestedAnswers, RootAnswers,
       SynthesisAnswers, CallRaises, Calls

\* The verdict on an answer is the one the property demands.
LEMMA RunGateKeeps == GateInv /\ RunGate => GateInv'
<1> SUFFICES ASSUME GateInv, RunGate
             PROVE  GateInv'
  OBVIOUS
<1>1. /\ ScaffoldInv /\ ReturnedInv /\ TypeOK /\ pc = "returned"
      /\ config \in Configs /\ UNCHANGED vars
  BY DEF GateInv, GateTypeOK, TypeOK, RunGate
<1>2. ScaffoldInv' /\ TypeOK' /\ ReturnedInv'
  BY <1>1, ScaffoldStep, ScaffoldTypesStep, ReturnedStep
<1>3. UNCHANGED <<config, pc, reason>>
  BY <1>1 DEF vars
<1>4. CASE ~ HasParentState
  <2>1. answer' = NoAnswer /\ gate' = "not_applicable" /\ DOMAIN node = {Root}
    BY <1>4 DEF RunGate, HasParentState
  <2>2. reason \in {"dry_run_ready", "root_atomic_completed", "node_failed"}
    BY <1>1, <2>1 DEF ReturnedInv
  <2>3. QED
    BY <1>1, <1>2, <1>3, <2>1, <2>2, GateAssumption DEF GateInv, GateTypeOK, GateIsExact
<1>5. CASE HasParentState
  <2>1. PICK a \in Answers \cup {NotAnObject} : answer' = a /\ gate' = Status(a)
    BY <1>5 DEF RunGate
  <2>2. DOMAIN results = Chunks
    BY <1>1, <1>5 DEF ReturnedInv, HasParentState
  <2>3. Status(a) \in {"accepted", "rejected", "not_applicable"}
    BY DEF Status
  <2>4. CASE a = NotAnObject
    <3>1. gate' = "rejected"
      BY <2>1, <2>4 DEF Status
    <3>2. answer' \notin Answers /\ answer' # NoAnswer /\ answer' = NotAnObject
      BY <2>1, <2>4, GateAssumption
    <3>3. QED
      BY <1>1, <1>2, <1>3, <3>1, <3>2 DEF GateInv, GateTypeOK, GateIsExact
  <2>5. CASE a \in Answers
    <3>1. Manifest # {} /\ a # NotAnObject /\ a # NoAnswer
      BY <1>1, <2>2, <2>5, FullManifest, GateAssumption
    <3>2. Guarded!Accepted(Normalized(a), Manifest) <=>
            /\ Named(a) # {} /\ (\A id \in Named(a) : OwnCall(id))
            /\ OwnHandles(a)
      BY <1>1, <2>2, <2>5, AcceptedExactly
    <3>3. ~ ClaimBearing(a) => Named(a) = {} /\ a.claims = {}
      BY DEF ClaimBearing, Named
    <3>4. /\ gate' = "accepted" <=> /\ Named(a) # {} /\ (\A id \in Named(a) : OwnCall(id))
                                    /\ OwnHandles(a)
          /\ gate' = "not_applicable" => Named(a) = {} /\ a.claims = {}
      BY <2>1, <3>1, <3>2, <3>3 DEF Status
    <3>5. GateIsExact'
      BY <1>3, <2>1, <3>1, <3>4 DEF GateIsExact, Named, OwnCall, OwnHandles
    <3>6. QED
      BY <1>1, <1>2, <1>3, <2>1, <2>3, <3>5 DEF GateInv, GateTypeOK
  <2>6. QED
    BY <2>4, <2>5
<1>6. QED
  BY <1>4, <1>5

LEMMA GateStep == GateInv /\ [GatedNext]_gateVars => GateInv'
<1> SUFFICES ASSUME GateInv, [GatedNext]_gateVars
             PROVE  GateInv'
  OBVIOUS
<1>1. CASE RunGate
  BY <1>1, RunGateKeeps
<1>2. CASE [Next]_vars /\ UNCHANGED <<answer, gate>>
  <2>1. ScaffoldInv' /\ TypeOK' /\ ReturnedInv'
    BY <1>2, ScaffoldStep, ScaffoldTypesStep, ReturnedStep DEF GateInv, GateTypeOK
  <2>2. CASE pc = "returned"
    <3>1. UNCHANGED <<pc, config, reason>>
      BY <1>2, <2>2, ReturnedStays DEF vars
    <3>2. QED
      BY <1>2, <2>1, <2>2, <3>1 DEF GateInv, GateTypeOK, GateIsExact
  <2>3. CASE pc # "returned"
    <3>1. answer = NoAnswer /\ gate = "open"
      BY <2>3 DEF GateInv, GateTypeOK
    <3>2. answer' \notin Answers \cup {NotAnObject} /\ gate' = "open" /\ answer' = NoAnswer
      BY <1>2, <3>1, GateAssumption
    <3>3. QED
      BY <2>1, <3>2 DEF GateInv, GateTypeOK, GateIsExact
  <2>4. QED
    BY <2>2, <2>3
<1>3. QED
  BY <1>1, <1>2 DEF GatedNext, gateVars

-----------------------------------------------------------------------------
(* The theorems                                                            *)

LEMMA GateInvariant == GatedSpec => []GateInv
BY GateInit, GateStep, PTL DEF GatedSpec

\* The gate has given at most one verdict, on an answer it was given, and the
\* loop it watches is well typed.
THEOREM GateIsTyped == GatedSpec => []GateTypeOK
<1>1. GateInv => GateTypeOK
  BY DEF GateInv
<1>2. QED
  BY <1>1, GateInvariant, PTL

\* An answer is accepted exactly when everything it names is a chunk call of
\* this run, cited with its own chunk, for any number of chunks and any answer.
THEOREM TheGateIsExact == GatedSpec => []GateIsExact
<1>1. GateInv => GateIsExact
  BY DEF GateInv
<1>2. QED
  BY <1>1, GateInvariant, PTL

=============================================================================
