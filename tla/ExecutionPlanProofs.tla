------------------------- MODULE ExecutionPlanProofs -------------------------
(***************************************************************************)
(* What the plan of a run is, for every finite set of ACs, every graph of  *)
(* dependencies, also a cyclic one, all claims and all ACs that must run   *)
(* alone: the stages partition the ACs (PlanIsPartition), a plan that is   *)
(* not refused puts each AC after all it depends on (PlanIsOrdered), and   *)
(* exactly the cyclic graphs are refused (PlannableIffAcyclic).            *)
(* The recursive functions of the model are reached through Recursion: a   *)
(* function given by its value at 0 and a step to each number exists.      *)
(***************************************************************************)
EXTENDS ExecutionPlan, FiniteSetTheorems, SequenceTheorems, WellFoundedInduction, TLAPS

-----------------------------------------------------------------------------
(* Induction and recursion                                                 *)

\* A set of numbers that is not empty has a least one.
LEMMA LeastNumber ==
  ASSUME NEW S \in SUBSET Nat, S # {}
  PROVE  \E n \in S : \A m \in S : n <= m
<1> DEFINE less == {ss \in Nat \X Nat : ss[1] < ss[2]}
<1>1. IsWellFoundedOn(less, Nat)
  BY NatLessThanWellFounded DEF OpToRel
<1>2. PICK n \in S : \A m \in S : ~ (<<m, n>> \in less)
  <2> HIDE DEF less
  <2>1. QED
    BY <1>1, WFMin
<1>3. ASSUME NEW m \in S
      PROVE  n <= m
  <2>1. <<m, n>> \in Nat \X Nat /\ ~ (m < n)
    BY <1>2
  <2>2. QED
    BY <2>1
<1>4. QED
  BY <1>3

LEMMA InductionTo ==
  ASSUME NEW n \in Nat, NEW P, 0 \in P, \A k \in 1 .. n : k - 1 \in P => k \in P
  PROVE  0 .. n \subseteq P
<1> DEFINE bad == (0 .. n) \ P
<1> SUFFICES ASSUME bad # {}
             PROVE  FALSE
  OBVIOUS
<1>1. PICK b \in bad : \A m \in bad : b <= m
  <2>1. bad \in SUBSET Nat
    OBVIOUS
  <2> HIDE DEF bad
  <2>2. QED
    BY <2>1, LeastNumber
<1>2. b \in 1 .. n /\ b - 1 \in 0 .. n /\ b - 1 \notin bad
  BY <1>1
<1>3. QED
  BY <1>1, <1>2

\* A function may be defined from its value at 0 and the step to each number.
Recursive(n, S, base, next, g) ==
  /\ g \in [0 .. n -> S] /\ g[0] = base
  /\ \A k \in 1 .. n : g[k] = next[k][g[k - 1]]

LEMMA Recursion ==
  ASSUME NEW n \in Nat, NEW S, NEW base \in S, NEW next \in [1 .. n -> [S -> S]]
  PROVE  \E g : Recursive(n, S, base, next, g)
<1> DEFINE Upto(m, g) == g[0] = base /\ \A k \in 1 .. m : g[k] = next[k][g[k - 1]]
           P == {m \in 0 .. n : \E g \in [0 .. m -> S] : Upto(m, g)}
<1>1. 0 \in P
  <2> DEFINE h == [i \in 0 .. 0 |-> base]
  <2>1. h \in [0 .. 0 -> S] /\ Upto(0, h)
    OBVIOUS
  <2> HIDE DEF h, Upto
  <2>2. QED
    BY <2>1
<1>2. ASSUME NEW k \in 1 .. n, k - 1 \in P
      PROVE  k \in P
  <2>1. PICK g \in [0 .. k - 1 -> S] : Upto(k - 1, g)
    BY <1>2
  <2> DEFINE h == [i \in 0 .. k |-> IF i = k THEN next[k][g[k - 1]] ELSE g[i]]
  <2>2. next[k][g[k - 1]] \in S
    OBVIOUS
  <2>3. h \in [0 .. k -> S]
    BY <2>2
  <2>4. h[0] = base
    BY <2>1
  <2>5. ASSUME NEW i \in 1 .. k
        PROVE  h[i] = next[i][h[i - 1]]
    <3>1. CASE i = k
      BY <3>1
    <3>2. CASE i # k
      <4>1. i \in 1 .. k - 1 /\ h[i] = g[i] /\ h[i - 1] = g[i - 1]
        BY <3>2
      <4>2. QED
        BY <2>1, <4>1
    <3>3. QED
      BY <3>1, <3>2
  <2>6. Upto(k, h)
    BY <2>4, <2>5
  <2> HIDE DEF h, Upto
  <2>7. QED
    BY <2>3, <2>6
<1>3. n \in P
  <2> HIDE DEF P
  <2>1. 0 .. n \subseteq P
    BY <1>1, <1>2, InductionTo
  <2>2. QED
    BY <2>1
<1>4. PICK g \in [0 .. n -> S] : Upto(n, g)
  BY <1>3
<1>5. QED
  BY <1>4 DEF Recursive

PlacedBy(deps, f) ==
  f = [k \in 0 .. Cardinality(DOMAIN deps) |->
         IF k = 0 THEN {} ELSE f[k - 1] \cup Ready(deps, f[k - 1])]

LEMMA PlacedChosen == \A deps : Placed(deps) = CHOOSE f : PlacedBy(deps, f)
BY DEF Placed, PlacedBy

-----------------------------------------------------------------------------
(* The levels of the topological walk                                      *)

LEMMA ReadyRemain ==
  ASSUME NEW deps, NEW placed
  PROVE  /\ Ready(deps, placed) \subseteq DOMAIN deps \ placed
         /\ DOMAIN deps \ placed # {} => Ready(deps, placed) # {}
<1> DEFINE remaining == DOMAIN deps \ placed
           free == {a \in remaining : deps[a] \subseteq placed}
<1>1. Ready(deps, placed) = IF free = {} THEN remaining ELSE free
  BY DEF Ready
<1>2. QED
  BY <1>1

LEMMA PlacedSteps ==
  ASSUME NEW deps, IsFiniteSet(DOMAIN deps),
         NEW n, n = Cardinality(DOMAIN deps), NEW f, f = Placed(deps)
  PROVE  /\ n \in Nat
         /\ f \in [0 .. n -> SUBSET DOMAIN deps]
         /\ f[0] = {}
         /\ \A k \in 1 .. n : f[k] = f[k - 1] \cup Ready(deps, f[k - 1])
<1> DEFINE S == SUBSET DOMAIN deps
           next == [k \in 1 .. n |-> [v \in S |-> v \cup Ready(deps, v)]]
           base == {}
<1>1. n \in Nat
  BY FS_CardinalityType
<1>2. /\ base \in S
      /\ next \in [1 .. n -> [S -> S]]
      /\ \A k \in 1 .. n : \A v \in S : next[k][v] = v \cup Ready(deps, v)
  BY ReadyRemain
<1>3. PICK g : Recursive(n, S, base, next, g)
  <2> HIDE DEF S, next, base
  <2>1. QED
    BY <1>1, <1>2, Recursion, Zenon
<1>4. PlacedBy(deps, g)
  <2>1. ASSUME NEW k \in 0 .. n
        PROVE  g[k] = IF k = 0 THEN {} ELSE g[k - 1] \cup Ready(deps, g[k - 1])
    <3>1. CASE k = 0
      BY <1>3, <3>1 DEF Recursive
    <3>2. CASE k # 0
      <4>1. k \in 1 .. n /\ k - 1 \in 0 .. n
        BY <1>1, <3>2
      <4> HIDE DEF S, next
      <4>2. g[k - 1] \in S /\ g[k] = next[k][g[k - 1]]
        BY <1>3, <4>1 DEF Recursive
      <4>3. QED
        BY <1>2, <3>2, <4>1, <4>2
    <3>3. QED
      BY <3>1, <3>2
  <2>2. g = [k \in 0 .. n |-> g[k]]
    <3> HIDE DEF S, next, base
    <3>1. QED
      BY <1>3 DEF Recursive
  <2>3. QED
    BY <2>1, <2>2 DEF PlacedBy
<1>5. PlacedBy(deps, f)
  BY <1>4, PlacedChosen, Zenon
<1>6. /\ DOMAIN f = 0 .. n /\ f[0] = {}
      /\ \A k \in 1 .. n : f[k] = f[k - 1] \cup Ready(deps, f[k - 1])
  <2>1. /\ DOMAIN f = 0 .. n
        /\ \A k \in 0 .. n : f[k] = IF k = 0 THEN {} ELSE f[k - 1] \cup Ready(deps, f[k - 1])
    BY <1>5, Zenon DEF PlacedBy
  <2>2. \A k \in 1 .. n : k \in 0 .. n /\ k # 0
    BY <1>1
  <2>3. 0 \in 0 .. n
    BY <1>1
  <2>4. QED
    BY <2>1, <2>2, <2>3, Zenon
<1>7. \A k \in 0 .. n : f[k] \in S
  <2> DEFINE P == {k \in 0 .. n : f[k] \in S}
  <2>1. 0 \in P
    BY <1>1, <1>6
  <2>2. ASSUME NEW k \in 1 .. n, k - 1 \in P
        PROVE  k \in P
    BY <1>6, <2>2, ReadyRemain
  <2>3. 0 .. n \subseteq P
    <3> HIDE DEF P
    <3>1. QED
      BY <1>1, <2>1, <2>2, InductionTo
  <2>4. QED
    BY <2>3
<1>8. QED
  BY <1>1, <1>5, <1>6, <1>7 DEF PlacedBy

\* Each level places something until everything is placed.
LEMMA PlacedAll ==
  ASSUME NEW deps, IsFiniteSet(DOMAIN deps),
         NEW n, n = Cardinality(DOMAIN deps), NEW f, f = Placed(deps)
  PROVE  \E m \in 0 .. n : /\ f[m] = DOMAIN deps
                           /\ \A k \in 1 .. m : f[k] # f[k - 1]
                           /\ \A k \in m + 1 .. n : f[k] = f[k - 1]
<1> DEFINE acs == DOMAIN deps
<1>1. /\ n \in Nat /\ f \in [0 .. n -> SUBSET acs] /\ f[0] = {}
      /\ \A k \in 1 .. n : f[k] = f[k - 1] \cup Ready(deps, f[k - 1])
  BY PlacedSteps
<1>2. \A k \in 0 .. n : f[k] \subseteq acs /\ IsFiniteSet(f[k]) /\ Cardinality(f[k]) \in Nat
  BY <1>1, FS_Subset, FS_CardinalityType
<1>3. \A k \in 0 .. n : f[k] = acs \/ Cardinality(f[k]) >= k
  <2> DEFINE P == {k \in 0 .. n : f[k] = acs \/ Cardinality(f[k]) >= k}
  <2>1. 0 \in P
    BY <1>1, <1>2
  <2>2. ASSUME NEW k \in 1 .. n, k - 1 \in P
        PROVE  k \in P
    <3>1. k - 1 \in 0 .. n /\ k \in 0 .. n /\ f[k] = f[k - 1] \cup Ready(deps, f[k - 1])
      BY <1>1
    <3>2. CASE f[k - 1] = acs
      <4>1. f[k] = acs
        BY <3>1, <3>2, ReadyRemain
      <4>2. QED
        BY <3>1, <4>1
    <3>3. CASE f[k - 1] # acs
      <4>1. PICK a \in Ready(deps, f[k - 1]) : a \notin f[k - 1]
        <5>1. f[k - 1] \subseteq acs
          BY <1>2, <3>1
        <5>2. \A placed : /\ Ready(deps, placed) \subseteq acs \ placed
                          /\ acs \ placed # {} => Ready(deps, placed) # {}
          <6>1. TAKE placed
          <6>2. QED
            BY ReadyRemain
        <5>3. acs \ f[k - 1] # {}
          BY <5>1, <3>3
        <5>4. QED
          BY <5>2, <5>3
      <4>2. /\ IsFiniteSet(f[k - 1] \cup {a})
            /\ Cardinality(f[k - 1] \cup {a}) = Cardinality(f[k - 1]) + 1
        BY <1>2, <3>1, <4>1, FS_AddElement
      <4>3. f[k - 1] \cup {a} \in SUBSET f[k]
        BY <3>1, <4>1
      <4>4. Cardinality(f[k - 1]) + 1 <= Cardinality(f[k])
        BY <1>2, <3>1, <4>2, <4>3, FS_Subset
      <4>5. Cardinality(f[k - 1]) >= k - 1
        BY <2>2, <3>3
      <4>6. ASSUME NEW x, NEW y, NEW z, x \in Nat, y \in Nat, z \in Nat, x + 1 <= y, x >= z - 1
            PROVE  y >= z
        BY <4>6
      <4>7. Cardinality(f[k]) >= k
        <5>1. Cardinality(f[k - 1]) \in Nat /\ Cardinality(f[k]) \in Nat /\ k \in Nat
          <6>1. Cardinality(f[k - 1]) \in Nat /\ Cardinality(f[k]) \in Nat
            BY <1>2, <3>1, Zenon
          <6>2. k \in Nat
            BY <1>1
          <6>3. QED
            BY <6>1, <6>2
        <5>2. QED
          BY <4>4, <4>5, <4>6, <5>1, Zenon
      <4>8. QED
        BY <3>1, <4>7
    <3>4. QED
      BY <3>2, <3>3
  <2>3. 0 .. n \subseteq P
    <3> HIDE DEF P
    <3>1. QED
      BY <1>1, <2>1, <2>2, InductionTo
  <2>4. QED
    BY <2>3
<1>4. f[n] = acs
  <2>1. CASE Cardinality(f[n]) >= n
    <3>1. f[n] \in SUBSET acs /\ n \in 0 .. n
      BY <1>1
    <3>2. Cardinality(f[n]) <= Cardinality(acs) /\ (Cardinality(acs) = Cardinality(f[n]) => acs = f[n])
      BY <3>1, FS_Subset
    <3>3. QED
      BY <1>2, <2>1, <3>1, <3>2
  <2>2. QED
    BY <1>1, <1>3, <2>1
<1> DEFINE full == {k \in 0 .. n : f[k] = acs}
<1>5. PICK m \in full : \A k \in full : m <= k
  <2>1. full \in SUBSET Nat /\ n \in full
    BY <1>1, <1>4
  <2> HIDE DEF full
  <2>2. QED
    BY <2>1, LeastNumber
<1>6. ASSUME NEW k \in 1 .. m
      PROVE  f[k] # f[k - 1]
  <2>1. k - 1 \in 0 .. n /\ k \in 1 .. n /\ f[k - 1] # acs
    BY <1>1, <1>5
  <2>2. Ready(deps, f[k - 1]) # {} /\ Ready(deps, f[k - 1]) \cap f[k - 1] = {}
    BY <1>2, <2>1, ReadyRemain
  <2>3. f[k] = f[k - 1] \cup Ready(deps, f[k - 1])
    BY <1>1, <2>1
  <2>4. QED
    BY <2>2, <2>3
<1>7. \A k \in 0 .. n : k >= m => f[k] = acs
  <2> DEFINE P == {k \in 0 .. n : k >= m => f[k] = acs}
  <2>1. 0 \in P
    BY <1>1, <1>5
  <2>2. ASSUME NEW k \in 1 .. n, k - 1 \in P
        PROVE  k \in P
    <3>1. CASE k = m
      BY <1>5, <3>1
    <3>2. CASE k # m
      <4>1. k - 1 >= m \/ k < m
        BY <1>5, <3>2
      <4>2. f[k] = f[k - 1] \cup Ready(deps, f[k - 1])
        BY <1>1
      <4>3. QED
        <5>1. k - 1 >= m => f[k - 1] = acs
          BY <2>2
        <5>2. k - 1 >= m => f[k] = acs
          BY <4>2, <5>1, ReadyRemain
        <5>3. k < m => ~ (k >= m)
          BY <1>1, <1>5
        <5>4. QED
          BY <1>1, <4>1, <5>2, <5>3
    <3>3. QED
      BY <3>1, <3>2
  <2>3. 0 .. n \subseteq P
    <3> HIDE DEF P
    <3>1. QED
      BY <1>1, <2>1, <2>2, InductionTo
  <2>4. QED
    BY <2>3
<1>8. ASSUME NEW k \in m + 1 .. n
      PROVE  f[k] = f[k - 1]
  <2>1. k \in 0 .. n /\ k - 1 \in 0 .. n /\ k >= m /\ k - 1 >= m
    BY <1>1, <1>5
  <2>2. QED
    BY <1>7, <2>1
<1>9. QED
  BY <1>5, <1>6, <1>8

\* What is placed stays placed.
LEMMA PlacedGrows ==
  ASSUME NEW deps, IsFiniteSet(DOMAIN deps),
         NEW n, n = Cardinality(DOMAIN deps), NEW f, f = Placed(deps),
         NEW j \in 0 .. n, NEW k \in 0 .. n, j <= k
  PROVE  f[j] \subseteq f[k]
<1>1. /\ n \in Nat /\ f \in [0 .. n -> SUBSET DOMAIN deps]
      /\ \A i \in 1 .. n : f[i] = f[i - 1] \cup Ready(deps, f[i - 1])
  BY PlacedSteps
<1> DEFINE P == {i \in 0 .. n : i >= j => f[j] \subseteq f[i]}
<1>2. 0 \in P
  BY <1>1
<1>3. ASSUME NEW i \in 1 .. n, i - 1 \in P
      PROVE  i \in P
  <2>1. CASE i - 1 >= j
    BY <1>1, <1>3, <2>1
  <2>2. CASE ~ (i - 1 >= j)
    <3>1. i >= j => i = j
      BY <1>1, <2>2
    <3>2. QED
      BY <1>1, <3>1
  <2>3. QED
    BY <2>1, <2>2
<1>4. 0 .. n \subseteq P
  <2> HIDE DEF P
  <2>1. QED
    BY <1>1, <1>2, <1>3, InductionTo
<1>5. QED
  BY <1>4

\* What the first k members of a sequence of sets hold.
Behind(stages, k) == UNION {stages[i] : i \in 1 .. k}

\* A sequence of sets that are not empty and hold each member of U once.
IsPartition(s, U) ==
  /\ s \in Seq(SUBSET U)
  /\ \A i \in 1 .. Len(s) : s[i] # {}
  /\ \A a \in U : \E i \in 1 .. Len(s) : a \in s[i]
  /\ \A i, j \in 1 .. Len(s) : \A a \in U : a \in s[i] /\ a \in s[j] => i = j

\* The levels are what each step of the walk places, numbered without a gap.
LEMMA LevelsPlaced ==
  ASSUME NEW deps, IsFiniteSet(DOMAIN deps),
         NEW n, n = Cardinality(DOMAIN deps), NEW f, f = Placed(deps)
  PROVE  \E m \in Nat : /\ m <= n
                        /\ f[m] = DOMAIN deps
                        /\ \A k \in 1 .. m : f[k] # f[k - 1]
                        /\ ExecutionLevels(deps) = [k \in 1 .. m |-> f[k] \ f[k - 1]]
<1> DEFINE acs == DOMAIN deps
<1>1. n \in Nat /\ f \in [0 .. n -> SUBSET acs]
  BY PlacedSteps
<1>2. PICK m \in 0 .. n : /\ f[m] = acs
                          /\ \A k \in 1 .. m : f[k] # f[k - 1]
                          /\ \A k \in m + 1 .. n : f[k] = f[k - 1]
  BY PlacedAll
<1>3. m \in Nat /\ m <= n
  BY <1>1
<1>4. {k \in DOMAIN f \ {0} : f[k] # f[k - 1]} = 1 .. m
  <2>1. ASSUME NEW k \in DOMAIN f \ {0}, f[k] # f[k - 1]
        PROVE  k \in 1 .. m
    <3>1. k \in 1 .. n /\ k \notin m + 1 .. n
      BY <1>1, <1>2, <2>1
    <3>2. QED
      BY <1>1, <1>3, <3>1
  <2>2. ASSUME NEW k \in 1 .. m
        PROVE  k \in DOMAIN f \ {0} /\ f[k] # f[k - 1]
    BY <1>1, <1>2, <1>3
  <2>3. QED
    BY <2>1, <2>2
<1>5. ExecutionLevels(deps) = [k \in 1 .. m |-> f[k] \ f[k - 1]]
  BY <1>4 DEF ExecutionLevels
<1>6. QED
  BY <1>2, <1>3, <1>5

\* The levels are numbered without a gap and partition the ACs.
LEMMA LevelsPartition ==
  ASSUME NEW deps, IsFiniteSet(DOMAIN deps)
  PROVE  /\ IsPartition(ExecutionLevels(deps), DOMAIN deps)
         /\ DOMAIN ExecutionLevels(deps) = 1 .. Cardinality(DOMAIN ExecutionLevels(deps))
         /\ Cardinality(DOMAIN ExecutionLevels(deps)) \in Nat
<1> DEFINE acs == DOMAIN deps
           n == Cardinality(acs)
           f == Placed(deps)
           L == ExecutionLevels(deps)
<1>1. /\ n \in Nat /\ f \in [0 .. n -> SUBSET acs] /\ f[0] = {}
  BY PlacedSteps
<1>2. PICK m \in Nat : /\ m <= n
                       /\ f[m] = acs
                       /\ \A k \in 1 .. m : f[k] # f[k - 1]
                       /\ L = [k \in 1 .. m |-> f[k] \ f[k - 1]]
  <2>1. acs = DOMAIN deps /\ n = Cardinality(DOMAIN deps)
        /\ f = Placed(deps) /\ L = ExecutionLevels(deps)
    OBVIOUS
  <2> HIDE DEF acs, n, f, L
  <2>2. QED
    BY <2>1, LevelsPlaced
<1>3. m \in Nat /\ m <= n
  BY <1>2
<1>5. L = [k \in 1 .. m |-> f[k] \ f[k - 1]]
  BY <1>2, Zenon
<1> HIDE DEF f, L, n
<1>6. DOMAIN L = 1 .. m /\ Cardinality(1 .. m) = m
  <2>1. \A i \in Nat : Cardinality(1 .. i) = i
    BY FS_Interval
  <2>2. QED
    BY <1>3, <1>5, <2>1
<1>7. \A k \in 1 .. m : k \in 0 .. n /\ k - 1 \in 0 .. n /\ L[k] = f[k] \ f[k - 1]
  BY <1>1, <1>3, <1>5
<1>8. \A j, k \in 0 .. n : j <= k => f[j] \subseteq f[k]
  BY PlacedGrows DEF f, n
<1>9. L \in Seq(SUBSET acs) /\ Len(L) = m
  <2>1. \A k \in 1 .. m : L[k] \in SUBSET acs
    BY <1>1, <1>7
  <2>2. QED
    BY <1>3, <1>5, <2>1
<1>10. ASSUME NEW k \in 1 .. m
       PROVE  L[k] # {}
  <2>1. f[k - 1] \subseteq f[k] /\ f[k] # f[k - 1]
    BY <1>2, <1>3, <1>7, <1>8
  <2>2. QED
    BY <1>7, <2>1
<1>11. ASSUME NEW a \in acs
       PROVE  \E k \in 1 .. m : a \in L[k]
  <2> DEFINE with == {k \in 0 .. m : a \in f[k]}
  <2>1. PICK k \in with : \A i \in with : k <= i
    <3>1. with \in SUBSET Nat /\ m \in with
      BY <1>2, <1>3
    <3> HIDE DEF with
    <3>2. QED
      BY <3>1, LeastNumber
  <2>2. k # 0
    BY <1>1, <2>1
  <2>3. k \in 1 .. m /\ a \in f[k] /\ k - 1 \in 0 .. m
    BY <1>3, <2>1, <2>2
  <2>4. a \notin f[k - 1]
    BY <1>3, <2>1, <2>3
  <2>5. QED
    BY <1>7, <2>3, <2>4
<1>12. ASSUME NEW j \in 1 .. m, NEW k \in 1 .. m, NEW a \in acs, a \in L[j], a \in L[k]
       PROVE  j = k
  <2>1. ASSUME NEW x \in 1 .. m, NEW y \in 1 .. m, a \in L[x], a \in L[y], x < y
        PROVE  FALSE
    <3>1. x <= y - 1 /\ x \in 0 .. n /\ y - 1 \in 0 .. n
      BY <1>3, <1>7, <2>1
    <3>2. f[x] \subseteq f[y - 1]
      BY <1>8, <3>1
    <3>3. QED
      BY <1>7, <2>1, <3>2
  <2>2. j \in Nat /\ k \in Nat
    BY <1>3
  <2>3. ~ (j < k) /\ ~ (k < j)
    BY <1>12, <2>1
  <2>4. QED
    BY <2>2, <2>3
<1>13. IsPartition(L, acs)
  BY <1>9, <1>10, <1>11, <1>12 DEF IsPartition
<1>14. QED
  BY <1>3, <1>6, <1>13 DEF L

\* One partition after another is a partition of both sets.
LEMMA PartitionsJoin ==
  ASSUME NEW s, NEW t, NEW U, NEW V, IsPartition(s, U), IsPartition(t, V), U \cap V = {}
  PROVE  IsPartition(s \o t, U \cup V)
<1> DEFINE W == U \cup V
           m == Len(s)
           k == Len(t)
           st == s \o t
<1>1. /\ s \in Seq(SUBSET W) /\ t \in Seq(SUBSET W)
  <2>1. s \in Seq(SUBSET U) /\ t \in Seq(SUBSET V)
    BY DEF IsPartition
  <2>2. SUBSET U \subseteq SUBSET W /\ SUBSET V \subseteq SUBSET W
    OBVIOUS
  <2> HIDE DEF W
  <2>3. QED
    BY <2>1, <2>2
<1>2. /\ st \in Seq(SUBSET W) /\ Len(st) = m + k
      /\ m \in Nat /\ k \in Nat
      /\ \A i \in 1 .. m : st[i] = s[i]
      /\ \A i \in 1 .. k : st[m + i] = t[i]
  <2> HIDE DEF W
  <2>1. QED
    BY <1>1
<1>3. ASSUME NEW i \in 1 .. m + k
      PROVE  \/ i \in 1 .. m /\ st[i] = s[i]
             \/ \E j \in 1 .. k : i = m + j /\ st[i] = t[j]
  <2>1. CASE i \in 1 .. m
    BY <1>2, <2>1
  <2>2. CASE i \notin 1 .. m
    <3>1. i - m \in 1 .. k /\ i = m + (i - m)
      BY <1>2, <2>2
    <3>2. QED
      BY <1>2, <3>1
  <2>3. QED
    BY <2>1, <2>2
<1>4. /\ \A i \in 1 .. m : s[i] \subseteq U /\ s[i] # {}
      /\ \A i \in 1 .. k : t[i] \subseteq V /\ t[i] # {}
  BY DEF IsPartition
<1>5. \A i \in 1 .. m + k : st[i] # {}
  BY <1>3, <1>4
<1>6. ASSUME NEW a \in W
      PROVE  \E i \in 1 .. m + k : a \in st[i]
  <2>1. CASE a \in U
    <3>1. PICK i \in 1 .. m : a \in s[i]
      BY <2>1 DEF IsPartition
    <3>2. i \in 1 .. m + k
      BY <1>2
    <3>3. QED
      BY <1>2, <3>1, <3>2
  <2>2. CASE a \in V
    <3>1. PICK i \in 1 .. k : a \in t[i]
      BY <2>2 DEF IsPartition
    <3>2. m + i \in 1 .. m + k
      BY <1>2
    <3>3. QED
      BY <1>2, <3>1, <3>2
  <2>3. QED
    BY <2>1, <2>2
<1>7. ASSUME NEW i \in 1 .. m + k, NEW j \in 1 .. m + k, NEW a \in W, a \in st[i], a \in st[j]
      PROVE  i = j
  <2>1. CASE a \in U
    <3>1. a \notin V
      BY <2>1
    <3>2. i \in 1 .. m /\ j \in 1 .. m /\ a \in s[i] /\ a \in s[j]
      BY <1>3, <1>4, <1>7, <3>1
    <3>3. QED
      BY <2>1, <3>2 DEF IsPartition
  <2>2. CASE a \in V
    <3>1. a \notin U
      BY <2>2
    <3>2. PICK x \in 1 .. k : i = m + x /\ a \in t[x]
      BY <1>3, <1>4, <1>7, <3>1
    <3>3. PICK y \in 1 .. k : j = m + y /\ a \in t[y]
      BY <1>3, <1>4, <1>7, <3>1
    <3>4. x = y
      BY <2>2, <3>2, <3>3 DEF IsPartition
    <3>5. QED
      BY <3>2, <3>3, <3>4
  <2>3. QED
    BY <2>1, <2>2
<1>8. QED
  <2> HIDE DEF W, st
  <2>1. IsPartition(st, W)
    BY <1>2, <1>5, <1>6, <1>7 DEF IsPartition
  <2>2. QED
    BY <2>1 DEF W, st

-----------------------------------------------------------------------------
(* Order                                                                   *)

Rank(S, a) == Cardinality({b \in S : b < a})

\* The numbers of a finite set are told by how many are below them.
LEMMA Ranks ==
  ASSUME NEW S \in SUBSET Nat, IsFiniteSet(S), NEW n, n = Cardinality(S)
  PROVE  /\ n \in Nat
         /\ \A a \in S : Rank(S, a) \in 0 .. n - 1
         /\ \A a, b \in S : a < b => Rank(S, a) < Rank(S, b)
         /\ \A i \in 1 .. n : \E a \in S : Rank(S, a) = i - 1
<1>1. n \in Nat
  BY FS_CardinalityType
<1>2. ASSUME NEW a \in S
      PROVE  /\ IsFiniteSet({b \in S : b < a})
             /\ Rank(S, a) \in Nat
             /\ IsFiniteSet({b \in S : b < a} \cup {a})
             /\ Cardinality({b \in S : b < a} \cup {a}) = Rank(S, a) + 1
  <2>1. {b \in S : b < a} \in SUBSET S /\ a \notin {b \in S : b < a}
    OBVIOUS
  <2>2. IsFiniteSet({b \in S : b < a})
    BY <2>1, FS_Subset
  <2>3. QED
    BY <2>1, <2>2, FS_CardinalityType, FS_AddElement DEF Rank
<1>3. ASSUME NEW a \in S
      PROVE  Rank(S, a) \in 0 .. n - 1
  <2>1. {b \in S : b < a} \cup {a} \in SUBSET S
    OBVIOUS
  <2>2. Cardinality({b \in S : b < a} \cup {a}) <= n
    BY <2>1, FS_Subset
  <2>3. Rank(S, a) + 1 <= n /\ Rank(S, a) \in Nat
    BY <1>2, <2>2, Zenon
  <2>4. QED
    BY <1>1, <2>3
<1>4. ASSUME NEW a \in S, NEW b \in S, a < b
      PROVE  Rank(S, a) < Rank(S, b)
  <2>1. {c \in S : c < a} \cup {a} \in SUBSET {c \in S : c < b}
    <3>1. \A c \in S : c < a => c < b
      BY <1>4
    <3>2. QED
      BY <1>4, <3>1
  <2>2. Cardinality({c \in S : c < a} \cup {a}) <= Cardinality({c \in S : c < b})
    BY <1>2, <2>1, FS_Subset
  <2>3. Rank(S, a) + 1 <= Rank(S, b)
    BY <1>2, <2>2 DEF Rank
  <2>4. Rank(S, a) \in Nat /\ Rank(S, b) \in Nat
    BY <1>2, Zenon
  <2>5. QED
    BY <2>3, <2>4
<1>5. ASSUME NEW i \in 1 .. n
      PROVE  \E a \in S : Rank(S, a) = i - 1
  <2> DEFINE f == [a \in S |-> Rank(S, a)]
  <2>1. f \in [S -> 0 .. n - 1]
    BY <1>3
  <2>2. \A a, b \in S : f[a] = f[b] => a = b
    <3>1. ASSUME NEW a \in S, NEW b \in S, Rank(S, a) = Rank(S, b)
          PROVE  a = b
      <4>1. ~ (a < b) /\ ~ (b < a)
        <5>1. Rank(S, a) \in Nat /\ Rank(S, b) \in Nat
          BY <1>2, Zenon
        <5>2. QED
          BY <1>4, <3>1, <5>1
      <4>2. a \in Nat /\ b \in Nat
        OBVIOUS
      <4>3. QED
        BY <4>1, <4>2
    <3>2. QED
      BY <3>1
  <2>3. IsFiniteSet(0 .. n - 1) /\ Cardinality(0 .. n - 1) = n
    <3>1. \A k \in Nat : IsFiniteSet(0 .. k - 1) /\ Cardinality(0 .. k - 1) = k
      <4>1. ASSUME NEW k \in Nat
            PROVE  IsFiniteSet(0 .. k - 1) /\ Cardinality(0 .. k - 1) = k
        <5>1. 0 \in Int /\ k - 1 \in Int
          OBVIOUS
        <5>2. /\ IsFiniteSet(0 .. k - 1)
              /\ Cardinality(0 .. k - 1) = IF 0 > k - 1 THEN 0 ELSE (k - 1) - 0 + 1
          BY <5>1, FS_Interval
        <5>3. QED
          BY <5>2
      <4>2. QED
        BY <4>1
    <3>2. QED
      BY <1>1, <3>1
  <2>4. f \in Surjection(S, 0 .. n - 1)
    <3>1. f \in Injection(S, 0 .. n - 1)
      <4> HIDE DEF f
      <4>1. QED
        BY <2>1, <2>2 DEF Injection, IsInjective
    <3> HIDE DEF f
    <3>2. QED
      BY <2>3, <3>1, FS_Injection
  <2>5. i - 1 \in 0 .. n - 1
    BY <1>1
  <2>6. \E a \in S : f[a] = i - 1
    <3> HIDE DEF f
    <3>1. QED
      BY <2>4, <2>5 DEF Surjection
  <2>7. QED
    BY <2>6
<1>6. QED
  BY <1>1, <1>3, <1>4, <1>5

\* The stages made from a level partition it.
LEMMA SplitPartition ==
  ASSUME NEW acs \in SUBSET Nat, IsFiniteSet(acs), NEW serial
  PROVE  IsPartition(Split(acs, serial), acs)
<1> DEFINE shared == acs \ serial
           alone == acs \cap serial
           n == Cardinality(alone)
           nth(i) == CHOOSE a \in alone : Cardinality({b \in alone : b < a}) = i - 1
           first == IF shared = {} THEN << >> ELSE <<shared>>
           rest == [i \in 1 .. n |-> {nth(i)}]
<1>1. Split(acs, serial) = first \o rest
  BY DEF Split
<1>2. IsPartition(first, shared)
  <2>1. CASE shared = {}
    <3>1. first = << >> /\ << >> \in Seq(SUBSET shared) /\ Len(<< >>) = 0
      BY <2>1
    <3>2. QED
      BY <2>1, <3>1 DEF IsPartition
  <2>2. CASE shared # {}
    <3>1. ASSUME NEW X, X # {}
          PROVE  IsPartition(<<X>>, X)
      BY <3>1 DEF IsPartition
    <3>2. QED
      BY <2>2, <3>1
  <2>3. QED
    BY <2>1, <2>2
<1>3. alone \in SUBSET Nat /\ IsFiniteSet(alone)
  <2>1. alone \in SUBSET acs
    OBVIOUS
  <2>2. QED
    BY <2>1, FS_Subset
<1>4. /\ n \in Nat
      /\ \A a \in alone : Rank(alone, a) \in 0 .. n - 1
      /\ \A a, b \in alone : a < b => Rank(alone, a) < Rank(alone, b)
      /\ \A i \in 1 .. n : \E a \in alone : Rank(alone, a) = i - 1
  <2> HIDE DEF alone
  <2>1. QED
    BY <1>3, Ranks
<1>5. \A i \in 1 .. n : nth(i) \in alone /\ Rank(alone, nth(i)) = i - 1
  <2> HIDE DEF alone
  <2>1. QED
    BY <1>4 DEF Rank
<1>6. ASSUME NEW a \in alone, NEW b \in alone, Rank(alone, a) = Rank(alone, b)
      PROVE  a = b
  <2>1. a \in Nat /\ b \in Nat /\ Rank(alone, a) \in Int
    BY <1>3, <1>4
  <2>2. ~ (a < b) /\ ~ (b < a)
    BY <1>4, <1>6, <2>1
  <2>3. QED
    BY <2>1, <2>2
<1>7. IsPartition(rest, alone)
  <2> HIDE DEF alone, nth, n
  <2>1. rest \in Seq(SUBSET alone) /\ Len(rest) = n /\ \A i \in 1 .. n : rest[i] = {nth(i)}
    BY <1>4, <1>5
  <2>2. ASSUME NEW a \in alone
        PROVE  \E i \in 1 .. n : a \in rest[i]
    <3>1. Rank(alone, a) + 1 \in 1 .. n /\ Rank(alone, a) = (Rank(alone, a) + 1) - 1
      BY <1>4
    <3>2. PICK i \in 1 .. n : Rank(alone, a) = i - 1
      BY <3>1
    <3>3. a = nth(i)
      BY <1>5, <1>6, <3>2
    <3>4. QED
      BY <2>1, <3>3
  <2>3. ASSUME NEW i \in 1 .. n, NEW j \in 1 .. n, NEW a \in alone, a \in rest[i], a \in rest[j]
        PROVE  i = j
    <3>1. Rank(alone, a) = i - 1 /\ Rank(alone, a) = j - 1
      BY <1>5, <2>1, <2>3
    <3>2. QED
      BY <1>4, <3>1
  <2>4. \A i \in 1 .. n : rest[i] # {}
    BY <2>1
  <2> HIDE DEF rest
  <2>5. QED
    BY <2>1, <2>2, <2>3, <2>4 DEF IsPartition
<1>8. shared \cap alone = {} /\ shared \cup alone = acs
  OBVIOUS
<1>9. QED
  <2> HIDE DEF shared, alone, first, rest
  <2>1. IsPartition(first \o rest, shared \cup alone)
    BY <1>2, <1>7, <1>8, PartitionsJoin
  <2>2. QED
    BY <1>1, <1>8, <2>1

-----------------------------------------------------------------------------
(* The plan                                                                *)

StagesBy(levels, serial, f) ==
  f = [k \in 0 .. Cardinality(DOMAIN levels) |->
         IF k = 0 THEN << >> ELSE f[k - 1] \o Split(levels[k], serial)]

StagesUpTo(levels, serial) == CHOOSE f : StagesBy(levels, serial, f)

StagesGrow(f, levels, serial, n) ==
  /\ f[0] = << >>
  /\ \A k \in 1 .. n : f[k] = f[k - 1] \o Split(levels[k], serial)

LEMMA StagesChosen ==
  ASSUME NEW g, NEW levels, levels = ExecutionLevels(Dependencies(g))
  PROVE  Stages(g) = StagesUpTo(levels, g.serial)[Cardinality(DOMAIN levels)]
BY DEF Stages, StagesBy, StagesUpTo

\* The function Stages defines by recursion over the levels exists.
LEMMA StagesSteps ==
  ASSUME NEW acs \in SUBSET Nat, IsFiniteSet(acs),
         NEW levels, IsPartition(levels, acs), NEW n \in Nat, DOMAIN levels = 1 .. n,
         NEW serial,
         NEW f, f = StagesUpTo(levels, serial)
  PROVE  StagesGrow(f, levels, serial, n)
<1> DEFINE S == Seq(SUBSET acs)
           next == [k \in 1 .. n |-> [v \in S |-> v \o Split(levels[k], serial)]]
           base == << >>
<1>0. levels \in [1 .. n -> SUBSET acs]
  <2>1. ASSUME NEW A, NEW q \in Seq(A), DOMAIN q = 1 .. n
        PROVE  q \in [1 .. n -> A]
    BY <2>1
  <2>2. QED
    BY <2>1 DEF IsPartition
<1>1. Cardinality(DOMAIN levels) = n
  <2>1. \A i \in Nat : Cardinality(1 .. i) = i
    BY FS_Interval
  <2>2. DOMAIN levels = 1 .. n
    OBVIOUS
  <2>3. QED
    BY <2>1, <2>2
<1>2. ASSUME NEW k \in 1 .. n
      PROVE  Split(levels[k], serial) \in S
  <2>1. levels[k] \in SUBSET Nat /\ levels[k] \in SUBSET acs
    BY <1>0
  <2>2. IsFiniteSet(levels[k])
    BY <2>1, FS_Subset
  <2>3. Split(levels[k], serial) \in Seq(SUBSET levels[k])
    BY <2>1, <2>2, SplitPartition DEF IsPartition
  <2>4. SUBSET levels[k] \subseteq SUBSET acs
    BY <2>1
  <2>5. ASSUME NEW A, NEW B, A \subseteq B, NEW q \in Seq(A)
        PROVE  q \in Seq(B)
    BY <2>5
  <2>6. QED
    BY <2>3, <2>4, <2>5
<1>3. ASSUME NEW k \in 1 .. n, NEW v \in S
      PROVE  v \o Split(levels[k], serial) \in S
  <2>1. ASSUME NEW A, NEW p \in Seq(A), NEW q \in Seq(A)
        PROVE  p \o q \in Seq(A)
    OBVIOUS
  <2>2. QED
    BY <1>2, <2>1
<1>4. /\ base \in S
      /\ next \in [1 .. n -> [S -> S]]
      /\ \A k \in 1 .. n : \A v \in S : next[k][v] = v \o Split(levels[k], serial)
  <2>1. base \in S
    OBVIOUS
  <2> HIDE DEF S
  <2>2. QED
    BY <1>3, <2>1
<1>5. PICK g : Recursive(n, S, base, next, g)
  <2> HIDE DEF S, next, base
  <2>1. QED
    BY <1>4, Recursion, Zenon
<1>6. StagesBy(levels, serial, g)
  <2>1. ASSUME NEW k \in 0 .. n
        PROVE  g[k] = IF k = 0 THEN << >> ELSE g[k - 1] \o Split(levels[k], serial)
    <3>1. CASE k = 0
      BY <1>5, <3>1 DEF Recursive
    <3>2. CASE k # 0
      <4>1. k \in 1 .. n /\ k - 1 \in 0 .. n
        BY <3>2
      <4> HIDE DEF S, next
      <4>2. g[k - 1] \in S /\ g[k] = next[k][g[k - 1]]
        BY <1>5, <4>1 DEF Recursive
      <4>3. QED
        BY <1>4, <3>2, <4>1, <4>2
    <3>3. QED
      BY <3>1, <3>2
  <2>2. g = [k \in 0 .. n |-> g[k]]
    <3> HIDE DEF S, next, base
    <3>1. QED
      BY <1>5 DEF Recursive
  <2>3. g = [k \in 0 .. n |->
               IF k = 0 THEN << >> ELSE g[k - 1] \o Split(levels[k], serial)]
    BY <2>1, <2>2, Zenon
  <2>4. QED
    BY <1>1, <2>3 DEF StagesBy
<1>7. StagesBy(levels, serial, f)
  BY <1>6, Zenon DEF StagesUpTo
<1>8. \A k \in 0 .. n : f[k] = IF k = 0 THEN << >> ELSE f[k - 1] \o Split(levels[k], serial)
  BY <1>1, <1>7, Zenon DEF StagesBy
<1>9. 0 \in 0 .. n /\ \A k \in 1 .. n : k \in 0 .. n /\ k # 0
  OBVIOUS
<1>10. QED
  BY <1>8, <1>9, Zenon DEF StagesGrow

\* What the claims add to the dependencies are claimants.
LEMMA DependenciesAreAcs ==
  ASSUME NEW g, DOMAIN g.claims \subseteq DOMAIN g.deps,
         \A a \in DOMAIN g.deps : g.deps[a] \subseteq DOMAIN g.deps
  PROVE  /\ DOMAIN Dependencies(g) = DOMAIN g.deps
         /\ \A a \in DOMAIN g.deps : Dependencies(g)[a] \subseteq DOMAIN g.deps
<1>1. ASSUME NEW r, NEW a
      PROVE  Predecessors(g, r, a) \subseteq DOMAIN g.deps
  <2>1. \A c \in ClaimsOn(g, r) : c[1] \in DOMAIN g.deps
    BY DEF ClaimsOn
  <2>2. QED
    BY <2>1 DEF Predecessors
<1>2. QED
  BY <1>1 DEF Dependencies

\* The stages of the first levels partition what these levels hold.
LEMMA StagesOfLevels ==
  ASSUME NEW g, DOMAIN g.deps \in SUBSET Nat, IsFiniteSet(DOMAIN g.deps),
         NEW L, L = ExecutionLevels(Dependencies(g))
  PROVE  /\ IsPartition(L, DOMAIN g.deps)
         /\ \E f : /\ StagesGrow(f, L, g.serial, Len(L))
                  /\ \A k \in 0 .. Len(L) : IsPartition(f[k], Behind(L, k))
                  /\ Stages(g) = f[Len(L)]
<1> DEFINE acs == DOMAIN g.deps
           n == Cardinality(DOMAIN L)
           f == StagesUpTo(L, g.serial)
           under(k) == Behind(L, k)
<1>1. DOMAIN Dependencies(g) = acs
  BY DEF Dependencies
<1>2. IsPartition(L, acs) /\ DOMAIN L = 1 .. n /\ n \in Nat
  BY <1>1, LevelsPartition
<1>3. Stages(g) = f[n]
  BY StagesChosen
<1> HIDE DEF n
<1>4. L \in [1 .. n -> SUBSET acs] /\ Len(L) = n
  <2>1. ASSUME NEW A, NEW q \in Seq(A), DOMAIN q = 1 .. n
        PROVE  q \in [1 .. n -> A] /\ Len(q) = n
    BY <1>2, <2>1
  <2>2. QED
    BY <1>2, <2>1 DEF IsPartition
<1>5. f[0] = << >> /\ \A k \in 1 .. n : f[k] = f[k - 1] \o Split(L[k], g.serial)
  <2>1. f = StagesUpTo(L, g.serial)
    OBVIOUS
  <2>2. acs \in SUBSET Nat /\ IsFiniteSet(acs)
    OBVIOUS
  <2> HIDE DEF f, acs
  <2>3. StagesGrow(f, L, g.serial, n)
    BY <1>2, <2>1, <2>2, StagesSteps, Zenon
  <2>4. QED
    BY <2>3 DEF StagesGrow
<1> HIDE DEF f
<1> DEFINE P == {k \in 0 .. n : IsPartition(f[k], under(k))}
<1>6. 0 \in P
  <2>1. under(0) = {}
    BY DEF Behind
  <2>2. IsPartition(<< >>, {})
    BY DEF IsPartition
  <2> HIDE DEF under
  <2>3. IsPartition(f[0], under(0))
    BY <1>5, <2>1, <2>2, Zenon
  <2>4. QED
    BY <1>2, <2>3
<1>7. ASSUME NEW k \in 1 .. n, k - 1 \in P
      PROVE  k \in P
  <2>1. L[k] \in SUBSET acs
    BY <1>4
  <2>2. L[k] \in SUBSET Nat /\ IsFiniteSet(L[k])
    BY <2>1, FS_Subset
  <2>3. IsPartition(Split(L[k], g.serial), L[k])
    BY <2>2, SplitPartition
  <2>4. under(k - 1) \cap L[k] = {}
    <3>1. ASSUME NEW i \in 1 .. k - 1, NEW a \in L[i], a \in L[k]
          PROVE  FALSE
      <4>1. i \in 1 .. n /\ i # k
        BY <1>2
      <4>2. a \in acs
        BY <2>1, <3>1
      <4>3. QED
        BY <1>2, <1>4, <3>1, <4>1, <4>2 DEF IsPartition
    <3>2. QED
      BY <3>1 DEF Behind
  <2>5. under(k - 1) \cup L[k] = under(k)
    <3>1. \A i : i \in 1 .. k <=> i \in 1 .. k - 1 \/ i = k
      BY <1>2
    <3>2. QED
      BY <3>1 DEF Behind
  <2>6. IsPartition(f[k - 1], under(k - 1))
    BY <1>7
  <2>7. f[k] = f[k - 1] \o Split(L[k], g.serial)
    BY <1>5
  <2> HIDE DEF under
  <2>8. IsPartition(f[k - 1] \o Split(L[k], g.serial), under(k - 1) \cup L[k])
    BY <2>3, <2>4, <2>6, PartitionsJoin
  <2>9. IsPartition(f[k], under(k))
    BY <2>5, <2>7, <2>8, Zenon
  <2>10. QED
    BY <1>2, <2>9
<1>8. 0 .. n \subseteq P
  <2> HIDE DEF P
  <2>1. QED
    BY <1>2, <1>6, <1>7, InductionTo
<1>9. \A k \in 0 .. n : IsPartition(f[k], Behind(L, k))
  BY <1>8
<1>10. StagesGrow(f, L, g.serial, n)
  BY <1>5, Zenon DEF StagesGrow
<1> HIDE DEF acs
<1>11. QED
  BY <1>2, <1>3, <1>4, <1>9, <1>10, Zenon DEF acs

\* Each stage of a partition adds to the ones before it and repeats nothing.
LEMMA BehindGrows ==
  ASSUME NEW stages, NEW U, IsPartition(stages, U)
  PROVE  /\ Len(stages) \in Nat
         /\ \A k \in 0 .. Len(stages) : Behind(stages, k) \subseteq U
         /\ \A k \in 1 .. Len(stages) :
              /\ stages[k] \subseteq U
              /\ Behind(stages, k) = Behind(stages, k - 1) \cup stages[k]
              /\ Behind(stages, k - 1) \cap stages[k] = {}
         /\ Behind(stages, 0) = {} /\ Behind(stages, -1) = {}
         /\ Behind(stages, Len(stages)) = U
         /\ \A j, k \in 0 .. Len(stages) : j <= k => Behind(stages, j) \subseteq Behind(stages, k)
<1> DEFINE n == Len(stages)
<1>1. /\ n \in Nat
      /\ \A k \in 1 .. n : stages[k] \subseteq U
      /\ \A a \in U : \E i \in 1 .. n : a \in stages[i]
      /\ \A i, j \in 1 .. n : \A a \in U : a \in stages[i] /\ a \in stages[j] => i = j
  BY DEF IsPartition
<1> HIDE DEF n
<1>2. \A k \in 0 .. n : Behind(stages, k) \subseteq U
  <2>1. \A k \in 0 .. n : \A i \in 1 .. k : i \in 1 .. n
    BY <1>1
  <2>2. QED
    BY <1>1, <2>1 DEF Behind
<1>3. ASSUME NEW k \in 1 .. n
      PROVE  /\ Behind(stages, k) = Behind(stages, k - 1) \cup stages[k]
             /\ Behind(stages, k - 1) \cap stages[k] = {}
  <2>1. \A i : i \in 1 .. k <=> i \in 1 .. k - 1 \/ i = k
    BY <1>1
  <2>2. Behind(stages, k) = Behind(stages, k - 1) \cup stages[k]
    BY <2>1 DEF Behind
  <2>3. ASSUME NEW i \in 1 .. k - 1, NEW a \in stages[i], a \in stages[k]
        PROVE  FALSE
    <3>1. i \in 1 .. n /\ i # k
      BY <1>1
    <3>2. QED
      BY <1>1, <2>3, <3>1
  <2>4. QED
    BY <2>2, <2>3 DEF Behind
<1>4. Behind(stages, 0) = {} /\ Behind(stages, -1) = {}
  BY DEF Behind
<1>5. Behind(stages, n) = U
  BY <1>1 DEF Behind
<1>6. ASSUME NEW j \in 0 .. n, NEW k \in 0 .. n, j <= k
      PROVE  Behind(stages, j) \subseteq Behind(stages, k)
  <2>1. \A i \in 1 .. j : i \in 1 .. k
    BY <1>1, <1>6
  <2>2. QED
    BY <2>1 DEF Behind
<1>7. QED
  BY <1>1, <1>2, <1>3, <1>4, <1>5, <1>6 DEF n

\* The plan has each AC in exactly one stage, and no stage without one: for
\* every set of criteria, dependencies, claims and serial ACs.
THEOREM PlanIsPartition ==
  ASSUME NEW g, DOMAIN g.deps \in SUBSET Nat, IsFiniteSet(DOMAIN g.deps)
  PROVE  IsPartition(Stages(g), DOMAIN g.deps)
<1> DEFINE L == ExecutionLevels(Dependencies(g))
<1>1. IsPartition(L, DOMAIN g.deps)
  BY StagesOfLevels
<1>2. PICK f : /\ \A k \in 0 .. Len(L) : IsPartition(f[k], Behind(L, k))
               /\ Stages(g) = f[Len(L)]
  BY StagesOfLevels
<1> HIDE DEF L
<1>3. Len(L) \in Nat /\ Behind(L, Len(L)) = DOMAIN g.deps
  BY <1>1, BehindGrows
<1>4. QED
  BY <1>2, <1>3

\* There are no more stages than members.
LEMMA FewStages ==
  ASSUME NEW stages, NEW U, IsPartition(stages, U), IsFiniteSet(U)
  PROVE  Len(stages) <= Cardinality(U)
<1> DEFINE n == Len(stages)
           f == [i \in 1 .. n |-> CHOOSE a \in stages[i] : TRUE]
<1>1. /\ n \in Nat
      /\ \A k \in 1 .. n : stages[k] \subseteq U /\ stages[k] # {}
      /\ \A i, j \in 1 .. n : \A a \in U : a \in stages[i] /\ a \in stages[j] => i = j
  BY DEF IsPartition
<1> HIDE DEF n
<1>2. \A i \in 1 .. n : f[i] \in stages[i] /\ f[i] \in U
  BY <1>1
<1>3. f \in Injection(1 .. n, U)
  <2>1. f \in [1 .. n -> U]
    BY <1>2
  <2>2. \A i, j \in 1 .. n : f[i] = f[j] => i = j
    BY <1>1, <1>2
  <2> HIDE DEF f
  <2>3. QED
    BY <2>1, <2>2 DEF Injection, IsInjective
<1>4. Cardinality(1 .. n) <= Cardinality(U)
  <2> HIDE DEF f
  <2>1. QED
    BY <1>3, FS_Injection
<1>5. Cardinality(1 .. n) = n
  <2>1. \A i \in Nat : Cardinality(1 .. i) = i
    BY FS_Interval
  <2>2. QED
    BY <1>1, <2>1
<1>6. QED
  BY <1>4, <1>5 DEF n

\* In a plan that create_plan accepts an AC comes after all it depends on,
\* and one that asks for a stage of its own has it.
THEOREM PlanIsOrdered ==
  ASSUME NEW g, DOMAIN g.deps \in SUBSET Nat, IsFiniteSet(DOMAIN g.deps),
         DOMAIN g.claims \subseteq DOMAIN g.deps,
         \A a \in DOMAIN g.deps : g.deps[a] \subseteq DOMAIN g.deps,
         Plannable(g),
         NEW stages, stages = Stages(g), NEW k \in 1 .. Len(stages), NEW a \in stages[k]
  PROVE  /\ Dependencies(g)[a] \subseteq Behind(stages, k - 1)
         /\ a \in g.serial => Cardinality(stages[k]) = 1
<1> DEFINE acs == DOMAIN g.deps
<1>1. IsPartition(stages, acs)
  BY PlanIsPartition
<1>2. /\ Len(stages) \in Nat /\ DOMAIN stages = 1 .. Len(stages)
      /\ \A i \in 1 .. Len(stages) : stages[i] \subseteq acs
      /\ \A b \in acs : \E i \in 1 .. Len(stages) : b \in stages[i]
      /\ \A i, j \in 1 .. Len(stages) : \A b \in acs : b \in stages[i] /\ b \in stages[j] => i = j
  BY <1>1 DEF IsPartition
<1> DEFINE n == Len(stages)
<1> HIDE DEF acs, n
<1>3. ASSUME NEW b \in acs, NEW i \in 1 .. n, b \in stages[i]
      PROVE  StageOf(stages, b) = i
  <2>1. \A j \in 1 .. n : b \in stages[j] => j = i
    BY <1>2, <1>3 DEF n
  <2>2. QED
    BY <1>2, <1>3, <2>1 DEF StageOf, n
<1>4. a \in acs /\ StageOf(stages, a) = k
  BY <1>2, <1>3 DEF n
<1>5. DOMAIN Dependencies(g) = acs /\ Dependencies(g)[a] \subseteq acs
  BY <1>4, DependenciesAreAcs DEF acs
<1>6. /\ a \in g.serial => Cardinality(stages[k]) = 1
      /\ \A d \in Dependencies(g)[a] : StageOf(stages, d) < k
  BY <1>4, <1>5 DEF Plannable
<1>7. ASSUME NEW d \in Dependencies(g)[a]
      PROVE  d \in Behind(stages, k - 1)
  <2>1. PICK i \in 1 .. n : d \in stages[i]
    BY <1>2, <1>5 DEF n
  <2>2. i < k
    BY <1>3, <1>5, <1>6, <2>1
  <2>3. i \in 1 .. k - 1
    BY <1>2, <2>2 DEF n
  <2>4. QED
    BY <2>1, <2>3 DEF Behind
<1>8. QED
  BY <1>6, <1>7

-----------------------------------------------------------------------------
(* Which graphs have a plan                                                *)

\* Each AC can be given a number above those of all it depends on: the
\* dependencies have no cycle.
Acyclic(deps) ==
  \E before \in [DOMAIN deps -> Nat] :
    \A a \in DOMAIN deps : \A d \in deps[a] : before[d] < before[a]

\* The walk is never stuck in a graph without a cycle: what it places next
\* depends only on what is placed.
LEMMA ReadyFollow ==
  ASSUME NEW deps, \A a \in DOMAIN deps : deps[a] \subseteq DOMAIN deps, Acyclic(deps),
         NEW placed, NEW a \in Ready(deps, placed)
  PROVE  deps[a] \subseteq placed
<1> DEFINE remaining == DOMAIN deps \ placed
           free == {b \in remaining : deps[b] \subseteq placed}
<1>1. PICK before \in [DOMAIN deps -> Nat] :
        \A b \in DOMAIN deps : \A d \in deps[b] : before[d] < before[b]
  BY DEF Acyclic
<1>2. a \in remaining
  BY ReadyRemain
<1>3. free # {}
  <2> DEFINE numbers == {before[b] : b \in remaining}
  <2>1. numbers \in SUBSET Nat /\ numbers # {}
    BY <1>1, <1>2
  <2>2. PICK x \in numbers : \A y \in numbers : x <= y
    <3> HIDE DEF numbers
    <3>1. QED
      BY <2>1, LeastNumber
  <2>3. PICK b \in remaining : x = before[b]
    OBVIOUS
  <2>4. ASSUME NEW d \in deps[b]
        PROVE  d \in placed
    <3>1. d \in DOMAIN deps /\ before[d] < before[b] /\ before[d] \in Nat /\ before[b] \in Nat
      BY <1>1, <2>3
    <3>2. d \in remaining => before[b] <= before[d]
      BY <2>2, <2>3
    <3>3. QED
      BY <3>1, <3>2
  <2>5. QED
    BY <2>3, <2>4
<1>4. QED
  BY <1>3 DEF Ready

\* So each level depends only on the levels before it.
LEMMA LevelsFollow ==
  ASSUME NEW deps, IsFiniteSet(DOMAIN deps),
         \A a \in DOMAIN deps : deps[a] \subseteq DOMAIN deps, Acyclic(deps),
         NEW L, L = ExecutionLevels(deps), NEW k \in 1 .. Len(L), NEW a \in L[k]
  PROVE  deps[a] \subseteq Behind(L, k - 1)
<1> DEFINE n == Cardinality(DOMAIN deps)
           f == Placed(deps)
<1>1. /\ n \in Nat /\ f \in [0 .. n -> SUBSET DOMAIN deps] /\ f[0] = {}
      /\ \A i \in 1 .. n : f[i] = f[i - 1] \cup Ready(deps, f[i - 1])
  BY PlacedSteps
<1>2. PICK m \in Nat : m <= n /\ L = [i \in 1 .. m |-> f[i] \ f[i - 1]]
  <2>1. n = Cardinality(DOMAIN deps) /\ f = Placed(deps)
    OBVIOUS
  <2> HIDE DEF n, f
  <2>2. PICK m \in Nat : /\ m <= n
                         /\ f[m] = DOMAIN deps
                         /\ \A i \in 1 .. m : f[i] # f[i - 1]
                         /\ ExecutionLevels(deps) = [i \in 1 .. m |-> f[i] \ f[i - 1]]
    BY <2>1, LevelsPlaced
  <2>3. QED
    BY <2>2, Zenon
<1> HIDE DEF n, f
<1>3. Len(L) = m
  <2>1. L \in [1 .. m -> {f[i] \ f[i - 1] : i \in 1 .. m}]
    BY <1>2
  <2>2. ASSUME NEW S, L \in [1 .. m -> S]
        PROVE  Len(L) = m
    BY <2>2
  <2>3. QED
    BY <2>1, <2>2
<1>4. \A i \in 1 .. m : /\ i \in 1 .. n /\ i - 1 \in 0 .. n
                        /\ L[i] = f[i] \ f[i - 1]
                        /\ f[i] = f[i - 1] \cup Ready(deps, f[i - 1])
  BY <1>1, <1>2
<1> DEFINE P == {i \in 0 .. m : f[i] = Behind(L, i)}
<1>5. 0 \in P
  <2>1. Behind(L, 0) = {}
    BY DEF Behind
  <2>2. f[0] = Behind(L, 0) /\ 0 \in 0 .. m
    <3>1. 0 \in 0 .. m
      OBVIOUS
    <3>2. QED
      BY <1>1, <2>1, <3>1, Zenon
  <2>3. QED
    BY <2>2
<1>6. ASSUME NEW i \in 1 .. m, i - 1 \in P
      PROVE  i \in P
  <2>1. \A j : j \in 1 .. i <=> j \in 1 .. i - 1 \/ j = i
    OBVIOUS
  <2>2. Behind(L, i) = Behind(L, i - 1) \cup L[i]
    BY <2>1 DEF Behind
  <2>3. f[i] = f[i - 1] \cup L[i]
    BY <1>4
  <2>4. f[i - 1] = Behind(L, i - 1) /\ i \in 0 .. m
    BY <1>6
  <2>5. f[i] = Behind(L, i)
    BY <2>2, <2>3, <2>4, Zenon
  <2>6. QED
    BY <2>4, <2>5
<1>7. 0 .. m \subseteq P
  <2> HIDE DEF P
  <2>1. QED
    BY <1>5, <1>6, InductionTo
<1>8. f[k - 1] = Behind(L, k - 1)
  BY <1>3, <1>7
<1>9. a \in Ready(deps, f[k - 1])
  BY <1>3, <1>4
<1>10. QED
  BY <1>8, <1>9, ReadyFollow

\* What the sequence's sets depend on is before them, and a serial AC is
\* alone in its set.
Ordered(s, deps, serial) ==
  \A i \in 1 .. Len(s) : \A a \in s[i] :
    /\ deps[a] \subseteq Behind(s, i - 1)
    /\ a \in serial => s[i] = {a}

\* A serial AC is alone in its stage of a level.
LEMMA SplitAlone ==
  ASSUME NEW level, NEW serial, Cardinality(level \cap serial) \in Nat,
         NEW i \in 1 .. Len(Split(level, serial)),
         NEW a \in Split(level, serial)[i], a \in serial
  PROVE  Split(level, serial)[i] = {a}
<1> DEFINE shared == level \ serial
           alone == level \cap serial
           n == Cardinality(alone)
           nth(j) == CHOOSE b \in alone : Cardinality({c \in alone : c < b}) = j - 1
           first == IF shared = {} THEN << >> ELSE <<shared>>
           rest == [j \in 1 .. n |-> {nth(j)}]
<1>1. Split(level, serial) = first \o rest
  BY DEF Split
<1>2. /\ first \in Seq({shared}) /\ Len(first) \in Nat
      /\ \A j \in 1 .. Len(first) : first[j] = shared
  <2> HIDE DEF shared
  <2>1. CASE shared = {}
    <3>1. << >> \in Seq({shared}) /\ Len(<< >>) = 0
      OBVIOUS
    <3>2. QED
      BY <2>1, <3>1
  <2>2. CASE shared # {}
    <3>1. <<shared>> \in Seq({shared}) /\ Len(<<shared>>) = 1 /\ <<shared>>[1] = shared
      OBVIOUS
    <3>2. first = <<shared>>
      BY <2>2
    <3>3. \A j \in 1 .. 1 : j = 1
      OBVIOUS
    <3> HIDE DEF first
    <3>4. Len(first) = 1 /\ first[1] = shared /\ first \in Seq({shared})
      BY <3>1, <3>2, Zenon
    <3>5. QED
      BY <3>3, <3>4
  <2>3. QED
    BY <2>1, <2>2
<1> HIDE DEF shared, nth, first
<1>3. /\ rest \in Seq({{nth(j)} : j \in 1 .. n}) /\ Len(rest) = n
      /\ \A j \in 1 .. n : rest[j] = {nth(j)}
  <2>1. rest \in [1 .. n -> {{nth(j)} : j \in 1 .. n}]
    OBVIOUS
  <2> HIDE DEF n, rest
  <2>2. ASSUME NEW S, rest \in [1 .. n -> S]
        PROVE  rest \in Seq(S) /\ Len(rest) = n
    <3>1. n \in Nat
      BY DEF n
    <3>2. QED
      BY <2>2, <3>1
  <2>3. \A j \in 1 .. n : rest[j] = {nth(j)}
    BY DEF rest
  <2>4. QED
    BY <2>1, <2>2, <2>3
<1> HIDE DEF rest, n
<1> DEFINE both == {shared} \cup {{nth(j)} : j \in 1 .. n}
<1>4. first \in Seq(both) /\ rest \in Seq(both)
  <2>1. ASSUME NEW A, NEW B, A \subseteq B, NEW q \in Seq(A)
        PROVE  q \in Seq(B)
    BY <2>1
  <2>2. QED
    BY <1>2, <1>3, <2>1
<1>5. \/ i \in 1 .. Len(first) /\ (first \o rest)[i] = first[i]
      \/ i - Len(first) \in 1 .. n /\ (first \o rest)[i] = rest[i - Len(first)]
  <2> HIDE DEF both
  <2>1. ASSUME NEW A, NEW p \in Seq(A), NEW q \in Seq(A), NEW j \in 1 .. Len(p \o q)
        PROVE  \/ j \in 1 .. Len(p) /\ (p \o q)[j] = p[j]
               \/ j - Len(p) \in 1 .. Len(q) /\ (p \o q)[j] = q[j - Len(p)]
    OBVIOUS
  <2>2. i \in 1 .. Len(first \o rest)
    BY <1>1
  <2>3. QED
    BY <1>3, <1>4, <2>1, <2>2
<1>6. a \notin shared
  BY DEF shared
<1>7. QED
  BY <1>1, <1>2, <1>3, <1>5, <1>6

\* A sequence in order, followed by sets that depend only on what it holds,
\* is in order.
LEMMA OrderJoins ==
  ASSUME NEW s, NEW t, NEW U, NEW V, IsPartition(s, U), IsPartition(t, V), U \cap V = {},
         NEW deps, NEW serial, Ordered(s, deps, serial),
         \A a \in V : deps[a] \subseteq U,
         \A i \in 1 .. Len(t) : \A a \in t[i] : a \in serial => t[i] = {a}
  PROVE  Ordered(s \o t, deps, serial)
<1> DEFINE st == s \o t
           m == Len(s)
           k == Len(t)
<1>1. IsPartition(st, U \cup V)
  BY PartitionsJoin
<1>2. s \in Seq(SUBSET (U \cup V)) /\ t \in Seq(SUBSET (U \cup V))
  <2>1. ASSUME NEW A, NEW B, A \subseteq B, NEW q \in Seq(SUBSET A)
        PROVE  q \in Seq(SUBSET B)
    BY <2>1
  <2>2. QED
    BY <2>1 DEF IsPartition
<1>3. /\ m \in Nat /\ k \in Nat /\ Len(st) = m + k
      /\ \A i \in 1 .. m : st[i] = s[i]
      /\ \A i \in 1 .. k : st[m + i] = t[i]
  <2>1. ASSUME NEW A, s \in Seq(A), t \in Seq(A)
        PROVE  /\ m \in Nat /\ k \in Nat /\ Len(st) = m + k
               /\ \A i \in 1 .. m : st[i] = s[i]
               /\ \A i \in 1 .. k : st[m + i] = t[i]
    BY <2>1
  <2>2. QED
    BY <1>2, <2>1
<1> HIDE DEF st, m, k
<1>4. \A i \in 0 .. m : Behind(st, i) = Behind(s, i)
  <2>1. \A i \in 0 .. m : \A j \in 1 .. i : st[j] = s[j]
    BY <1>3
  <2>2. QED
    BY <2>1 DEF Behind
<1>5. Behind(s, m) = U
  BY BehindGrows DEF m
<1>6. \A i \in m .. m + k : U \subseteq Behind(st, i)
  <2>1. \A i \in m .. m + k : \A j \in 1 .. m : j \in 1 .. i
    BY <1>3
  <2>2. \A i \in m .. m + k : Behind(st, m) \subseteq Behind(st, i)
    BY <2>1 DEF Behind
  <2>3. m \in 0 .. m
    BY <1>3
  <2>4. QED
    BY <1>4, <1>5, <2>2, <2>3
<1>7. ASSUME NEW i \in 1 .. m + k, NEW a \in st[i]
      PROVE  deps[a] \subseteq Behind(st, i - 1) /\ (a \in serial => st[i] = {a})
  <2>1. CASE i \in 1 .. m
    <3>1. st[i] = s[i] /\ i - 1 \in 0 .. m
      BY <1>3, <2>1
    <3>2. deps[a] \subseteq Behind(s, i - 1) /\ (a \in serial => s[i] = {a})
      BY <1>7, <2>1, <3>1 DEF Ordered, m
    <3>3. QED
      BY <1>4, <3>1, <3>2
  <2>2. CASE i \notin 1 .. m
    <3>1. PICK j \in 1 .. k : i = m + j
      <4>1. i - m \in 1 .. k /\ i = m + (i - m)
        BY <1>3, <2>2
      <4>2. QED
        BY <4>1
    <3>2. st[i] = t[j] /\ i - 1 \in m .. m + k
      BY <1>3, <3>1
    <3>3. a \in V
      BY <1>7, <3>2 DEF IsPartition, k
    <3>4. QED
      BY <1>6, <1>7, <3>2, <3>3 DEF k
  <2>3. QED
    BY <2>1, <2>2
<1>8. QED
  BY <1>3, <1>7 DEF Ordered, st

\* create_plan refuses exactly the graphs with a cycle: a list of criteria
\* has a plan whatever asks for a stage of its own, if and only if what its
\* ACs depend on, claims included, can be numbered upwards.
THEOREM PlannableIffAcyclic ==
  ASSUME NEW g, DOMAIN g.deps \in SUBSET Nat, IsFiniteSet(DOMAIN g.deps),
         DOMAIN g.claims \subseteq DOMAIN g.deps,
         \A a \in DOMAIN g.deps : g.deps[a] \subseteq DOMAIN g.deps
  PROVE  Plannable(g) <=> Acyclic(Dependencies(g))
<1> DEFINE acs == DOMAIN g.deps
           deps == Dependencies(g)
           stages == Stages(g)
           n == Len(stages)
<1>1. DOMAIN deps = acs /\ \A a \in acs : deps[a] \subseteq acs
  BY DependenciesAreAcs
<1>2. IsPartition(stages, acs)
  BY PlanIsPartition
<1>3. /\ n \in Nat /\ DOMAIN stages = 1 .. n
      /\ \A i \in 1 .. n : stages[i] \subseteq acs
      /\ \A b \in acs : \E i \in 1 .. n : b \in stages[i]
      /\ \A i, j \in 1 .. n : \A b \in acs : b \in stages[i] /\ b \in stages[j] => i = j
  BY <1>2 DEF IsPartition
<1>4. acs \in SUBSET Nat /\ IsFiniteSet(acs)
  OBVIOUS
<1> HIDE DEF acs, deps, stages, n
<1>5. \A b \in acs : \A i \in 1 .. n : b \in stages[i] => StageOf(stages, b) = i
  <2>1. ASSUME NEW b \in acs, NEW i \in 1 .. n, b \in stages[i]
        PROVE  StageOf(stages, b) = i
    <3>1. \A j \in 1 .. n : b \in stages[j] => j = i
      BY <1>3, <2>1
    <3>2. QED
      BY <1>3, <2>1, <3>1 DEF StageOf
  <2>2. QED
    BY <2>1
<1>6. \A b \in acs : StageOf(stages, b) \in 1 .. n /\ b \in stages[StageOf(stages, b)]
  BY <1>3, <1>5
<1>7. ASSUME Plannable(g)
      PROVE  Acyclic(deps)
  <2> DEFINE before == [a \in acs |-> StageOf(stages, a)]
  <2>1. before \in [acs -> Nat]
    BY <1>3, <1>6
  <2>2. \A a \in acs : \A d \in deps[a] : before[d] < before[a]
    BY <1>1, <1>7 DEF Plannable, stages, deps
  <2>3. QED
    BY <1>1, <2>1, <2>2 DEF Acyclic
<1>8. ASSUME Acyclic(deps)
      PROVE  Plannable(g)
  <2> DEFINE L == ExecutionLevels(deps)
  <2>1. /\ IsPartition(L, acs)
        /\ \E f : /\ StagesGrow(f, L, g.serial, Len(L))
                  /\ \A k \in 0 .. Len(L) : IsPartition(f[k], Behind(L, k))
                  /\ stages = f[Len(L)]
    BY StagesOfLevels DEF acs, deps, stages
  <2>2. \A k \in 1 .. Len(L) : \A a \in L[k] : deps[a] \subseteq Behind(L, k - 1)
    BY <1>1, <1>4, <1>8, LevelsFollow
  <2> HIDE DEF L
  <2>3. PICK f : /\ StagesGrow(f, L, g.serial, Len(L))
                 /\ \A k \in 0 .. Len(L) : IsPartition(f[k], Behind(L, k))
                 /\ stages = f[Len(L)]
    BY <2>1
  <2>4. /\ Len(L) \in Nat
        /\ \A k \in 1 .. Len(L) : /\ L[k] \subseteq acs
                                  /\ Behind(L, k - 1) \cap L[k] = {}
    BY <2>1, BehindGrows
  <2>5. f[0] = << >> /\ \A k \in 1 .. Len(L) : f[k] = f[k - 1] \o Split(L[k], g.serial)
    BY <2>3 DEF StagesGrow
  <2> DEFINE P == {k \in 0 .. Len(L) : Ordered(f[k], deps, g.serial)}
  <2>6. 0 \in P
    <3>1. Ordered(<< >>, deps, g.serial)
      BY DEF Ordered
    <3>2. QED
      BY <2>4, <2>5, <3>1
  <2>7. ASSUME NEW k \in 1 .. Len(L), k - 1 \in P
        PROVE  k \in P
    <3>1. L[k] \in SUBSET Nat /\ IsFiniteSet(L[k])
      BY <1>4, <2>4, FS_Subset
    <3>2. IsPartition(Split(L[k], g.serial), L[k])
      BY <3>1, SplitPartition
    <3>3. k - 1 \in 0 .. Len(L) /\ IsPartition(f[k - 1], Behind(L, k - 1))
      BY <2>3, <2>4
    <3>4. Cardinality(L[k] \cap g.serial) \in Nat
      <4>1. L[k] \cap g.serial \in SUBSET L[k]
        OBVIOUS
      <4>2. QED
        BY <3>1, <4>1, FS_Subset, FS_CardinalityType
    <3>5. \A i \in 1 .. Len(Split(L[k], g.serial)) : \A a \in Split(L[k], g.serial)[i] :
            a \in g.serial => Split(L[k], g.serial)[i] = {a}
      BY <3>4, SplitAlone
    <3>6. Ordered(f[k - 1], deps, g.serial)
      BY <2>7
    <3>7. Behind(L, k - 1) \cap L[k] = {} /\ \A a \in L[k] : deps[a] \subseteq Behind(L, k - 1)
      BY <2>2, <2>4
    <3>8. Ordered(f[k - 1] \o Split(L[k], g.serial), deps, g.serial)
      BY <3>2, <3>3, <3>5, <3>6, <3>7, OrderJoins
    <3>9. k \in 0 .. Len(L)
      BY <2>4
    <3>10. Ordered(f[k], deps, g.serial)
      BY <2>5, <3>8, Zenon
    <3>11. QED
      BY <3>9, <3>10
  <2>8. 0 .. Len(L) \subseteq P
    <3> HIDE DEF P
    <3>1. QED
      BY <2>4, <2>6, <2>7, InductionTo
  <2>9. Ordered(stages, deps, g.serial)
    BY <2>3, <2>4, <2>8
  <2>10. ASSUME NEW a \in acs, a \in g.serial
         PROVE  Cardinality(stages[StageOf(stages, a)]) = 1
    <3>1. stages[StageOf(stages, a)] = {a}
      BY <1>6, <2>9, <2>10 DEF Ordered, n
    <3>2. QED
      BY <3>1, FS_Singleton
  <2>11. ASSUME NEW a \in acs, NEW d \in deps[a]
         PROVE  StageOf(stages, d) < StageOf(stages, a)
    <3>1. d \in Behind(stages, StageOf(stages, a) - 1) /\ d \in acs
      BY <1>1, <1>6, <2>9, <2>11 DEF Ordered, n
    <3>2. PICK i \in 1 .. StageOf(stages, a) - 1 : d \in stages[i]
      BY <3>1 DEF Behind
    <3>3. i \in 1 .. n /\ i < StageOf(stages, a)
      BY <1>3, <1>6, <3>2
    <3>4. QED
      BY <1>5, <3>1, <3>2, <3>3
  <2>12. QED
    BY <1>1, <2>10, <2>11 DEF Plannable, stages, deps
<1>9. QED
  BY <1>7, <1>8 DEF deps

=============================================================================
