-------------------------- MODULE LiveMatrixProofs --------------------------
(***************************************************************************)
(* What the matrix's output files say, for any number of fixtures, runtime *)
(* families and runs in one directory.                                     *)
(***************************************************************************)
EXTENDS LiveMatrix, FiniteSetTheorems, SequenceTheorems, TLAPS

\* The fixtures whose cell with the j-th family is of a class.
FixturesOf(cs, j, class) ==
  {i \in 1 .. FixtureCount : CellAt(i, j) \in DOMAIN cs /\ cs[CellAt(i, j)] = class}

Finals == {"final.json", "final.md"}

\* What is in a readable output file, whichever run wrote it.
FilesInv ==
  /\ files \in [Files -> {Absent, Torn} \cup Result]
  /\ \A f \in Files : Intact(f) =>
       /\ files[f].attempt <= attempt
       /\ files[f].run_status = (IF f \in Finals THEN "completed" ELSE "in_progress")
       /\ f \in Finals => Len(files[f].cells) = Planned

\* How many cells a run has at each of its points.
PhaseInv ==
  /\ phase = "cell" => Len(cells) < Planned
  /\ phase \in {"partial.json", "partial.md"} => cells # << >>
  /\ phase \in Finals => Len(cells) = Planned

\* A file an earlier run left.
Old(f) == Intact(f) => files[f].attempt < attempt

\* This run's checkpoint of these cells, or, before the first, what was there.
Holds(f, cs) ==
  IF cs = << >> THEN Old(f)
  ELSE files[f] = [attempt |-> attempt, run_status |-> "in_progress", cells |-> cs]

ButLast(cs) == SubSeq(cs, 1, Len(cs) - 1)

\* Which cells the checkpoint pair holds at each point of a run, and that the
\* final pair is an earlier run's until this one writes it.
SavedInv ==
  /\ phase = "cell" => Holds("partial.json", cells) /\ Holds("partial.md", cells)
  /\ phase = "partial.json" =>
       Holds("partial.json", ButLast(cells)) /\ Holds("partial.md", ButLast(cells))
  /\ phase = "partial.md" =>
       Holds("partial.json", cells) /\ Holds("partial.md", ButLast(cells))
  /\ phase \in {"cell", "partial.json", "partial.md", "final.json"} =>
       Old("final.json") /\ Old("final.md")
  /\ phase = "final.md" => files["final.json"] = Content("final.json") /\ Old("final.md")

\* What PairsAgree asks of one pair.
Follows(md, json) ==
  /\ md.attempt <= json.attempt
  /\ md.attempt = json.attempt =>
       /\ Len(json.cells) - Len(md.cells) \in {0, 1}
       /\ md.cells = SubSeq(json.cells, 1, Len(md.cells))

MatrixInv == TypeOK /\ FilesInv /\ PhaseInv /\ SavedInv /\ PairsAgree

-----------------------------------------------------------------------------
(* The grid                                                                *)

LEMMA GridIsTyped ==
  ASSUME matrix \in Matrices
  PROVE  /\ FixtureCount \in Nat \ {0} /\ Len(FamilyOrder) \in Nat \ {0}
         /\ DOMAIN FamilyOrder = 1 .. Len(FamilyOrder)
         /\ \A i, j \in DOMAIN FamilyOrder : FamilyOrder[i] = FamilyOrder[j] => i = j
         /\ Planned \in Nat /\ Planned = FixtureCount * Len(FamilyOrder)
<1> DEFINE S == {FamilyOrder[i] : i \in DOMAIN FamilyOrder}
<1>1. /\ FixtureCount \in Nat \ {0} /\ FamilyOrder # << >> /\ FamilyOrder \in Seq(S)
      /\ \A i, j \in DOMAIN FamilyOrder : FamilyOrder[i] = FamilyOrder[j] => i = j
  BY MatrixAssumption DEF FixtureCount, FamilyOrder
<1> HIDE DEF S
<1>2. Len(FamilyOrder) \in Nat \ {0} /\ DOMAIN FamilyOrder = 1 .. Len(FamilyOrder)
  BY <1>1
<1>3. Planned \in Nat /\ Planned = FixtureCount * Len(FamilyOrder)
  BY <1>1, <1>2 DEF Planned
<1>4. QED
  BY <1>1, <1>2, <1>3

LEMMA Rows ==
  ASSUME NEW n \in Nat \ {0}, NEW N \in Nat \ {0}
  PROVE  /\ \A j \in 1 .. n : \A i \in 1 .. N :
              /\ (i - 1) * n + j \in 1 .. N * n
              /\ (((i - 1) * n + j) - 1) % n = j - 1
         /\ \A j \in 1 .. n : \A i, h \in 1 .. N :
              (i - 1) * n + j = (h - 1) * n + j => i = h
         /\ \A k \in 1 .. N * n :
              /\ ((k - 1) % n) + 1 \in 1 .. n
              /\ \E i \in 1 .. N : k = (i - 1) * n + (((k - 1) % n) + 1)
<1>1. ASSUME NEW j \in 1 .. n, NEW i \in 1 .. N
      PROVE  /\ (i - 1) * n + j \in 1 .. N * n
             /\ (((i - 1) * n + j) - 1) % n = j - 1
  <2>1. (i - 1) * n \in Nat /\ (i - 1) * n + n <= N * n
    <3>1. i - 1 \in Nat /\ N - i \in Nat
      OBVIOUS
    <3>2. (i - 1) * n \in Nat /\ (N - i) * n \in Nat
      BY <3>1
    <3>3. N * n = (i - 1) * n + n + (N - i) * n
      OBVIOUS
    <3>4. QED
      BY <3>2, <3>3
  <2>2. (i - 1) * n + j \in 1 .. N * n
    BY <2>1
  <2>3. \A a \in Nat : \A b \in 0 .. n - 1 : (a * n + b) % n = b
    OBVIOUS
  <2>4. ((i - 1) * n + (j - 1)) % n = j - 1
    BY <2>3
  <2>5. (i - 1) * n + (j - 1) = ((i - 1) * n + j) - 1
    BY <2>1
  <2>6. QED
    BY <2>2, <2>4, <2>5
<1>2. ASSUME NEW j \in 1 .. n, NEW i \in 1 .. N, NEW h \in 1 .. N,
             (i - 1) * n + j = (h - 1) * n + j
      PROVE  i = h
  <2>1. n * ((i - 1) - (h - 1)) = 0
    BY <1>2
  <2>2. i - 1 = h - 1
    BY <2>1
  <2>3. QED
    BY <2>2
<1>3. ASSUME NEW k \in 1 .. N * n
      PROVE  /\ ((k - 1) % n) + 1 \in 1 .. n
             /\ \E i \in 1 .. N : k = (i - 1) * n + (((k - 1) % n) + 1)
  <2> DEFINE q == (k - 1) \div n
             r == (k - 1) % n
  <2>1. k - 1 \in Nat /\ k <= N * n
    OBVIOUS
  <2>2. q \in Int /\ r \in 0 .. n - 1 /\ k - 1 = n * q + r
    BY <2>1
  <2> HIDE DEF q, r
  <2>3. q >= 0
    BY <2>1, <2>2
  <2>4. q < N
    <3>1. n * q < n * N
      BY <2>1, <2>2
    <3>2. QED
      BY <2>2, <3>1
  <2>5. q + 1 \in 1 .. N /\ k = ((q + 1) - 1) * n + (r + 1)
    BY <2>2, <2>3, <2>4
  <2>6. \E i \in 1 .. N : k = (i - 1) * n + (r + 1)
    BY <2>5, Zenon
  <2>7. r + 1 \in 1 .. n
    BY <2>2
  <2>8. QED
    BY <2>6, <2>7, Zenon DEF r
<1>4. QED
  BY <1>1, <1>2, <1>3

\* The cells run fixture by fixture, in the order of the families.
LEMMA CellsOfAFamily ==
  ASSUME matrix \in Matrices, NEW j \in DOMAIN FamilyOrder
  PROVE  /\ \A i \in 1 .. FixtureCount : CellAt(i, j) \in 1 .. Planned
         /\ \A i, h \in 1 .. FixtureCount : CellAt(i, j) = CellAt(h, j) => i = h
         /\ \A k \in 1 .. Planned :
              FamilyOf(k) = FamilyOrder[j] <=> \E i \in 1 .. FixtureCount : k = CellAt(i, j)
<1> DEFINE n == Len(FamilyOrder)
           N == FixtureCount
<1>1. /\ N \in Nat \ {0} /\ n \in Nat \ {0} /\ j \in 1 .. n /\ DOMAIN FamilyOrder = 1 .. n
      /\ \A i, h \in 1 .. n : FamilyOrder[i] = FamilyOrder[h] => i = h
      /\ Planned = N * n
  BY GridIsTyped
<1>2. /\ \A k : FamilyOf(k) = FamilyOrder[((k - 1) % n) + 1]
      /\ \A i : CellAt(i, j) = (i - 1) * n + j
  BY DEF FamilyOf, CellAt
<1> HIDE DEF n, N
<1>3. /\ \A i \in 1 .. N : /\ (i - 1) * n + j \in 1 .. N * n
                           /\ (((i - 1) * n + j) - 1) % n = j - 1
      /\ \A i, h \in 1 .. N : (i - 1) * n + j = (h - 1) * n + j => i = h
      /\ \A k \in 1 .. N * n :
           /\ ((k - 1) % n) + 1 \in 1 .. n
           /\ \E i \in 1 .. N : k = (i - 1) * n + (((k - 1) % n) + 1)
  <2>1. /\ \A a \in 1 .. n : \A i \in 1 .. N :
              /\ (i - 1) * n + a \in 1 .. N * n
              /\ (((i - 1) * n + a) - 1) % n = a - 1
        /\ \A a \in 1 .. n : \A i, h \in 1 .. N :
              (i - 1) * n + a = (h - 1) * n + a => i = h
        /\ \A k \in 1 .. N * n :
              /\ ((k - 1) % n) + 1 \in 1 .. n
              /\ \E i \in 1 .. N : k = (i - 1) * n + (((k - 1) % n) + 1)
    <3>1. N \in Nat \ {0} /\ n \in Nat \ {0}
      BY <1>1, Zenon
    <3>2. QED
      BY <3>1, Rows, Zenon
  <2>2. j \in 1 .. n
    BY <1>1, Zenon
  <2>3. QED
    BY <2>1, <2>2, Zenon
<1>4. ASSUME NEW k \in 1 .. N * n, FamilyOf(k) = FamilyOrder[j]
      PROVE  \E i \in 1 .. N : k = CellAt(i, j)
  <2>1. ((k - 1) % n) + 1 = j
    BY <1>1, <1>2, <1>3, <1>4, Zenon
  <2>2. PICK i \in 1 .. N : k = (i - 1) * n + (((k - 1) % n) + 1)
    BY <1>3
  <2>3. QED
    BY <1>2, <2>1, <2>2
<1>5. ASSUME NEW i \in 1 .. N
      PROVE  FamilyOf(CellAt(i, j)) = FamilyOrder[j]
  <2>1. CellAt(i, j) = (i - 1) * n + j /\ (((i - 1) * n + j) - 1) % n = j - 1
    BY <1>2, <1>3, Zenon
  <2>2. ASSUME NEW k, k = (i - 1) * n + j
        PROVE  FamilyOf(k) = FamilyOrder[j]
    <3>1. (k - 1) % n = j - 1
      BY <2>1, <2>2, Zenon
    <3>2. (j - 1) + 1 = j
      BY <1>1
    <3>3. FamilyOf(k) = FamilyOrder[((k - 1) % n) + 1]
      BY <1>2, Zenon
    <3>4. QED
      BY <3>1, <3>2, <3>3, Zenon
  <2>3. QED
    BY <2>1, <2>2, Zenon
<1>6. \A i \in 1 .. N : CellAt(i, j) \in 1 .. N * n
  BY <1>2, <1>3, Zenon
<1>7. ASSUME NEW i \in 1 .. N, NEW h \in 1 .. N, CellAt(i, j) = CellAt(h, j)
      PROVE  i = h
  <2>1. CellAt(i, j) = (i - 1) * n + j /\ CellAt(h, j) = (h - 1) * n + j
    BY <1>2, Zenon
  <2>2. (i - 1) * n + j = (h - 1) * n + j
    BY <1>7, <2>1, Zenon
  <2>3. QED
    BY <1>3, <2>2, Zenon
<1>8. QED
  BY <1>1, <1>4, <1>5, <1>6, <1>7, Zenon DEF N

\* A family's cells of a class are counted by their fixtures.
LEMMA CountedByFixture ==
  ASSUME matrix \in Matrices, NEW cs \in Seq(Classes), Len(cs) <= Planned,
         NEW j \in DOMAIN FamilyOrder, NEW class
  PROVE  /\ IsFiniteSet(FixturesOf(cs, j, class))
         /\ Cardinality(CellsOf(cs, FamilyOrder[j], class))
              = Cardinality(FixturesOf(cs, j, class))
<1> DEFINE I == FixturesOf(cs, j, class)
           C == CellsOf(cs, FamilyOrder[j], class)
           f == [i \in I |-> CellAt(i, j)]
<1>1. FixtureCount \in Nat /\ Planned \in Nat /\ DOMAIN cs \subseteq 1 .. Planned
  <2>1. FixtureCount \in Nat /\ Planned \in Nat
    BY GridIsTyped
  <2>2. Len(cs) \in Nat /\ DOMAIN cs = 1 .. Len(cs)
    OBVIOUS
  <2>3. QED
    BY <2>1, <2>2
<1>2. IsFiniteSet(I)
  <2>1. IsFiniteSet(1 .. FixtureCount)
    BY <1>1, FS_Interval
  <2>2. I \in SUBSET (1 .. FixtureCount)
    BY DEF FixturesOf
  <2> HIDE DEF I
  <2>3. QED
    BY <2>1, <2>2, FS_Subset
<1>3. ASSUME NEW i \in I
      PROVE  i \in 1 .. FixtureCount /\ CellAt(i, j) \in C
  BY CellsOfAFamily DEF FixturesOf, CellsOf
<1>4. ASSUME NEW k \in C
      PROVE  \E i \in I : CellAt(i, j) = k
  <2>1. k \in DOMAIN cs /\ cs[k] = class /\ FamilyOf(k) = FamilyOrder[j]
    BY DEF CellsOf
  <2>2. PICK i \in 1 .. FixtureCount : k = CellAt(i, j)
    BY <1>1, <2>1, CellsOfAFamily
  <2>3. QED
    BY <2>1, <2>2 DEF FixturesOf
<1>5. \A i, h \in I : CellAt(i, j) = CellAt(h, j) => i = h
  BY <1>3, CellsOfAFamily
<1> HIDE DEF I, C
<1>6. f \in Bijection(I, C)
  <2>1. f \in [I -> C]
    BY <1>3
  <2>2. \A i, h \in I : f[i] = f[h] => i = h
    BY <1>5
  <2>3. \A k \in C : \E i \in I : f[i] = k
    BY <1>4
  <2> HIDE DEF f
  <2>4. QED
    BY <2>1, <2>2, <2>3 DEF Bijection, Injection, Surjection, IsInjective
<1>7. ExistsBijection(I, C)
  BY <1>6 DEF ExistsBijection
<1>8. Cardinality(C) = Cardinality(I)
  BY <1>2, <1>7, FS_Bijection
<1>9. QED
  BY <1>2, <1>8 DEF I, C

-----------------------------------------------------------------------------
(* The aggregate                                                           *)

LEMMA CountsSay ==
  ASSUME NEW N \in Nat, NEW S \in SUBSET (1 .. N)
  PROVE  /\ Cardinality(S) \in Nat
         /\ Cardinality(S) >= N <=> S = 1 .. N
         /\ Cardinality(S) > 0 <=> S # {}
         /\ Cardinality(S) >= 2 <=> \E x, y \in S : x # y
<1>1. IsFiniteSet(1 .. N)
  BY FS_Interval
<1>2. Cardinality(1 .. N) = N
  <2>1. Cardinality(1 .. N) = IF 1 > N THEN 0 ELSE N - 1 + 1
    BY FS_Interval
  <2>2. QED
    BY <2>1
<1>3. /\ IsFiniteSet(S)
      /\ Cardinality(S) <= Cardinality(1 .. N)
      /\ Cardinality(1 .. N) = Cardinality(S) => 1 .. N = S
  BY <1>1, FS_Subset
<1>4. Cardinality(S) \in Nat
  BY <1>3, FS_CardinalityType
<1>5. Cardinality(S) = 0 <=> S = {}
  BY <1>3, FS_EmptySet
<1>6. Cardinality(S) = 1 <=> \E x : S = {x}
  BY <1>3, FS_Singleton
<1>7. Cardinality(S) >= 2 => \E x, y \in S : x # y
  <2> SUFFICES ASSUME Cardinality(S) >= 2 PROVE \E x, y \in S : x # y
    OBVIOUS
  <2>1. Cardinality(S) # 0 /\ Cardinality(S) # 1
    BY <1>4
  <2>2. PICK x \in S : TRUE
    BY <1>5, <2>1
  <2>3. S # {x}
    BY <1>6, <2>1
  <2>4. QED
    BY <2>2, <2>3
<1>8. (\E x, y \in S : x # y) => Cardinality(S) >= 2
  <2> SUFFICES ASSUME NEW x \in S, NEW y \in S, x # y PROVE Cardinality(S) >= 2
    OBVIOUS
  <2>1. Cardinality(S) # 0
    BY <1>5
  <2>2. Cardinality(S) # 1
    <3>1. \A z : S # {z}
      OBVIOUS
    <3>2. QED
      BY <1>6, <3>1
  <2>3. QED
    BY <1>4, <2>1, <2>2
<1>9. Cardinality(S) >= N => S = 1 .. N
  BY <1>2, <1>3, <1>4
<1>10. S = 1 .. N => Cardinality(S) >= N
  <2> SUFFICES ASSUME S = 1 .. N PROVE Cardinality(S) >= N
    OBVIOUS
  <2>1. Cardinality(S) = N
    BY <1>2, Zenon
  <2>2. QED
    BY <2>1
<1>11. Cardinality(S) > 0 <=> S # {}
  <2>1. Cardinality(S) > 0 <=> Cardinality(S) # 0
    BY <1>4
  <2>2. QED
    BY <1>5, <2>1, Zenon
<1>12. QED
  BY <1>4, <1>7, <1>8, <1>9, <1>10, <1>11, Zenon

\* What one family's counts say of its column of the grid.
LEMMA FamilyCounts ==
  ASSUME matrix \in Matrices, NEW cs \in Seq(Classes), Len(cs) <= Planned,
         NEW j \in DOMAIN FamilyOrder
  PROVE  LET P == FixturesOf(cs, j, "pass")
             F == FixturesOf(cs, j, "primary_contract_failure")
         IN  /\ Passed(cs, FamilyOrder[j]) >= FixtureCount <=> P = 1 .. FixtureCount
             /\ Failed(cs, FamilyOrder[j]) >= 2 <=> \E x, y \in F : x # y
             /\ Failed(cs, FamilyOrder[j]) > 0 <=> F # {}
             /\ Failed(cs, FamilyOrder[j]) = 0 <=> F = {}
             /\ P = 1 .. FixtureCount => F = {}
<1> DEFINE P == FixturesOf(cs, j, "pass")
           F == FixturesOf(cs, j, "primary_contract_failure")
<1>1. /\ Passed(cs, FamilyOrder[j]) = Cardinality(P)
      /\ Failed(cs, FamilyOrder[j]) = Cardinality(F)
  BY CountedByFixture DEF Passed, Failed
<1>2. P \in SUBSET (1 .. FixtureCount) /\ F \in SUBSET (1 .. FixtureCount)
  BY DEF FixturesOf
<1>3. P = 1 .. FixtureCount => F = {}
  BY DEF FixturesOf
<1>4. FixtureCount \in Nat
  BY GridIsTyped
<1> HIDE DEF P, F
<1>5. /\ Cardinality(P) >= FixtureCount <=> P = 1 .. FixtureCount
      /\ Cardinality(F) >= 2 <=> \E x, y \in F : x # y
      /\ Cardinality(F) > 0 <=> F # {}
      /\ Cardinality(F) \in Nat
  BY <1>2, <1>4, CountsSay
<1>6. Cardinality(F) = 0 <=> F = {}
  BY <1>5
<1>7. QED
  BY <1>1, <1>3, <1>5, <1>6 DEF P, F

\* The aggregate of any prefix of the grid.
LEMMA AggregateIsEarned ==
  ASSUME matrix \in Matrices, NEW cs \in Seq(Classes), Len(cs) <= Planned
  PROVE  /\ AggregateStatus(cs) = "pass" <=>
              \A j \in DOMAIN FamilyOrder :
                FixturesOf(cs, j, "pass") = 1 .. FixtureCount
         /\ AggregateStatus(cs) = "fail" <=>
              \E j \in DOMAIN FamilyOrder :
                \E x, y \in FixturesOf(cs, j, "primary_contract_failure") : x # y
<1> DEFINE Refuted(f) == FamilyStatus(cs, f) = "not_supported"
           Full(f) == Passed(cs, f) >= FixtureCount /\ Failed(cs, f) = 0
<1>1. AggregateStatus(cs) = IF \E f \in Families : Refuted(f) THEN "fail"
                            ELSE IF \A f \in Families : Full(f) THEN "pass"
                            ELSE "inconclusive"
  BY DEF AggregateStatus
<1>2. \A f : Refuted(f) <=> Failed(cs, f) >= 2
  BY DEF FamilyStatus
<1>3. ASSUME NEW j \in DOMAIN FamilyOrder
      PROVE  /\ Refuted(FamilyOrder[j]) <=>
                  \E x, y \in FixturesOf(cs, j, "primary_contract_failure") : x # y
             /\ Full(FamilyOrder[j]) <=> FixturesOf(cs, j, "pass") = 1 .. FixtureCount
             /\ ~ (Full(FamilyOrder[j]) /\ Refuted(FamilyOrder[j]))
  BY <1>2, FamilyCounts
<1>4. /\ \A j \in DOMAIN FamilyOrder : FamilyOrder[j] \in Families
      /\ \A f \in Families : \E j \in DOMAIN FamilyOrder : f = FamilyOrder[j]
  BY DEF Families
<1>5. \E j : j \in DOMAIN FamilyOrder
  <2>1. 1 \in DOMAIN FamilyOrder
    BY GridIsTyped
  <2>2. QED
    BY <2>1
<1> HIDE DEF Refuted, Full
<1>6. (\A f \in Families : Full(f)) => ~ \E f \in Families : Refuted(f)
  BY <1>3, <1>4
<1>7. /\ AggregateStatus(cs) = "fail" <=> \E f \in Families : Refuted(f)
      /\ AggregateStatus(cs) = "pass" <=> \A f \in Families : Full(f)
  BY <1>1, <1>6
<1>8. QED
  BY <1>3, <1>4, <1>7

-----------------------------------------------------------------------------
(* The files                                                               *)

LEMMA MatrixIsKept ==
  ASSUME UNCHANGED matrix
  PROVE  UNCHANGED <<FixtureCount, FamilyOrder, MaxAttempts, Planned, Result>>
BY DEF FixtureCount, FamilyOrder, MaxAttempts, Planned, Result

LEMMA InResult ==
  ASSUME matrix \in Matrices
  PROVE  /\ \A r \in Result : r.cells \in Seq(Classes) /\ Len(r.cells) <= Planned
         /\ \A a \in 1 .. MaxAttempts : \A status \in {"in_progress", "completed"} :
              \A cs \in Seq(Classes) :
                Len(cs) <= Planned =>
                  [attempt |-> a, run_status |-> status, cells |-> cs] \in Result
<1> DEFINE Grids == UNION {[1 .. n -> Classes] : n \in 0 .. Planned}
<1>1. Planned \in Nat
  BY GridIsTyped
<1>2. ASSUME NEW cs \in Grids
      PROVE  cs \in Seq(Classes) /\ Len(cs) <= Planned
  <2>1. PICK n \in 0 .. Planned : cs \in [1 .. n -> Classes]
    OBVIOUS
  <2>2. n \in Nat /\ n <= Planned
    BY <1>1
  <2>3. cs \in Seq(Classes)
    BY <2>1, <2>2, SeqDef
  <2>4. Len(cs) = n
    BY <2>1, <2>2
  <2>5. QED
    BY <2>2, <2>3, <2>4
<1>3. ASSUME NEW cs \in Seq(Classes), Len(cs) <= Planned
      PROVE  cs \in Grids
  <2>1. Len(cs) \in 0 .. Planned /\ cs \in [1 .. Len(cs) -> Classes]
    BY <1>1, <1>3
  <2>2. QED
    BY <2>1
<1>4. Result = [attempt : 1 .. MaxAttempts, run_status : {"in_progress", "completed"},
                cells : Grids]
  BY DEF Result
<1> HIDE DEF Grids
<1>5. QED
  BY <1>2, <1>3, <1>4

LEMMA BothPairs ==
  /\ PairsAgree <=>
       /\ Intact("partial.json") /\ Intact("partial.md") =>
            Follows(files["partial.md"], files["partial.json"])
       /\ Intact("final.json") /\ Intact("final.md") =>
            Follows(files["final.md"], files["final.json"])
  /\ PairsAgree' <=>
       /\ Intact("partial.json")' /\ Intact("partial.md")' =>
            Follows(files'["partial.md"], files'["partial.json"])
       /\ Intact("final.json")' /\ Intact("final.md")' =>
            Follows(files'["final.md"], files'["final.json"])
<1> DEFINE Pair(p) == Intact(p[1]) /\ Intact(p[2]) => Follows(files[p[2]], files[p[1]])
           a == <<"partial.json", "partial.md">>
           b == <<"final.json", "final.md">>
<1>1. PairsAgree <=> \A p \in {a, b} : Pair(p)
  BY DEF PairsAgree, Follows
<1>2. PairsAgree' <=> \A p \in {a, b} : Pair(p)'
  BY DEF PairsAgree, Follows
<1>3. /\ a[1] = "partial.json" /\ a[2] = "partial.md"
      /\ b[1] = "final.json" /\ b[2] = "final.md"
  OBVIOUS
<1> HIDE DEF a, b
<1>4. (Pair(a) <=> /\ Intact("partial.json") /\ Intact("partial.md") =>
                       Follows(files["partial.md"], files["partial.json"]))
      /\ (Pair(a)' <=> /\ Intact("partial.json")' /\ Intact("partial.md")' =>
                           Follows(files'["partial.md"], files'["partial.json"]))
  BY <1>3
<1>5. (Pair(b) <=> /\ Intact("final.json") /\ Intact("final.md") =>
                       Follows(files["final.md"], files["final.json"]))
      /\ (Pair(b)' <=> /\ Intact("final.json")' /\ Intact("final.md")' =>
                           Follows(files'["final.md"], files'["final.json"]))
  BY <1>3
<1> HIDE DEF Pair
<1>6. QED
  BY <1>1, <1>2, <1>4, <1>5, Zenon

LEMMA ButLastIsPrefix ==
  ASSUME NEW S, NEW cs \in Seq(S), cs # << >>
  PROVE  /\ Len(ButLast(cs)) = Len(cs) - 1
         /\ Len(cs) - Len(ButLast(cs)) \in {0, 1}
         /\ ButLast(cs) = SubSeq(cs, 1, Len(ButLast(cs)))
<1>1. Len(cs) \in Nat \ {0}
  OBVIOUS
<1>2. \A i \in 1 .. Len(cs) - 1 : cs[i] \in S
  BY <1>1
<1>3. Len(SubSeq(cs, 1, Len(cs) - 1)) = IF 1 <= Len(cs) - 1 THEN Len(cs) - 1 - 1 + 1 ELSE 0
  BY <1>1, <1>2, SubSeqProperties
<1>4. Len(ButLast(cs)) = Len(cs) - 1
  BY <1>1, <1>3 DEF ButLast
<1>5. Len(cs) - Len(ButLast(cs)) \in {0, 1}
  BY <1>1, <1>4
<1>6. QED
  BY <1>4, <1>5 DEF ButLast

LEMMA InitHolds == Init => MatrixInv
<1> SUFFICES ASSUME Init PROVE MatrixInv
  OBVIOUS
<1>1. matrix \in Matrices /\ matrix.attempts \in Nat \ {0}
  BY MatrixAssumption DEF Init
<1>2. Planned \in Nat \ {0}
  BY <1>1, GridIsTyped
<1>3. TypeOK
  BY <1>1, <1>2 DEF Init, TypeOK, MaxAttempts
<1>4. FilesInv
  BY DEF Init, FilesInv, Intact
<1>5. PhaseInv
  BY <1>2 DEF Init, PhaseInv, Finals
<1>6. SavedInv
  BY DEF Init, SavedInv, Holds, Old, Intact, Files
<1>7. PairsAgree
  BY DEF Init, PairsAgree, Intact, Files
<1>8. QED
  BY <1>3, <1>4, <1>5, <1>6, <1>7 DEF MatrixInv

LEMMA Typed ==
  ASSUME MatrixInv
  PROVE  /\ matrix \in Matrices
         /\ Planned \in Nat \ {0} /\ MaxAttempts \in Nat
         /\ attempt \in 1 .. MaxAttempts
         /\ cells \in Seq(Classes) /\ Len(cells) \in Nat /\ Len(cells) <= Planned
         /\ files \in [Files -> {Absent, Torn} \cup Result]
         /\ \A f \in Files : Intact(f) => files[f] \in Result /\ files[f].attempt \in Nat
         /\ phase \in Files \cup {"cell", "done", "stopped"}
<1>1. /\ matrix \in Matrices
      /\ attempt \in 1 .. MaxAttempts
      /\ cells \in Seq(Classes) /\ Len(cells) <= Planned
      /\ files \in [Files -> {Absent, Torn} \cup Result]
      /\ phase \in Files \cup {"cell", "done", "stopped"}
  BY DEF MatrixInv, TypeOK, FilesInv
<1>2. Planned \in Nat \ {0} /\ MaxAttempts \in Nat
  <2>1. MaxAttempts \in Nat
    BY <1>1, MatrixAssumption DEF MaxAttempts
  <2>2. FixtureCount \in Nat \ {0} /\ Len(FamilyOrder) \in Nat \ {0}
    BY <1>1, GridIsTyped
  <2>3. FixtureCount * Len(FamilyOrder) \in Nat \ {0}
    BY <2>2
  <2>4. QED
    BY <1>1, <2>1, <2>3, GridIsTyped
<1>3. ASSUME NEW f \in Files, Intact(f)
      PROVE  files[f] \in Result /\ files[f].attempt \in Nat
  <2>1. files[f] \in Result
    BY <1>1, <1>3 DEF Intact
  <2>2. \A r \in Result : r.attempt \in Nat
    BY DEF Result
  <2>3. QED
    BY <2>1, <2>2
<1>4. QED
  BY <1>1, <1>2, <1>3

\* Steps that write no file.
LEMMA FilesUntouched ==
  ASSUME MatrixInv, UNCHANGED <<matrix, files>>, attempt' \in 1 .. MaxAttempts,
         attempt <= attempt'
  PROVE  FilesInv' /\ PairsAgree' /\ (\A f : Intact(f)' <=> Intact(f))
<1>1. /\ UNCHANGED <<Planned, Result>> /\ \A f : Intact(f)' <=> Intact(f)
  BY MatrixIsKept DEF Intact
<1>2. FilesInv'
  <2>1. ASSUME NEW f \in Files, Intact(f)
        PROVE  files[f].attempt <= attempt'
    BY <2>1, Typed DEF MatrixInv, FilesInv
  <2>2. QED
    BY <1>1, <2>1 DEF MatrixInv, FilesInv
<1>3. PairsAgree'
  BY <1>1 DEF MatrixInv, PairsAgree
<1>4. QED
  BY <1>1, <1>2, <1>3

LEMMA RunCellPreserves ==
  ASSUME MatrixInv, NEW class \in Classes, RunCell(class)
  PROVE  MatrixInv'
<1>1. /\ phase = "cell" /\ cells' = Append(cells, class) /\ phase' = "partial.json"
      /\ UNCHANGED <<matrix, attempt, files>>
  BY DEF RunCell
<1>2. UNCHANGED <<MaxAttempts, Planned, Result>>
  BY <1>1, MatrixIsKept
<1>3. FilesInv' /\ PairsAgree' /\ (\A f : Intact(f)' <=> Intact(f))
  BY <1>1, Typed, FilesUntouched
<1>4. Len(cells) < Planned
  BY <1>1 DEF MatrixInv, PhaseInv
<1>5. /\ cells' \in Seq(Classes) /\ Len(cells') = Len(cells) + 1 /\ cells' # << >>
      /\ SubSeq(cells', 1, Len(cells') - 1) = cells
  <2>1. cells \in Seq(Classes) /\ Len(cells) \in Nat
    BY Typed
  <2>2. QED
    BY <1>1, <2>1
<1>6. TypeOK'
  <2>1. Len(cells') <= Planned
    BY <1>4, <1>5, Typed
  <2>2. QED
    BY <1>1, <1>2, <1>5, <2>1 DEF MatrixInv, TypeOK, Files
<1>7. PhaseInv'
  BY <1>1, <1>5 DEF PhaseInv, Finals
<1>8. SavedInv'
  <2>1. ButLast(cells)' = cells
    BY <1>5 DEF ButLast
  <2>2. /\ Holds("partial.json", cells) /\ Holds("partial.md", cells)
        /\ Old("final.json") /\ Old("final.md")
    BY <1>1 DEF MatrixInv, SavedInv
  <2>3. Holds("partial.json", ButLast(cells))' /\ Holds("partial.md", ButLast(cells))'
    BY <1>1, <1>3, <2>1, <2>2 DEF Holds, Old
  <2>4. Old("final.json")' /\ Old("final.md")'
    BY <1>1, <1>3, <2>2 DEF Old
  <2>5. QED
    BY <1>1, <2>3, <2>4 DEF SavedInv
<1>9. QED
  BY <1>3, <1>6, <1>7, <1>8 DEF MatrixInv

\* A run that stops, in a cell or after its last write, and the next one.
LEMMA StopPreserves ==
  ASSUME MatrixInv, Stop
  PROVE  MatrixInv'
<1>1. phase' = "stopped" /\ UNCHANGED <<matrix, attempt, cells, files>>
  BY DEF Stop
<1>2. UNCHANGED <<MaxAttempts, Planned, Result>>
  BY <1>1, MatrixIsKept
<1>3. FilesInv' /\ PairsAgree'
  BY <1>1, Typed, FilesUntouched
<1>4. TypeOK'
  BY <1>1, <1>2 DEF MatrixInv, TypeOK
<1>5. PhaseInv' /\ SavedInv'
  BY <1>1 DEF PhaseInv, SavedInv, Finals
<1>6. QED
  BY <1>3, <1>4, <1>5 DEF MatrixInv

LEMMA RestartPreserves ==
  ASSUME MatrixInv, Restart
  PROVE  MatrixInv'
<1>1. /\ attempt < MaxAttempts /\ attempt' = attempt + 1 /\ cells' = << >>
      /\ phase' = "cell" /\ UNCHANGED <<matrix, files>>
  BY DEF Restart
<1>2. UNCHANGED <<MaxAttempts, Planned, Result>>
  BY <1>1, MatrixIsKept
<1>3. attempt' \in 1 .. MaxAttempts /\ attempt <= attempt' /\ attempt \in Nat
  BY <1>1, Typed
<1>4. FilesInv' /\ PairsAgree' /\ (\A f : Intact(f)' <=> Intact(f))
  BY <1>1, <1>3, FilesUntouched
<1>5. TypeOK'
  BY <1>1, <1>2, <1>3, Typed DEF MatrixInv, TypeOK
<1>6. PhaseInv'
  BY <1>1, <1>2, Typed DEF PhaseInv, Finals
<1>7. \A f \in Files : Old(f)'
  <2>1. ASSUME NEW f \in Files, Intact(f)
        PROVE  files[f].attempt < attempt'
    <3>1. files[f].attempt <= attempt /\ files[f].attempt \in Nat
      BY <2>1, Typed DEF MatrixInv, FilesInv
    <3>2. QED
      BY <1>1, <1>3, <3>1
  <2>2. QED
    BY <1>1, <1>4, <2>1 DEF Old
<1>8. SavedInv'
  BY <1>1, <1>7 DEF SavedInv, Holds, Files
<1>9. QED
  BY <1>4, <1>5, <1>6, <1>8 DEF MatrixInv

\* A write that fails leaves a file as it was or not readable.
LEMMA WriteFailsPreserves ==
  ASSUME MatrixInv, NEW f \in Files, WriteFails(f)
  PROVE  MatrixInv'
<1>1. /\ files' = [files EXCEPT ![f] = files[f]] \/ files' = [files EXCEPT ![f] = Torn]
      /\ phase' = "stopped" /\ UNCHANGED <<matrix, attempt, cells>>
  BY DEF WriteFails
<1>2. UNCHANGED <<MaxAttempts, Planned, Result>>
  BY <1>1, MatrixIsKept
<1>3. files \in [Files -> {Absent, Torn} \cup Result]
  BY Typed
<1>4. files' \in [Files -> {Absent, Torn} \cup Result]
  BY <1>1, <1>3
<1>5. \A g \in Files : Intact(g)' => Intact(g) /\ files'[g] = files[g]
  <2>1. ASSUME NEW g \in Files
        PROVE  files'[g] = files[g] \/ files'[g] = Torn
    BY <1>1, <1>3
  <2>2. QED
    BY <2>1 DEF Intact
<1>6. TypeOK'
  <2>1. \A g \in Files : files'[g] \in {Absent, Torn} \/ files'[g] \in Result
    BY <1>4
  <2>2. QED
    BY <1>1, <1>2, <2>1 DEF MatrixInv, TypeOK
<1>7. FilesInv'
  <2>1. ASSUME NEW g \in Files, Intact(g)'
        PROVE  /\ files'[g].attempt <= attempt
               /\ files'[g].run_status
                    = (IF g \in Finals THEN "completed" ELSE "in_progress")
               /\ g \in Finals => Len(files'[g].cells) = Planned
    BY <1>5, <2>1 DEF MatrixInv, FilesInv
  <2>2. QED
    BY <1>1, <1>2, <1>4, <2>1 DEF FilesInv
<1>8. PairsAgree'
  BY <1>5, BothPairs DEF MatrixInv, Files
<1>9. PhaseInv' /\ SavedInv'
  BY <1>1 DEF PhaseInv, SavedInv, Finals
<1>10. QED
  BY <1>6, <1>7, <1>8, <1>9 DEF MatrixInv

\* What holds after any of the four writes.
LEMMA WriteKeepsTypes ==
  ASSUME MatrixInv, NEW f \in Files, WriteOutput(f)
  PROVE  /\ TypeOK' /\ FilesInv' /\ PhaseInv'
         /\ files'[f] = Content(f)
         /\ \A g \in Files : g # f => files'[g] = files[g] /\ (Intact(g)' <=> Intact(g))
<1>1. /\ phase = f /\ files' = [files EXCEPT ![f] = Content(f)] /\ phase' = After(f)
      /\ UNCHANGED <<matrix, attempt, cells>>
  BY DEF WriteOutput
<1>2. UNCHANGED <<MaxAttempts, Planned, Result>>
  BY <1>1, MatrixIsKept
<1>3. /\ files \in [Files -> {Absent, Torn} \cup Result]
      /\ matrix \in Matrices /\ attempt \in 1 .. MaxAttempts
      /\ cells \in Seq(Classes) /\ Len(cells) <= Planned
      /\ Len(cells) \in Nat /\ Planned \in Nat /\ MaxAttempts \in Nat
  BY Typed
<1>4. Content(f) \in Result
  BY <1>3, InResult DEF Content
<1>5. /\ files' \in [Files -> {Absent, Torn} \cup Result]
      /\ files'[f] = Content(f)
      /\ \A g \in Files : g # f => files'[g] = files[g]
  BY <1>1, <1>3, <1>4
<1>6. \A g \in Files : g # f => (Intact(g)' <=> Intact(g))
  BY <1>5 DEF Intact
<1>7. phase' \in Files \cup {"cell", "done", "stopped"}
  BY <1>1 DEF After, Files
<1>8. TypeOK'
  <2>1. \A g \in Files : files'[g] \in {Absent, Torn} \/ files'[g] \in Result
    BY <1>5
  <2>2. QED
    BY <1>1, <1>2, <1>3, <1>7, <2>1 DEF TypeOK
<1>9. f \in Finals => Len(cells) = Planned
  BY <1>1 DEF MatrixInv, PhaseInv
<1>10. FilesInv'
  <2>1. ASSUME NEW g \in Files, Intact(g)'
        PROVE  /\ files'[g].attempt <= attempt
               /\ files'[g].run_status
                    = (IF g \in Finals THEN "completed" ELSE "in_progress")
               /\ g \in Finals => Len(files'[g].cells) = Planned
    <3>1. CASE g = f
      BY <1>3, <1>5, <1>9, <3>1 DEF Content, Finals
    <3>2. CASE g # f
      BY <1>5, <1>6, <2>1, <3>2 DEF MatrixInv, FilesInv
    <3>3. QED
      BY <3>1, <3>2
  <2>2. QED
    BY <1>1, <1>2, <1>5, <2>1 DEF FilesInv
<1>11. PhaseInv'
  <2>1. CASE f = "partial.json"
    BY <1>1, <2>1 DEF After, MatrixInv, PhaseInv, Finals
  <2>2. CASE f = "partial.md"
    <3>1. phase' = IF Len(cells) = Planned THEN "final.json" ELSE "cell"
      BY <1>1, <2>2 DEF After
    <3>2. QED
      BY <1>1, <1>2, <1>3, <3>1 DEF PhaseInv, Finals
  <2>3. CASE f = "final.json"
    BY <1>1, <1>2, <1>9, <2>3 DEF After, PhaseInv, Finals
  <2>4. CASE f = "final.md"
    BY <1>1, <2>4 DEF After, PhaseInv, Finals
  <2>5. QED
    BY <2>1, <2>2, <2>3, <2>4 DEF Files
<1>12. QED
  BY <1>5, <1>6, <1>8, <1>10, <1>11

\* The first report of a run is an earlier run's or this run's but one cell.
LEMMA WritePreserves ==
  ASSUME MatrixInv, NEW f \in Files, WriteOutput(f)
  PROVE  MatrixInv'
<1>1. /\ phase = f /\ phase' = After(f) /\ UNCHANGED <<matrix, attempt, cells>>
  BY DEF WriteOutput
<1>2. /\ TypeOK' /\ FilesInv' /\ PhaseInv'
      /\ files'[f] = Content(f)
      /\ \A g \in Files : g # f => files'[g] = files[g] /\ (Intact(g)' <=> Intact(g))
  BY WriteKeepsTypes
<1>3. /\ cells \in Seq(Classes) /\ Len(cells) \in Nat /\ attempt \in Nat
      /\ \A g \in Files : Intact(g) => files[g].attempt \in Nat
  BY Typed
<1>4. \A g \in Files : g # f => (Old(g)' <=> Old(g))
  BY <1>1, <1>2 DEF Old
<1>5. CASE f = "partial.json"
  <2>1. /\ cells # << >> /\ Holds("partial.md", ButLast(cells))
        /\ Old("final.json") /\ Old("final.md")
    BY <1>1, <1>5 DEF MatrixInv, PhaseInv, SavedInv
  <2>2. ButLast(cells)' = ButLast(cells)
    BY <1>1 DEF ButLast
  <2>3. Holds("partial.json", cells)'
    BY <1>1, <1>2, <1>5, <2>1 DEF Holds, Content
  <2>4. Holds("partial.md", ButLast(cells))'
    BY <1>1, <1>2, <1>4, <1>5, <2>1, <2>2 DEF Holds, Files
  <2>5. SavedInv'
    BY <1>1, <1>4, <1>5, <2>1, <2>3, <2>4 DEF SavedInv, After, Files
  <2>6. ASSUME Intact("partial.md")
        PROVE  Follows(files'["partial.md"], files'["partial.json"])
    <3>1. /\ files'["partial.json"].attempt = attempt
          /\ files'["partial.json"].cells = cells
      BY <1>2, <1>5 DEF Content
    <3>2. files'["partial.md"] = files["partial.md"]
      BY <1>2, <1>5 DEF Files
    <3>3. CASE ButLast(cells) = << >>
      <4>1. files["partial.md"].attempt < attempt /\ files["partial.md"].attempt \in Nat
        BY <1>3, <2>1, <2>6, <3>3 DEF Holds, Old, Files
      <4>2. QED
        BY <1>3, <3>1, <3>2, <4>1 DEF Follows
    <3>4. CASE ButLast(cells) # << >>
      <4>1. /\ files["partial.md"].attempt = attempt
            /\ files["partial.md"].cells = ButLast(cells)
        BY <2>1, <3>4 DEF Holds
      <4>2. /\ Len(cells) - Len(ButLast(cells)) \in {0, 1}
            /\ ButLast(cells) = SubSeq(cells, 1, Len(ButLast(cells)))
        BY <1>3, <2>1, ButLastIsPrefix
      <4>3. QED
        BY <1>3, <3>1, <3>2, <4>1, <4>2 DEF Follows
    <3>5. QED
      BY <3>3, <3>4
  <2>7. PairsAgree'
    BY <1>2, <1>5, <2>6, BothPairs DEF MatrixInv, Files
  <2>8. QED
    BY <1>2, <2>5, <2>7 DEF MatrixInv
<1>6. CASE f = "partial.md"
  <2>1. /\ cells # << >> /\ Holds("partial.json", cells)
        /\ Old("final.json") /\ Old("final.md")
    BY <1>1, <1>6 DEF MatrixInv, PhaseInv, SavedInv
  <2>2. Holds("partial.json", cells)'
    BY <1>1, <1>2, <1>4, <1>6, <2>1 DEF Holds, Files
  <2>3. Holds("partial.md", cells)'
    BY <1>1, <1>2, <1>6, <2>1 DEF Holds, Content
  <2>4. Old("final.json")' /\ Old("final.md")'
    BY <1>4, <1>6, <2>1 DEF Files
  <2>5. phase' = (IF Len(cells) = Planned THEN "final.json" ELSE "cell")
    BY <1>1, <1>6 DEF After
  <2>6. SavedInv'
    BY <2>2, <2>3, <2>4, <2>5 DEF SavedInv
  <2>7. /\ files'["partial.json"].attempt = attempt /\ files'["partial.md"].attempt = attempt
        /\ files'["partial.json"].cells = cells /\ files'["partial.md"].cells = cells
    BY <1>1, <2>1, <2>2, <2>3 DEF Holds
  <2>8. SubSeq(cells, 1, Len(cells)) = cells /\ Len(cells) - Len(cells) = 0
    BY <1>3
  <2>9. Follows(files'["partial.md"], files'["partial.json"])
    BY <1>3, <2>7, <2>8 DEF Follows
  <2>10. PairsAgree'
    BY <1>2, <1>6, <2>9, BothPairs DEF MatrixInv, Files
  <2>11. QED
    BY <1>2, <2>6, <2>10 DEF MatrixInv
<1>7. CASE f = "final.json"
  <2>1. Old("final.md")
    BY <1>1, <1>7 DEF MatrixInv, SavedInv
  <2>2. Old("final.md")' /\ files'["final.json"] = Content("final.json")'
    BY <1>1, <1>2, <1>4, <1>7, <2>1 DEF Content, Files
  <2>3. SavedInv'
    BY <1>1, <1>7, <2>2 DEF SavedInv, After
  <2>4. Intact("final.md")' => /\ files'["final.md"].attempt < attempt
                               /\ files'["final.md"].attempt \in Nat
                               /\ files'["final.json"].attempt = attempt
    BY <1>1, <1>2, <1>3, <1>7, <2>2 DEF Old, Content, Files
  <2>5. Intact("final.md")' => Follows(files'["final.md"], files'["final.json"])
    BY <1>3, <2>4 DEF Follows
  <2>6. PairsAgree'
    BY <1>2, <1>7, <2>5, BothPairs DEF MatrixInv, Files
  <2>7. QED
    BY <1>2, <2>3, <2>6 DEF MatrixInv
<1>8. CASE f = "final.md"
  <2>1. files["final.json"] = Content("final.json")
    BY <1>1, <1>8 DEF MatrixInv, SavedInv
  <2>2. SavedInv'
    BY <1>1, <1>8 DEF SavedInv, After
  <2>3. /\ files'["final.json"].attempt = attempt /\ files'["final.md"].attempt = attempt
        /\ files'["final.json"].cells = cells /\ files'["final.md"].cells = cells
    BY <1>2, <1>8, <2>1 DEF Content, Files
  <2>4. SubSeq(cells, 1, Len(cells)) = cells /\ Len(cells) - Len(cells) = 0
    BY <1>3
  <2>5. Follows(files'["final.md"], files'["final.json"])
    BY <1>3, <2>3, <2>4 DEF Follows
  <2>6. PairsAgree'
    BY <1>2, <1>8, <2>5, BothPairs DEF MatrixInv, Files
  <2>7. QED
    BY <1>2, <2>2, <2>6 DEF MatrixInv
<1>9. QED
  BY <1>5, <1>6, <1>7, <1>8 DEF Files

LEMMA StepHolds == MatrixInv /\ [Next]_vars => MatrixInv'
<1> SUFFICES ASSUME MatrixInv, [Next]_vars PROVE MatrixInv'
  OBVIOUS
<1>1. CASE UNCHANGED vars
  <2>1. UNCHANGED <<matrix, phase, attempt, cells, files>>
    BY <1>1 DEF vars
  <2>2. UNCHANGED <<MaxAttempts, Planned, Result>>
    BY <2>1, MatrixIsKept
  <2>3. FilesInv' /\ PairsAgree' /\ (\A f : Intact(f)' <=> Intact(f))
    BY <2>1, Typed, FilesUntouched
  <2>4. TypeOK' /\ PhaseInv'
    BY <2>1, <2>2 DEF MatrixInv, TypeOK, PhaseInv
  <2>5. SavedInv'
    BY <2>1, <2>3 DEF MatrixInv, SavedInv, Holds, Old, ButLast, Content
  <2>6. QED
    BY <2>3, <2>4, <2>5 DEF MatrixInv
<1>2. QED
  BY <1>1, RunCellPreserves, WritePreserves, WriteFailsPreserves, StopPreserves,
     RestartPreserves DEF Next

LEMMA MatrixInvHolds == Spec => []MatrixInv
BY InitHolds, StepHolds, PTL DEF Spec

-----------------------------------------------------------------------------
(* What the output files say                                               *)

\* run_live_primary and _async_main: a readable file is marked completed
\* exactly when it is a final one that holds every cell of one run.
THEOREM OnlyWholeRunsAreFinal == Spec => []FinalIsComplete
<1>1. MatrixInv => FinalIsComplete
  BY DEF MatrixInv, FilesInv, FinalIsComplete, Finals
<1>2. QED
  BY <1>1, MatrixInvHolds, PTL

\* The Markdown report is never ahead of its JSON file, whichever of the two
\* writes a run was stopped in and however often it was run again.
THEOREM ReportsFollowResults == Spec => []PairsAgree
<1>1. MatrixInv => PairsAgree
  BY DEF MatrixInv
<1>2. QED
  BY <1>1, MatrixInvHolds, PTL

\* The checkpoint of a run under way has every cell but the one just finished.
THEOREM CheckpointsKeepUp == Spec => []CheckpointIsCurrent
<1>1. MatrixInv => CheckpointIsCurrent
  BY DEF MatrixInv, SavedInv, Holds, CheckpointIsCurrent, Content
<1>2. QED
  BY <1>1, MatrixInvHolds, PTL

\* aggregate_status: for every grid, pass and fail are earned by the cells of
\* the file that says so.
THEOREM VerdictsAreEarned == Spec => []VerdictIsEarned
<1>1. MatrixInv => VerdictIsEarned
  <2> SUFFICES ASSUME MatrixInv PROVE VerdictIsEarned
    OBVIOUS
  <2> SUFFICES ASSUME NEW f \in Files, Intact(f)
               PROVE  LET cs == files[f].cells
                          Has(i, j, class) ==
                            CellAt(i, j) \in DOMAIN cs /\ cs[CellAt(i, j)] = class
                      IN
                      /\ AggregateStatus(cs) = "pass" <=>
                           \A i \in 1 .. FixtureCount : \A j \in DOMAIN FamilyOrder :
                             Has(i, j, "pass")
                      /\ AggregateStatus(cs) = "fail" <=>
                           \E j \in DOMAIN FamilyOrder : \E i1, i2 \in 1 .. FixtureCount :
                             /\ i1 # i2
                             /\ Has(i1, j, "primary_contract_failure")
                             /\ Has(i2, j, "primary_contract_failure")
    BY DEF VerdictIsEarned
  <2> DEFINE cs == files[f].cells
             Has(i, j, class) == CellAt(i, j) \in DOMAIN cs /\ cs[CellAt(i, j)] = class
  <2>1. matrix \in Matrices /\ cs \in Seq(Classes) /\ Len(cs) <= Planned
    BY Typed, InResult
  <2> HIDE DEF cs
  <2>2. /\ AggregateStatus(cs) = "pass" <=>
             \A j \in DOMAIN FamilyOrder :
               FixturesOf(cs, j, "pass") = 1 .. FixtureCount
        /\ AggregateStatus(cs) = "fail" <=>
             \E j \in DOMAIN FamilyOrder :
               \E x, y \in FixturesOf(cs, j, "primary_contract_failure") : x # y
    BY <2>1, AggregateIsEarned
  <2>3. \A j, class : FixturesOf(cs, j, class) = {i \in 1 .. FixtureCount : Has(i, j, class)}
    BY DEF FixturesOf
  <2> HIDE DEF Has
  <2>4. \A j : FixturesOf(cs, j, "pass") = 1 .. FixtureCount <=>
                 \A i \in 1 .. FixtureCount : Has(i, j, "pass")
    BY <2>3
  <2>5. AggregateStatus(cs) = "pass" <=>
          \A i \in 1 .. FixtureCount : \A j \in DOMAIN FamilyOrder : Has(i, j, "pass")
    BY <2>2, <2>4, Zenon
  <2>6. AggregateStatus(cs) = "fail" <=>
          \E j \in DOMAIN FamilyOrder : \E i1, i2 \in 1 .. FixtureCount :
            /\ i1 # i2
            /\ Has(i1, j, "primary_contract_failure")
            /\ Has(i2, j, "primary_contract_failure")
    BY <2>2, <2>3
  <2>7. QED
    BY <2>5, <2>6 DEF Has, cs
<1>2. QED
  BY <1>1, MatrixInvHolds, PTL

\* A pass needs the last cell; a failure stays one.
LEMMA CellKeepsVerdict ==
  ASSUME MatrixInv, NEW class \in Classes, RunCell(class),
         AggregateStatus(cells) # "inconclusive"
  PROVE  AggregateStatus(cells') = AggregateStatus(cells)
<1>1. /\ matrix \in Matrices /\ cells \in Seq(Classes) /\ Len(cells) <= Planned
      /\ Len(cells) \in Nat /\ Planned \in Nat /\ DOMAIN cells = 1 .. Len(cells)
  BY Typed
<1>2. Len(cells) < Planned /\ cells' = Append(cells, class)
  BY DEF RunCell, MatrixInv, PhaseInv
<1>3. /\ cells' \in Seq(Classes) /\ Len(cells') <= Planned
      /\ \A k \in DOMAIN cells : k \in DOMAIN cells' /\ cells'[k] = cells[k]
  BY <1>1, <1>2
<1>4. AggregateStatus(cells) # "pass"
  <2> SUFFICES ASSUME AggregateStatus(cells) = "pass" PROVE FALSE
    OBVIOUS
  <2> DEFINE n == Len(FamilyOrder)
             N == FixtureCount
  <2>1. /\ n \in Nat \ {0} /\ N \in Nat \ {0} /\ DOMAIN FamilyOrder = 1 .. n
        /\ Planned = N * n
    BY <1>1, GridIsTyped
  <2>2. CellAt(N, n) = (N - 1) * n + n
    BY DEF CellAt
  <2>3. FixturesOf(cells, n, "pass") = 1 .. N
    BY <1>1, <2>1, AggregateIsEarned
  <2>4. CellAt(N, n) \in DOMAIN cells
    <3>1. N \in 1 .. N
      BY <2>1
    <3>2. QED
      BY <2>3, <3>1 DEF FixturesOf
  <2> HIDE DEF n, N
  <2>5. (N - 1) * n + n = N * n
    BY <2>1
  <2>6. Planned \in 1 .. Len(cells)
    BY <1>1, <2>1, <2>2, <2>4, <2>5, Zenon
  <2>7. QED
    BY <1>1, <1>2, <2>6
<1>5. AggregateStatus(cells) = "fail"
  BY <1>4 DEF AggregateStatus
<1>6. AggregateStatus(cells') = "fail"
  <2>1. PICK j \in DOMAIN FamilyOrder :
          \E x, y \in FixturesOf(cells, j, "primary_contract_failure") : x # y
    BY <1>1, <1>5, AggregateIsEarned
  <2>2. FixturesOf(cells, j, "primary_contract_failure")
          \subseteq FixturesOf(cells', j, "primary_contract_failure")
    BY <1>3 DEF FixturesOf
  <2>3. \E x, y \in FixturesOf(cells', j, "primary_contract_failure") : x # y
    BY <2>1, <2>2
  <2>4. QED
    BY <1>1, <1>3, <2>3, AggregateIsEarned
<1>7. QED
  BY <1>5, <1>6

\* aggregate_status over the cells so far: once a run's cells decide it, no
\* later cell of the run changes it.
THEOREM DecidedIsDecided == Spec => VerdictIsStable
<1> DEFINE Stable == attempt' = attempt /\ AggregateStatus(cells) # "inconclusive"
                       => AggregateStatus(cells') = AggregateStatus(cells)
<1>1. MatrixInv /\ [Next]_vars => [Stable]_vars
  <2> SUFFICES ASSUME MatrixInv, [Next]_vars PROVE Stable
    OBVIOUS
  <2>1. ASSUME NEW class \in Classes, RunCell(class)
        PROVE  Stable
    BY <2>1, CellKeepsVerdict
  <2>2. ASSUME NEW f \in Files, WriteOutput(f) \/ WriteFails(f)
        PROVE  cells' = cells
    BY <2>2 DEF WriteOutput, WriteFails
  <2>3. CASE Stop
    BY <2>3 DEF Stop
  <2>4. CASE Restart
    <3>1. attempt' = attempt + 1 /\ attempt \in Nat
      BY <2>4, Typed DEF Restart
    <3>2. QED
      BY <3>1
  <2>5. CASE UNCHANGED vars
    BY <2>5 DEF vars
  <2> HIDE DEF Stable
  <2>6. cells' = cells => Stable
    BY DEF Stable
  <2>7. QED
    BY <2>1, <2>2, <2>3, <2>4, <2>5, <2>6 DEF Next
<1>2. QED
  BY <1>1, MatrixInvHolds, PTL DEF Spec, VerdictIsStable

\* The state of the matrix and its files is always as declared.
THEOREM MatrixIsTyped == Spec => []TypeOK
<1>1. MatrixInv => TypeOK
  BY DEF MatrixInv
<1>2. QED
  BY <1>1, MatrixInvHolds, PTL

=============================================================================
