---------------------- MODULE OperationalMemoryProofs ----------------------
(***************************************************************************)
(* What the memory store promises, for any number of runs, families,       *)
(* categories and stores, over any file that was there before.             *)
(***************************************************************************)
EXTENDS OperationalMemory, FiniteSetTheorems, SequenceTheorems, TLAPS

\* What a cell on t writes when the clock stands at c.
Written(t, c) == {r \in Record : /\ Guarded(r)
                                 /\ r.family = t.family /\ r.category = t.category
                                 /\ r.created_at = c + 1}

\* Records are no newer than the clock, and what the runs wrote is addressed.
FileInv ==
  \A r \in Records(file) :
    /\ r.created_at <= clock
    /\ r.created_at > 0 => r.family \in Families /\ r.category \in Categories

ReportedInv == \A r \in reported : Guarded(r) /\ r.created_at <= clock

\* A line that is not terminated is not reported, so it may be lost, and the
\* file has been left that way once more often than records were lost.
LossInv ==
  /\ IsFiniteSet(reported)
  /\ Cardinality(Lost) <= ragged - (IF ended THEN 0 ELSE 1)
  /\ ~ ended => file # << >> /\ file[Len(file)] \notin reported

MemoryInv == TypeOK /\ FileInv /\ ReportedInv /\ LossInv /\ PriorsAreGuarded

-----------------------------------------------------------------------------
(* What is written                                                         *)

\* A filter that rejects nothing is the identity.
LEMMA KeptIsAll ==
  ASSUME NEW S, NEW s \in Seq(S), \A i \in 1 .. Len(s) : Guarded(s[i])
  PROVE  Kept(s) = s
<1> DEFINE K == {i \in DOMAIN s : Guarded(s[i])}
           Nth(n) == CHOOSE i \in K : Cardinality(K \cap 1 .. i) = n
<1>1. Len(s) \in Nat /\ DOMAIN s = 1 .. Len(s) /\ s = [n \in 1 .. Len(s) |-> s[n]]
  OBVIOUS
<1>2. K = 1 .. Len(s)
  BY <1>1
<1>3. ASSUME NEW i \in 1 .. Len(s)
      PROVE  Cardinality(K \cap 1 .. i) = i
  <2>1. K \cap 1 .. i = 1 .. i
    BY <1>1, <1>2
  <2>2. Cardinality(1 .. i) = i
    BY <1>1, FS_Interval
  <2>3. QED
    BY <2>1, <2>2
<1>4. Cardinality(K) = Len(s)
  <2>1. 1 \in Int /\ Len(s) \in Int
    BY <1>1
  <2>2. Cardinality(1 .. Len(s)) = IF 1 > Len(s) THEN 0 ELSE Len(s) - 1 + 1
    BY <2>1, FS_Interval, Zenon
  <2>3. Len(s) = IF 1 > Len(s) THEN 0 ELSE Len(s) - 1 + 1
    BY <1>1
  <2>4. QED
    BY <1>2, <2>2, <2>3, Zenon
<1> HIDE DEF K
<1>5. ASSUME NEW n \in 1 .. Len(s)
      PROVE  Nth(n) = n
  <2>1. n \in K /\ Cardinality(K \cap 1 .. n) = n
    BY <1>2, <1>3
  <2>2. \A i \in K : Cardinality(K \cap 1 .. i) = n => i = n
    BY <1>2, <1>3
  <2>3. QED
    BY <2>1, <2>2
<1>6. Kept(s) = [n \in 1 .. Cardinality(K) |-> s[Nth(n)]]
  BY DEF Kept, K
<1> HIDE DEF Nth
<1>7. QED
  BY <1>1, <1>4, <1>5, <1>6

LEMMA ObservationsAreWritten ==
  ASSUME NEW o \in CellOutcome, NEW t \in Target, clock \in Nat
  PROVE  Observations(o, t) \in Seq(Written(t, clock))
<1> DEFINE W == Written(t, clock)
           Where(condition, kind, task) ==
             IF condition THEN <<Observation(kind, task, t)>> ELSE << >>
           a == Where(~ o.initialAccept, "missing_evidence_handle_seen",
                      "synthesize_parent_answer_from_child_evidence")
           b == Where(o.repairAccept = "yes", "repair_strategy_succeeded",
                      "parent_synthesis_retry")
           c == Where(o.repairAccept = "no", "repair_strategy_failed",
                      "repair_missing_evidence_handle")
           d == Where(o.accepted, "provider_schema_stability",
                      "synthesize_parent_answer_from_child_evidence")
<1>1. ASSUME NEW kind \in Kinds, NEW task \in Tasks
      PROVE  Observation(kind, task, t) \in W
  <2>1. kind # Unlisted
    BY StoreAssumption
  <2>2. QED
    BY <2>1 DEF Observation, Written, Guarded, Record, Target
<1>2. ASSUME NEW condition, NEW kind \in Kinds, NEW task \in Tasks
      PROVE  Where(condition, kind, task) \in Seq(W)
  BY <1>1
<1> HIDE DEF W, Where
<1>3. a \in Seq(W) /\ b \in Seq(W) /\ c \in Seq(W) /\ d \in Seq(W)
  BY <1>2 DEF Kinds, Tasks
<1>4. Observations(o, t) = a \o b \o c \o d
  BY DEF Observations, Where
<1> HIDE DEF a, b, c, d
<1>5. QED
  BY <1>3, <1>4 DEF W

-----------------------------------------------------------------------------
(* The file after a write                                                  *)

\* Written lines continue an unterminated line, which is lost with the first
\* of them; nothing else is.
LEMMA ExtendedOnRagged ==
  ASSUME file \in Seq(Line), file # << >>, ~ ended, NEW lines \in Seq(Line), lines # << >>
  PROVE  LET e == Extended(lines)
             n == Len(file)
         IN  /\ n \in Nat \ {0} /\ Len(lines) \in Nat \ {0}
             /\ e \in Seq(Line) /\ Len(e) = n + Len(lines) - 1
             /\ \A i \in 1 .. n - 1 : e[i] = file[i]
             /\ e[n] = Junk
             /\ \A i \in 2 .. Len(lines) : e[n - 1 + i] = lines[i]
<1> DEFINE n == Len(file)
           p == SubSeq(file, 1, n - 1)
           q == Tail(lines)
           e == Extended(lines)
<1>1. /\ n \in Nat \ {0} /\ Len(lines) \in Nat \ {0}
      /\ Junk \in Line
  BY DEF Line
<1>2. /\ p \in Seq(Line) /\ Len(p) = n - 1
      /\ \A i \in 1 .. n - 1 : p[i] = file[i]
  <2>1. \A i \in 1 .. n - 1 : file[i] \in Line
    BY <1>1
  <2>2. /\ SubSeq(file, 1, n - 1) \in Seq(Line)
        /\ Len(SubSeq(file, 1, n - 1)) = IF 1 <= n - 1 THEN n - 1 - 1 + 1 ELSE 0
        /\ \A i \in 1 .. n - 1 - 1 + 1 : SubSeq(file, 1, n - 1)[i] = file[1 + i - 1]
    BY <1>1, <2>1, SubSeqProperties
  <2>3. /\ n - 1 = IF 1 <= n - 1 THEN n - 1 - 1 + 1 ELSE 0
        /\ \A i \in 1 .. n - 1 : i \in 1 .. n - 1 - 1 + 1 /\ 1 + i - 1 = i
    <3>1. \A m \in Nat \ {0} : /\ m - 1 = IF 1 <= m - 1 THEN m - 1 - 1 + 1 ELSE 0
                               /\ \A i \in 1 .. m - 1 : i \in 1 .. m - 1 - 1 + 1 /\ 1 + i - 1 = i
      OBVIOUS
    <3>2. QED
      BY <1>1, <3>1, Zenon
  <2>4. \A i \in 1 .. n - 1 : SubSeq(file, 1, n - 1)[i] = file[i]
    BY <2>2, <2>3, Zenon
  <2>5. Len(SubSeq(file, 1, n - 1)) = n - 1
    BY <2>2, <2>3
  <2>6. QED
    BY <2>2, <2>4, <2>5
<1>3. /\ q \in Seq(Line) /\ Len(q) = Len(lines) - 1
      /\ \A i \in 1 .. Len(lines) - 1 : q[i] = lines[i + 1]
  BY <1>1
<1>4. e = (p \o <<Junk>>) \o q
  BY DEF Extended
<1> HIDE DEF p, q, e
<1>5. /\ p \o <<Junk>> \in Seq(Line) /\ Len(p \o <<Junk>>) = n
      /\ \A i \in 1 .. n - 1 : (p \o <<Junk>>)[i] = file[i]
      /\ (p \o <<Junk>>)[n] = Junk
  BY <1>1, <1>2
<1> DEFINE h == p \o <<Junk>>
<1> HIDE DEF h
<1>6. /\ e \in Seq(Line) /\ Len(e) = n + Len(lines) - 1
      /\ \A i \in 1 .. n : e[i] = h[i]
      /\ \A i \in 1 .. Len(lines) - 1 : e[n + i] = q[i]
  <2>1. h \in Seq(Line) /\ Len(h) = n /\ e = h \o q
    BY <1>4, <1>5 DEF h
  <2>2. /\ h \o q \in Seq(Line) /\ Len(h \o q) = Len(h) + Len(q)
        /\ \A i \in 1 .. Len(h) : (h \o q)[i] = h[i]
        /\ \A i \in 1 .. Len(q) : (h \o q)[Len(h) + i] = q[i]
    <3>1. h \in Seq(Line) /\ q \in Seq(Line)
      BY <1>3, <2>1, Zenon
    <3>2. QED
      BY <3>1
  <2>3. n + (Len(lines) - 1) = n + Len(lines) - 1
    BY <1>1
  <2>4. Len(e) = n + Len(lines) - 1
    BY <1>3, <2>1, <2>2, <2>3, Zenon
  <2>5. QED
    BY <1>3, <2>1, <2>2, <2>4, Zenon
<1>7. \A i \in 2 .. Len(lines) : e[n - 1 + i] = lines[i]
  <2>1. \A i \in 2 .. Len(lines) : i - 1 \in 1 .. Len(lines) - 1 /\ n + (i - 1) = n - 1 + i
                                   /\ (i - 1) + 1 = i
    BY <1>1
  <2>2. ASSUME NEW i \in 2 .. Len(lines)
        PROVE  e[n - 1 + i] = lines[i]
    <3>1. q[i - 1] = lines[(i - 1) + 1] /\ e[n + (i - 1)] = q[i - 1]
      BY <1>3, <1>6, <2>1, Zenon
    <3>2. n + (i - 1) = n - 1 + i /\ (i - 1) + 1 = i
      BY <2>1
    <3>3. QED
      BY <3>1, <3>2, Zenon
  <2>3. QED
    BY <2>2
<1>8. QED
  BY <1>1, <1>5, <1>6, <1>7 DEF h, e

LEMMA ExtendedOnTerminated ==
  ASSUME file \in Seq(Line), NEW lines \in Seq(Line), ended \/ lines = << >>
  PROVE  LET e == Extended(lines)
             n == Len(file)
         IN  /\ n \in Nat /\ Len(lines) \in Nat
             /\ e \in Seq(Line) /\ Len(e) = n + Len(lines)
             /\ \A i \in 1 .. n : e[i] = file[i]
             /\ \A i \in 1 .. Len(lines) : e[n + i] = lines[i]
             /\ lines = << >> => e = file
<1>1. Extended(lines) = file \o lines
  BY DEF Extended
<1>2. QED
  BY <1>1

LEMMA InRecords ==
  \A s : \A r : r \in Records(s) <=> r # Junk /\ \E i \in DOMAIN s : s[i] = r
BY DEF Records

LEMMA ExtendedFile ==
  ASSUME file \in Seq(Line), ended \in BOOLEAN, ~ ended => file # << >>,
         NEW lines \in Seq(Line)
  PROVE  LET e == Extended(lines)
             whole == ended \/ lines = << >>
         IN  /\ e \in Seq(Line)
             /\ Len(e) >= Len(file)
             /\ \A i \in DOMAIN file : (i < Len(file) \/ ended) => e[i] = file[i]
             /\ Records(e) \subseteq Records(file) \cup Records(lines)
             /\ \A r \in Records(file) : whole \/ r # file[Len(file)] => r \in Records(e)
             /\ \A r \in Records(lines) : whole \/ r # lines[1] => r \in Records(e)
             /\ lines # << >> => e # << >> /\ e[Len(e)] \in {Junk, lines[Len(lines)]}
             /\ lines = << >> => e = file
<1> DEFINE e == Extended(lines)
           n == Len(file)
<1>1. n \in Nat /\ DOMAIN file = 1 .. n /\ Len(lines) \in Nat /\ DOMAIN lines = 1 .. Len(lines)
  OBVIOUS
<1>2. CASE ended \/ lines = << >>
  <2>1. /\ e \in Seq(Line) /\ Len(e) = n + Len(lines)
        /\ \A i \in 1 .. n : e[i] = file[i]
        /\ \A i \in 1 .. Len(lines) : e[n + i] = lines[i]
        /\ lines = << >> => e = file
    BY <1>2, ExtendedOnTerminated
  <2> HIDE DEF e
  <2>2. DOMAIN e = 1 .. n + Len(lines)
    BY <2>1
  <2>3. \A i \in DOMAIN e : \/ i \in 1 .. n
                            \/ \E j \in 1 .. Len(lines) : i = n + j
    <3>1. \A i \in DOMAIN e : i \in 1 .. n \/ (i - n \in 1 .. Len(lines) /\ i = n + (i - n))
      BY <1>1, <2>2
    <3>2. QED
      BY <3>1
  <2>4. \A i \in 1 .. n : i \in DOMAIN e
    BY <1>1, <2>2
  <2>5. \A i \in 1 .. Len(lines) : n + i \in DOMAIN e
    BY <1>1, <2>2
  <2>6. Records(e) \subseteq Records(file) \cup Records(lines)
    <3>1. \A i \in DOMAIN e : \/ \E j \in DOMAIN file : e[i] = file[j]
                              \/ \E j \in DOMAIN lines : e[i] = lines[j]
      <4> SUFFICES ASSUME NEW i \in DOMAIN e
                   PROVE  \/ \E j \in DOMAIN file : e[i] = file[j]
                          \/ \E j \in DOMAIN lines : e[i] = lines[j]
        OBVIOUS
      <4>1. CASE i \in 1 .. n
        BY <1>1, <2>1, <4>1, Zenon
      <4>2. CASE \E j \in 1 .. Len(lines) : i = n + j
        BY <1>1, <2>1, <4>2, Zenon
      <4>3. QED
        BY <2>3, <4>1, <4>2, Zenon
    <3>2. QED
      BY <3>1, InRecords
  <2>7. \A r \in Records(file) : r \in Records(e)
    BY <1>1, <2>1, <2>4, InRecords
  <2>8. \A r \in Records(lines) : r \in Records(e)
    BY <1>1, <2>1, <2>5, InRecords
  <2>9. lines # << >> => e # << >> /\ e[Len(e)] = lines[Len(lines)]
    BY <1>1, <2>1
  <2>10. QED
    BY <1>1, <2>1, <2>6, <2>7, <2>8, <2>9 DEF e
<1>3. CASE ~ ended /\ lines # << >>
  <2>1. /\ n \in Nat \ {0} /\ Len(lines) \in Nat \ {0}
        /\ e \in Seq(Line) /\ Len(e) = n + Len(lines) - 1
        /\ \A i \in 1 .. n - 1 : e[i] = file[i]
        /\ e[n] = Junk
        /\ \A i \in 2 .. Len(lines) : e[n - 1 + i] = lines[i]
    BY <1>3, ExtendedOnRagged
  <2> HIDE DEF e
  <2>2. DOMAIN e = 1 .. n + Len(lines) - 1
    BY <2>1
  <2>3. \A i \in DOMAIN e : \/ i \in 1 .. n - 1 \/ i = n
                            \/ \E j \in 2 .. Len(lines) : i = n - 1 + j
    <3>1. \A i \in DOMAIN e : \/ i \in 1 .. n - 1 \/ i = n
                              \/ (i - n + 1 \in 2 .. Len(lines) /\ i = n - 1 + (i - n + 1))
      BY <2>1, <2>2
    <3>2. QED
      BY <3>1
  <2>4. \A i \in 1 .. n - 1 : i \in DOMAIN e /\ i \in 1 .. n
    BY <2>1, <2>2
  <2>5. \A i \in 2 .. Len(lines) : n - 1 + i \in DOMAIN e /\ i \in 1 .. Len(lines)
    BY <2>1, <2>2
  <2>6. Records(e) \subseteq Records(file) \cup Records(lines)
    <3>1. \A i \in DOMAIN e : \/ e[i] = Junk
                              \/ \E j \in DOMAIN file : e[i] = file[j]
                              \/ \E j \in DOMAIN lines : e[i] = lines[j]
      <4> SUFFICES ASSUME NEW i \in DOMAIN e
                   PROVE  \/ e[i] = Junk
                          \/ \E j \in DOMAIN file : e[i] = file[j]
                          \/ \E j \in DOMAIN lines : e[i] = lines[j]
        OBVIOUS
      <4>1. CASE i \in 1 .. n - 1
        BY <1>1, <2>1, <2>4, <4>1, Zenon
      <4>2. CASE i = n
        BY <2>1, <4>2, Zenon
      <4>3. CASE \E j \in 2 .. Len(lines) : i = n - 1 + j
        BY <1>1, <2>1, <2>5, <4>3, Zenon
      <4>4. QED
        BY <2>3, <4>1, <4>2, <4>3, Zenon
    <3>2. QED
      BY <3>1, InRecords
  <2>7. \A r \in Records(file) : r # file[n] => r \in Records(e)
    <3>1. \A i \in 1 .. n : i \in 1 .. n - 1 \/ i = n
      BY <2>1
    <3>2. \A i \in DOMAIN file : file[i] = file[n] \/ (i \in DOMAIN e /\ e[i] = file[i])
      BY <1>1, <2>1, <2>4, <3>1
    <3>3. SUFFICES ASSUME NEW r \in Records(file), r # file[n]
                   PROVE  r \in Records(e)
      OBVIOUS
    <3>4. PICK i \in DOMAIN file : file[i] = r /\ r # Junk
      BY InRecords
    <3>5. QED
      BY <3>2, <3>3, <3>4, InRecords
  <2>8. \A r \in Records(lines) : r # lines[1] => r \in Records(e)
    <3>1. \A i \in 1 .. Len(lines) : i \in 2 .. Len(lines) \/ i = 1
      BY <2>1
    <3>2. QED
      BY <1>1, <2>1, <2>5, <3>1, InRecords
  <2>9. e # << >> /\ e[Len(e)] \in {Junk, lines[Len(lines)]}
    <3>1. CASE Len(lines) = 1
      BY <2>1, <3>1
    <3>2. CASE Len(lines) # 1
      BY <2>1, <3>2
    <3>3. QED
      BY <3>1, <3>2
  <2>10. QED
    BY <1>1, <1>3, <2>1, <2>4, <2>6, <2>7, <2>8, <2>9 DEF e
<1>4. QED
  BY <1>2, <1>3

LEMMA RecordsAreFinite ==
  ASSUME NEW S, NEW s \in Seq(S)
  PROVE  IsFiniteSet(Records(s))
<1> DEFINE T == {s[i] : i \in DOMAIN s}
<1>1. Len(s) \in Nat /\ DOMAIN s = 1 .. Len(s)
  OBVIOUS
<1>2. s \in [1 .. Len(s) -> T] /\ \A x \in T : \E i \in 1 .. Len(s) : s[i] = x
  BY <1>1
<1>3. s \in Surjection(1 .. Len(s), T)
  BY <1>2 DEF Surjection
<1>4. IsFiniteSet(1 .. Len(s))
  BY <1>1, FS_Interval
<1>5. IsFiniteSet(T)
  BY <1>3, <1>4, FS_Surjection
<1>6. Records(s) \in SUBSET T
  BY DEF Records
<1> HIDE DEF T
<1>7. QED
  BY <1>5, <1>6, FS_Subset

LEMMA StoredIsWritten ==
  ASSUME MemoryInv, NEW run \in Runs, NEW o \in CellOutcome
  PROVE  /\ target[run] \in Target
         /\ Stored(run, o) \in Seq(Written(target[run], clock))
<1>1. target[run] \in Target /\ clock \in Nat
  BY StoreAssumption DEF MemoryInv, TypeOK
<1>2. Observations(o, target[run]) \in Seq(Written(target[run], clock))
  BY <1>1, ObservationsAreWritten
<1> DEFINE s == Observations(o, target[run])
<1> HIDE DEF s
<1>3. s \in Seq(Written(target[run], clock))
  BY <1>2 DEF s
<1>4. \A i \in 1 .. Len(s) : Guarded(s[i])
  <2>1. \A i \in 1 .. Len(s) : s[i] \in Written(target[run], clock)
    BY <1>3
  <2>2. QED
    BY <2>1 DEF Written
<1>5. Kept(s) = s
  BY <1>3, <1>4, KeptIsAll
<1>6. QED
  BY <1>1, <1>3, <1>5 DEF Stored, s

\* What any write does to the file, whole, cut or stopped.
LEMMA WriteKeeps ==
  ASSUME MemoryInv, NEW t \in Target, clock < MaxStores,
         NEW lines \in Seq(Written(t, clock) \cup {Junk}),
         file' = Extended(lines), clock' = clock + 1, UNCHANGED <<target, priors>>
  PROVE  /\ file' \in Seq(Line) /\ clock' \in 0 .. MaxStores
         /\ FileInv' /\ PriorsAreGuarded'
         /\ \A r \in reported \ Lost : r \in Records(file')
         /\ \A r \in Records(lines) :
              ended \/ lines = << >> \/ r # lines[1] => r \in Records(file')
         /\ lines # << >> => file' # << >> /\ file'[Len(file')] \in {Junk, lines[Len(lines)]}
         /\ lines = << >> => file' = file
<1>1. /\ file \in Seq(Line) /\ ended \in BOOLEAN /\ (~ ended => file # << >>)
      /\ clock \in 0 .. MaxStores /\ MaxStores \in Nat
  BY StoreAssumption DEF MemoryInv, TypeOK, LossInv
<1>2. lines \in Seq(Line)
  <2>1. Written(t, clock) \cup {Junk} \subseteq Line
    BY DEF Written, Line
  <2>2. QED
    BY <2>1
<1>3. /\ file' \in Seq(Line)
      /\ Records(file') \subseteq Records(file) \cup Records(lines)
      /\ \A r \in Records(file) :
           ended \/ lines = << >> \/ r # file[Len(file)] => r \in Records(file')
      /\ \A r \in Records(lines) :
           ended \/ lines = << >> \/ r # lines[1] => r \in Records(file')
      /\ lines # << >> => file' # << >> /\ file'[Len(file')] \in {Junk, lines[Len(lines)]}
      /\ lines = << >> => file' = file
  BY <1>1, <1>2, ExtendedFile
<1>4. Records(lines) \subseteq Written(t, clock)
  <2>1. \A i \in DOMAIN lines : lines[i] \in Written(t, clock) \cup {Junk}
    OBVIOUS
  <2>2. QED
    BY <2>1, InRecords
<1>5. FileInv'
  <2>1. ASSUME NEW r \in Records(file')
        PROVE  /\ r.created_at <= clock'
               /\ r.created_at > 0 => r.family \in Families /\ r.category \in Categories
    <3>1. CASE r \in Records(file)
      <4>1. r \in Record
        BY <1>1, <3>1, InRecords DEF Line
      <4>2. r.created_at \in Int
        BY <4>1 DEF Record
      <4>3. QED
        BY <1>1, <3>1, <4>2 DEF MemoryInv, FileInv
    <3>2. CASE r \in Written(t, clock)
      BY <1>1, <3>2 DEF Written, Target
    <3>3. QED
      BY <1>3, <1>4, <2>1, <3>1, <3>2
  <2>2. QED
    BY <2>1 DEF FileInv
<1>6. \A r \in reported \ Lost : r \in Records(file')
  <2>1. \A r \in reported \ Lost : r \in Records(file) /\ r \in reported
    BY DEF Lost
  <2>2. ~ ended => file[Len(file)] \notin reported
    BY DEF MemoryInv, LossInv
  <2>3. QED
    BY <1>3, <2>1, <2>2
<1>7. PriorsAreGuarded'
  BY DEF MemoryInv, PriorsAreGuarded
<1>8. QED
  BY <1>1, <1>3, <1>5, <1>6, <1>7

-----------------------------------------------------------------------------
(* What is lost                                                            *)

LEMMA CountLost ==
  ASSUME IsFiniteSet(reported)
  PROVE  /\ Cardinality(Lost) \in Nat
         /\ \A L \in SUBSET Lost : /\ Cardinality(L) \in Nat
                                   /\ Cardinality(L) <= Cardinality(Lost)
         /\ \A x : \A L \in SUBSET (Lost \cup {x}) : /\ Cardinality(L) \in Nat
                                                     /\ Cardinality(L) <= Cardinality(Lost) + 1
<1>1. IsFiniteSet(Lost)
  BY FS_Subset DEF Lost
<1>2. Cardinality(Lost) \in Nat
  BY <1>1, FS_CardinalityType
<1>3. ASSUME NEW L \in SUBSET Lost
      PROVE  Cardinality(L) \in Nat /\ Cardinality(L) <= Cardinality(Lost)
  BY <1>1, FS_Subset, FS_CardinalityType
<1>4. ASSUME NEW x, NEW L \in SUBSET (Lost \cup {x})
      PROVE  Cardinality(L) \in Nat /\ Cardinality(L) <= Cardinality(Lost) + 1
  <2>1. /\ IsFiniteSet(Lost \cup {x})
        /\ \/ Cardinality(Lost \cup {x}) = Cardinality(Lost)
           \/ Cardinality(Lost \cup {x}) = Cardinality(Lost) + 1
    BY <1>1, FS_AddElement
  <2>2. /\ IsFiniteSet(L)
        /\ Cardinality(L) <= Cardinality(Lost \cup {x})
    BY <2>1, FS_Subset
  <2>3. Cardinality(L) \in Nat
    BY <2>2, FS_CardinalityType
  <2>4. QED
    BY <1>2, <2>1, <2>2, <2>3
<1>5. QED
  BY <1>2, <1>3, <1>4

-----------------------------------------------------------------------------
(* The steps                                                               *)

\* A whole write may lose its first record, to a line that was not
\* terminated; the file is terminated after it.
LEMMA StorePreserves ==
  ASSUME MemoryInv, NEW run \in Runs, NEW o \in CellOutcome, Store(run, o)
  PROVE  MemoryInv'
<1> DEFINE t == target[run]
           lines == Stored(run, o)
<1>1. t \in Target /\ lines \in Seq(Written(t, clock))
  BY StoredIsWritten
<1> HIDE DEF t, lines
<1>2. /\ clock < MaxStores /\ clock' = clock + 1 /\ file' = Extended(lines)
      /\ ended' = (ended \/ lines # << >>)
      /\ reported' = reported \cup Records(lines)
      /\ busy' = busy \ {run} /\ UNCHANGED <<target, priors, ragged>>
  BY DEF Store, lines
<1>3. lines \in Seq(Written(t, clock) \cup {Junk})
  BY <1>1
<1>4. /\ file' \in Seq(Line) /\ clock' \in 0 .. MaxStores
      /\ FileInv' /\ PriorsAreGuarded'
      /\ \A r \in reported \ Lost : r \in Records(file')
      /\ \A r \in Records(lines) :
           ended \/ lines = << >> \/ r # lines[1] => r \in Records(file')
      /\ lines = << >> => file' = file
  BY <1>1, <1>2, <1>3, WriteKeeps
<1>5. Records(lines) \subseteq Written(t, clock)
  <2>1. \A i \in DOMAIN lines : lines[i] \in Written(t, clock)
    BY <1>1
  <2>2. QED
    BY <2>1, InRecords
<1>6. /\ clock \in Nat /\ ragged \in Nat /\ ended \in BOOLEAN
      /\ reported \subseteq Record /\ busy \subseteq Runs
      /\ target \in [Runs -> Target] /\ priors \in [Runs -> SUBSET Record]
      /\ IsFiniteSet(reported)
      /\ Cardinality(Lost) <= ragged - (IF ended THEN 0 ELSE 1)
      /\ ~ ended => file # << >> /\ file[Len(file)] \notin reported
  BY StoreAssumption DEF MemoryInv, TypeOK, LossInv
<1>7. TypeOK'
  <2>1. Written(t, clock) \subseteq Record
    BY DEF Written
  <2>2. QED
    BY <1>2, <1>4, <1>5, <1>6, <2>1 DEF TypeOK
<1>8. ReportedInv'
  <2>1. ASSUME NEW r \in reported'
        PROVE  Guarded(r) /\ r.created_at <= clock'
    <3>1. CASE r \in reported
      <4>1. r.created_at \in Int
        BY <1>6, <3>1 DEF Record
      <4>2. Guarded(r) /\ r.created_at <= clock
        BY <3>1 DEF MemoryInv, ReportedInv
      <4>3. QED
        BY <1>2, <1>6, <4>1, <4>2
    <3>2. CASE r \in Written(t, clock)
      BY <1>2, <1>6, <3>2 DEF Written
    <3>3. QED
      BY <1>2, <1>5, <2>1, <3>1, <3>2
  <2>2. QED
    BY <2>1 DEF ReportedInv
<1>9. IsFiniteSet(reported')
  <2>1. IsFiniteSet(Records(lines))
    BY <1>1, RecordsAreFinite
  <2>2. QED
    BY <1>2, <1>6, <2>1, FS_Union
<1>10. \A r \in Lost' : r \in Lost \/ (~ ended /\ lines # << >> /\ r = lines[1])
  <2>1. \A r \in Lost' : r \in reported \cup Records(lines) /\ r \notin Records(file')
    BY <1>2 DEF Lost
  <2>2. \A r \in reported : r \notin Records(file') => r \in Lost
    BY <1>4
  <2>3. QED
    BY <1>4, <2>1, <2>2
<1>11. LossInv'
  <2>1. CASE ended
    <3>1. Lost' \in SUBSET Lost
      BY <1>10, <2>1
    <3>2. Cardinality(Lost') \in Nat /\ Cardinality(Lost') <= Cardinality(Lost)
      BY <1>6, <3>1, CountLost
    <3>3. ended' = TRUE /\ ragged' = ragged
      BY <1>2, <2>1
    <3>4. Cardinality(Lost) \in Nat /\ Cardinality(Lost) <= ragged
      BY <1>6, <2>1, CountLost
    <3>5. QED
      BY <1>6, <1>9, <3>2, <3>3, <3>4 DEF LossInv
  <2>2. CASE lines = << >>
    <3>1. Records(lines) = {}
      BY <2>2 DEF Records
    <3>2. reported' = reported /\ file' = file /\ ended' = ended /\ ragged' = ragged
      BY <1>2, <1>4, <1>6, <2>2, <3>1
    <3>3. Lost' = Lost
      BY <3>2 DEF Lost
    <3>4. QED
      BY <1>6, <3>2, <3>3 DEF LossInv
  <2>3. CASE ~ ended /\ lines # << >>
    <3>1. Lost' \in SUBSET (Lost \cup {lines[1]})
      BY <1>10
    <3>2. Cardinality(Lost') \in Nat /\ Cardinality(Lost') <= Cardinality(Lost) + 1
      BY <1>6, <3>1, CountLost
    <3>3. ended' = TRUE /\ ragged' = ragged
      BY <1>2, <2>3
    <3>4. Cardinality(Lost) \in Nat /\ Cardinality(Lost) <= ragged - 1
      BY <1>6, <2>3, CountLost
    <3>5. QED
      BY <1>6, <1>9, <3>2, <3>3, <3>4 DEF LossInv
  <2>4. QED
    BY <2>1, <2>2, <2>3
<1>12. QED
  BY <1>4, <1>7, <1>8, <1>11 DEF MemoryInv

\* A write that reports nothing leaves every reported record where it was;
\* the file is terminated, or left once more without its newline, or as it was.
LEMMA UnreportedPreserves ==
  ASSUME MemoryInv, NEW t \in Target, clock < MaxStores,
         NEW lines \in Seq(Written(t, clock) \cup {Junk}),
         file' = Extended(lines), clock' = clock + 1, NEW run, busy' = busy \ {run},
         UNCHANGED <<target, priors, reported>>,
         \/ ended' = FALSE /\ ragged' = ragged + 1 /\ lines # << >>
         \/ ended' = (ended \/ lines # << >>) /\ ragged' = ragged
  PROVE  MemoryInv'
<1>1. /\ file' \in Seq(Line) /\ clock' \in 0 .. MaxStores
      /\ FileInv' /\ PriorsAreGuarded'
      /\ \A r \in reported \ Lost : r \in Records(file')
      /\ lines # << >> => file' # << >> /\ file'[Len(file')] \in {Junk, lines[Len(lines)]}
      /\ lines = << >> => file' = file
  BY WriteKeeps
<1>2. /\ clock \in Nat /\ ragged \in Nat /\ ended \in BOOLEAN
      /\ reported \subseteq Record /\ busy \subseteq Runs
      /\ target \in [Runs -> Target] /\ priors \in [Runs -> SUBSET Record]
      /\ IsFiniteSet(reported)
      /\ Cardinality(Lost) <= ragged - (IF ended THEN 0 ELSE 1)
      /\ ~ ended => file # << >> /\ file[Len(file)] \notin reported
  BY StoreAssumption DEF MemoryInv, TypeOK, LossInv
<1>3. TypeOK'
  <2>1. ended' \in BOOLEAN
    BY Zenon
  <2>2. ragged' \in Nat
    BY <1>2
  <2>3. QED
    BY <1>1, <1>2, <2>1, <2>2 DEF TypeOK
<1>4. \A r \in reported : r.created_at \in Int /\ Guarded(r) /\ r.created_at <= clock
  BY <1>2 DEF MemoryInv, ReportedInv, Record
<1>5. ReportedInv'
  BY <1>2, <1>4 DEF ReportedInv
<1>6. Lost' \in SUBSET Lost
  BY <1>1 DEF Lost
<1>7. /\ Cardinality(Lost') \in Nat /\ Cardinality(Lost) \in Nat
      /\ Cardinality(Lost') <= Cardinality(Lost)
  BY <1>2, <1>6, CountLost
<1>8. lines # << >> => file'[Len(file')] \notin reported
  <2>1. Junk \notin reported
    BY <1>2, StoreAssumption
  <2>2. lines # << >> => lines[Len(lines)] \in Written(t, clock) \cup {Junk}
    OBVIOUS
  <2>3. \A r \in Written(t, clock) : r \notin reported
    BY <1>2, <1>4 DEF Written
  <2>4. QED
    BY <1>1, <2>1, <2>2, <2>3
<1>9. LossInv'
  <2>1. CASE ended' = FALSE /\ ragged' = ragged + 1 /\ lines # << >>
    BY <1>1, <1>2, <1>7, <1>8, <2>1 DEF LossInv
  <2>2. CASE ended' = (ended \/ lines # << >>) /\ ragged' = ragged /\ lines # << >>
    <3>1. ended' = TRUE
      BY <2>2, Zenon
    <3>2. Cardinality(Lost) <= ragged
      BY <1>2, <1>7
    <3>3. QED
      BY <1>2, <1>7, <2>2, <3>1, <3>2 DEF LossInv
  <2>3. CASE ended' = (ended \/ lines # << >>) /\ ragged' = ragged /\ lines = << >>
    <3>1. ended' = ended /\ file' = file
      BY <1>1, <1>2, <2>3
    <3>2. Lost' = Lost
      BY <3>1 DEF Lost
    <3>3. QED
      BY <1>2, <2>3, <3>1, <3>2 DEF LossInv
  <2>4. QED
    BY <2>1, <2>2, <2>3
<1>10. QED
  BY <1>1, <1>3, <1>5, <1>9 DEF MemoryInv

LEMMA StoreCutPreserves ==
  ASSUME MemoryInv, NEW run \in Runs, NEW o \in CellOutcome, NEW n \in 0 .. 2,
         NEW partial \in BOOLEAN, StoreCut(run, o, n, partial)
  PROVE  MemoryInv'
<1> DEFINE W == Written(target[run], clock) \cup {Junk}
           records == Stored(run, o)
           last == IF partial THEN Junk ELSE records[n + 1]
           lines == SubSeq(records, 1, n) \o <<last>>
<1>1. target[run] \in Target /\ records \in Seq(Written(target[run], clock))
  BY StoredIsWritten
<1>2. /\ clock < MaxStores /\ clock' = clock + 1 /\ file' = Extended(lines)
      /\ n < Len(records) /\ ended' = FALSE /\ ragged' = ragged + 1
      /\ busy' = busy \ {run} /\ UNCHANGED <<target, priors, reported>>
  BY DEF StoreCut
<1>3. records \in Seq(W)
  BY <1>1
<1> HIDE DEF W, records
<1>4. Junk \in W
  BY DEF W
<1>5. SubSeq(records, 1, n) \in Seq(W)
  <2>1. \A i \in 1 .. n : records[i] \in W
    BY <1>2, <1>3
  <2>2. QED
    BY <2>1, SubSeqProperties
<1>6. last \in W
  BY <1>2, <1>3, <1>4
<1> HIDE DEF last
<1>7. lines \in Seq(W) /\ lines # << >>
  BY <1>5, <1>6
<1> HIDE DEF lines
<1>8. QED
  BY <1>1, <1>2, <1>7, UnreportedPreserves DEF W

LEMMA StoreStopsPreserves ==
  ASSUME MemoryInv, NEW run \in Runs, NEW o \in CellOutcome, NEW n \in 0 .. 2,
         StoreStops(run, o, n)
  PROVE  MemoryInv'
<1> DEFINE W == Written(target[run], clock) \cup {Junk}
           records == Stored(run, o)
           lines == SubSeq(records, 1, n)
<1>1. target[run] \in Target /\ records \in Seq(Written(target[run], clock))
  BY StoredIsWritten
<1>2. /\ clock < MaxStores /\ clock' = clock + 1 /\ file' = Extended(lines)
      /\ n < Len(records) /\ ended' = (ended \/ lines # << >>) /\ ragged' = ragged
      /\ busy' = busy \ {run} /\ UNCHANGED <<target, priors, reported>>
  BY DEF StoreStops
<1>3. records \in Seq(W)
  BY <1>1
<1> HIDE DEF W, records
<1>4. lines \in Seq(W)
  <2>1. \A i \in 1 .. n : records[i] \in W
    BY <1>2, <1>3
  <2>2. QED
    BY <2>1, SubSeqProperties
<1> HIDE DEF lines
<1>5. QED
  BY <1>1, <1>2, <1>4, UnreportedPreserves DEF W

\* A cell's snapshot is taken from the file, which the runs have addressed.
LEMMA RecallPreserves ==
  ASSUME MemoryInv, NEW run \in Runs, NEW t \in Target, Recall(run, t) \/ RecallFails(run, t)
  PROVE  MemoryInv'
<1> DEFINE offered == {r \in Records(file) : Offered(r, t)}
<1>1. /\ busy' \in SUBSET (busy \cup {run})
      /\ target' = [target EXCEPT ![run] = t]
      /\ \/ priors' = [priors EXCEPT ![run] = offered]
         \/ priors' = [priors EXCEPT ![run] = {}]
      /\ UNCHANGED <<file, ended, clock, reported, ragged>>
  BY DEF Recall, RecallFails
<1>2. /\ file \in Seq(Line) /\ busy \subseteq Runs
      /\ target \in [Runs -> Target] /\ priors \in [Runs -> SUBSET Record]
  BY DEF MemoryInv, TypeOK
<1>3. Records(file) \subseteq Record
  BY <1>2 DEF Records, Line
<1>4. ASSUME NEW r \in offered
      PROVE  /\ r.kind \in Kinds /\ r.text = "plain" /\ ~ r.extra
             /\ r.family \in {Anything, t.family}
             /\ r.category \in {Anything, t.category}
             /\ r.created_at > 0 => /\ r.family = t.family /\ r.category = t.category
                                    /\ r.task \in PromptTasks
  <2>1. r \in Record /\ Offered(r, t) /\ r \in Records(file)
    BY <1>3
  <2>2. r.created_at > 0 => r.family \in Families /\ r.category \in Categories
    BY <2>1 DEF MemoryInv, FileInv
  <2>3. Anything \notin Families /\ Anything \notin Categories
    BY StoreAssumption
  <2>4. QED
    BY <2>1, <2>2, <2>3 DEF Offered, Guarded, Record
<1> HIDE DEF offered
<1>5. offered \subseteq Record
  BY <1>3 DEF offered
<1>6. TypeOK'
  BY <1>1, <1>2, <1>5 DEF MemoryInv, TypeOK
<1>7. PriorsAreGuarded'
  <2>1. ASSUME NEW other \in Runs, NEW r \in priors'[other]
        PROVE  /\ r.kind \in Kinds /\ r.text = "plain" /\ ~ r.extra
               /\ r.family \in {Anything, target'[other].family}
               /\ r.category \in {Anything, target'[other].category}
               /\ r.created_at > 0 => /\ r.family = target'[other].family
                                      /\ r.category = target'[other].category
                                      /\ r.task \in PromptTasks
    <3>1. CASE other = run
      <4>1. target'[other] = t /\ r \in offered
        BY <1>1, <1>2, <2>1, <3>1
      <4>2. QED
        BY <1>4, <4>1
    <3>2. CASE other # run
      <4>1. target'[other] = target[other] /\ r \in priors[other]
        BY <1>1, <1>2, <2>1, <3>2
      <4>2. QED
        BY <4>1 DEF MemoryInv, PriorsAreGuarded
    <3>3. QED
      BY <3>1, <3>2
  <2>2. QED
    BY <2>1 DEF PriorsAreGuarded
<1>8. FileInv' /\ ReportedInv' /\ LossInv'
  <2>1. Lost' = Lost
    BY <1>1 DEF Lost
  <2>2. QED
    BY <1>1, <2>1 DEF MemoryInv, FileInv, ReportedInv, LossInv
<1>9. QED
  BY <1>6, <1>7, <1>8 DEF MemoryInv

LEMMA StutterPreserves ==
  ASSUME MemoryInv, busy' \in SUBSET busy,
         UNCHANGED <<file, ended, target, priors, clock, reported, ragged>>
  PROVE  MemoryInv'
<1>1. Lost' = Lost
  BY DEF Lost
<1>2. QED
  BY <1>1 DEF MemoryInv, TypeOK, FileInv, ReportedInv, LossInv, PriorsAreGuarded

LEMMA InitHolds == Init => MemoryInv
<1> SUFFICES ASSUME Init PROVE MemoryInv
  OBVIOUS
<1>1. PICK s \in Seeds : file = s.lines /\ ended = s.ended
  BY DEF Init
<1>2. /\ s.lines \in Seq(Line) /\ s.ended \in BOOLEAN
      /\ s.lines = << >> => s.ended
      /\ \A i \in DOMAIN s.lines : s.lines[i] # Junk => s.lines[i].created_at <= 0
  BY <1>1, StoreAssumption
<1>3. TypeOK
  BY <1>1, <1>2, StoreAssumption DEF Init, TypeOK
<1>4. FileInv
  <2>1. ASSUME NEW r \in Records(file)
        PROVE  r.created_at \in Int /\ r.created_at <= 0
    <3>1. PICK i \in DOMAIN file : file[i] = r /\ r # Junk
      BY <2>1, InRecords
    <3>2. r \in Record
      BY <1>1, <1>2, <3>1 DEF Line
    <3>3. QED
      BY <1>1, <1>2, <3>1, <3>2 DEF Record
  <2>2. clock = 0
    BY DEF Init
  <2>3. QED
    BY <2>1, <2>2 DEF FileInv
<1>5. reported = {} /\ Lost = {}
  BY DEF Init, Lost
<1>6. LossInv
  <2>1. IsFiniteSet(reported) /\ Cardinality(Lost) = 0
    BY <1>5, FS_EmptySet
  <2>2. ragged = IF ended THEN 0 ELSE 1
    BY DEF Init
  <2>3. QED
    BY <1>1, <1>2, <1>5, <2>1, <2>2 DEF LossInv
<1>7. PriorsAreGuarded
  BY DEF Init, PriorsAreGuarded
<1>8. QED
  BY <1>3, <1>4, <1>5, <1>6, <1>7 DEF MemoryInv, ReportedInv

LEMMA StepHolds == MemoryInv /\ [Next]_vars => MemoryInv'
<1> SUFFICES ASSUME MemoryInv, [Next]_vars PROVE MemoryInv'
  OBVIOUS
<1>1. ASSUME NEW run \in Runs, NEW t \in Target, Recall(run, t) \/ RecallFails(run, t)
      PROVE  MemoryInv'
  BY <1>1, RecallPreserves
<1>2. ASSUME NEW run \in Runs, NEW o \in CellOutcome, Store(run, o)
      PROVE  MemoryInv'
  BY <1>2, StorePreserves
<1>3. ASSUME NEW run \in Runs, NEW o \in CellOutcome, NEW n \in 0 .. 2,
             NEW partial \in BOOLEAN, StoreCut(run, o, n, partial)
      PROVE  MemoryInv'
  BY <1>3, StoreCutPreserves
<1>4. ASSUME NEW run \in Runs, NEW o \in CellOutcome, NEW n \in 0 .. 2, StoreStops(run, o, n)
      PROVE  MemoryInv'
  BY <1>4, StoreStopsPreserves
<1>5. ASSUME NEW run \in Runs, Leave(run)
      PROVE  MemoryInv'
  BY <1>5, StutterPreserves DEF Leave
<1>6. CASE UNCHANGED vars
  BY <1>6, StutterPreserves DEF vars
<1>7. QED
  BY <1>1, <1>2, <1>3, <1>4, <1>5, <1>6 DEF Next

-----------------------------------------------------------------------------
(* What the store promises                                                 *)

LEMMA MemoryInvHolds == Spec => []MemoryInv
BY InitHolds, StepHolds, PTL DEF Spec

\* The state of the store and of its runs is always as declared.
THEOREM StoreIsTyped == Spec => []TypeOK
<1>1. MemoryInv => TypeOK
  BY DEF MemoryInv
<1>2. QED
  BY <1>1, MemoryInvHolds, PTL

\* _append_records: whatever runs interleave and however their writes end, no
\* more reported records are lost than the file was left without a newline.
THEOREM LossesAreCounted == Spec => []LossIsBounded
<1>1. MemoryInv => LossIsBounded
  <2> SUFFICES ASSUME MemoryInv PROVE LossIsBounded
    OBVIOUS
  <2>1. Cardinality(Lost) \in Nat
    BY CountLost DEF MemoryInv, LossInv
  <2>2. QED
    BY <2>1 DEF MemoryInv, TypeOK, LossInv, LossIsBounded
<1>2. QED
  BY <1>1, MemoryInvHolds, PTL

\* prior_from_record: whatever the store held and whoever wrote it, a cell's
\* priors passed the guard and are addressed to the cell.
THEOREM PriorsPassTheGuard == Spec => []PriorsAreGuarded
<1>1. MemoryInv => PriorsAreGuarded
  BY DEF MemoryInv
<1>2. QED
  BY <1>1, MemoryInvHolds, PTL

\* The lines of any write, whole, cut or stopped.
LEMMA WritesExtend ==
  ASSUME MemoryInv, NEW run \in Runs, NEW o \in CellOutcome
  PROVE  /\ Store(run, o) => \E lines \in Seq(Line) : file' = Extended(lines)
         /\ \A n \in 0 .. 2 : /\ \A partial \in BOOLEAN :
                                   StoreCut(run, o, n, partial) =>
                                     \E lines \in Seq(Line) : file' = Extended(lines)
                              /\ StoreStops(run, o, n) =>
                                   \E lines \in Seq(Line) : file' = Extended(lines)
<1> DEFINE records == Stored(run, o)
<1>1. records \in Seq(Line) /\ Junk \in Line
  <2>1. records \in Seq(Written(target[run], clock))
    BY StoredIsWritten
  <2>2. Written(target[run], clock) \subseteq Line /\ Junk \in Line
    BY DEF Written, Line
  <2> HIDE DEF records
  <2>3. QED
    BY <2>1, <2>2
<1>2. Store(run, o) => file' = Extended(records)
  BY DEF Store
<1>3. ASSUME NEW n \in 0 .. 2, NEW partial \in BOOLEAN, StoreCut(run, o, n, partial)
      PROVE  \E lines \in Seq(Line) : file' = Extended(lines)
  <2> DEFINE last == IF partial THEN Junk ELSE records[n + 1]
             lines == SubSeq(records, 1, n) \o <<last>>
  <2>1. file' = Extended(lines) /\ n < Len(records)
    BY <1>3 DEF StoreCut
  <2> HIDE DEF records
  <2>2. last \in Line /\ \A i \in 1 .. n : records[i] \in Line
    BY <1>1, <2>1
  <2> HIDE DEF last
  <2>3. SubSeq(records, 1, n) \in Seq(Line)
    BY <2>2, SubSeqProperties
  <2>4. lines \in Seq(Line)
    BY <2>2, <2>3
  <2>5. QED
    BY <2>1, <2>4
<1>4. ASSUME NEW n \in 0 .. 2, StoreStops(run, o, n)
      PROVE  \E lines \in Seq(Line) : file' = Extended(lines)
  <2>1. file' = Extended(SubSeq(records, 1, n)) /\ n < Len(records)
    BY <1>4 DEF StoreStops
  <2> HIDE DEF records
  <2>2. \A i \in 1 .. n : records[i] \in Line
    BY <1>1, <2>1
  <2>3. SubSeq(records, 1, n) \in Seq(Line)
    BY <2>2, SubSeqProperties
  <2>4. QED
    BY <2>1, <2>3
<1> HIDE DEF records
<1>5. QED
  BY <1>1, <1>2, <1>3, <1>4

LEMMA StepExtends ==
  ASSUME MemoryInv, [Next]_vars
  PROVE  UNCHANGED file \/ \E lines \in Seq(Line) : file' = Extended(lines)
<1>1. ASSUME NEW run \in Runs, NEW t \in Target, Recall(run, t) \/ RecallFails(run, t)
      PROVE  UNCHANGED file
  BY <1>1 DEF Recall, RecallFails
<1>2. ASSUME NEW run \in Runs, Leave(run)
      PROVE  UNCHANGED file
  BY <1>2 DEF Leave
<1>3. CASE UNCHANGED vars
  BY <1>3 DEF vars
<1>4. QED
  BY <1>1, <1>2, <1>3, WritesExtend DEF Next

\* _append_records opens the file for appending: no step of any run, cut or
\* not, changes or removes a terminated line.
THEOREM LinesAreKept == Spec => AppendOnly
<1> DEFINE KeepsLines == /\ Len(file') >= Len(file)
                    /\ \A i \in DOMAIN file : (i < Len(file) \/ ended) => file'[i] = file[i]
<1>1. MemoryInv /\ [Next]_vars => [KeepsLines]_vars
  <2> SUFFICES ASSUME MemoryInv, [Next]_vars PROVE KeepsLines
    OBVIOUS
  <2>1. /\ file \in Seq(Line) /\ ended \in BOOLEAN /\ (~ ended => file # << >>)
    BY DEF MemoryInv, TypeOK, LossInv
  <2>2. CASE UNCHANGED file
    BY <2>1, <2>2
  <2>3. ASSUME NEW lines \in Seq(Line), file' = Extended(lines)
        PROVE  KeepsLines
    <3>1. /\ Len(Extended(lines)) >= Len(file)
          /\ \A i \in DOMAIN file :
               (i < Len(file) \/ ended) => Extended(lines)[i] = file[i]
      BY <2>1, ExtendedFile
    <3>2. QED
      BY <2>3, <3>1, Zenon
  <2>4. QED
    BY <2>2, <2>3, StepExtends
<1>2. QED
  BY <1>1, MemoryInvHolds, PTL DEF Spec, AppendOnly

\* retrieve_operational_memory skips what it cannot parse and stops at nothing
\* else: a cell that reads has every record for it that is not lost.
THEOREM NothingIsHidden == Spec => RecallIsComplete
<1> DEFINE Complete ==
             \A run \in Reading :
               run \in busy' \ busy =>
                 \A r \in reported \ Lost :
                   (/\ r.family = target'[run].family
                    /\ r.category = target'[run].category
                    /\ r.task \in PromptTasks) => r \in priors'[run]
<1>1. MemoryInv /\ [Next]_vars => [Complete]_vars
  <2> SUFFICES ASSUME MemoryInv, [Next]_vars PROVE Complete
    OBVIOUS
  <2>1. target \in [Runs -> Target] /\ priors \in [Runs -> SUBSET Record]
    BY DEF MemoryInv, TypeOK
  <2>2. ASSUME NEW caller \in Runs, NEW t \in Target, Recall(caller, t)
        PROVE  Complete
    <3>1. SUFFICES ASSUME NEW run \in Reading, run \in busy' \ busy,
                          NEW r \in reported \ Lost,
                          r.family = target'[run].family,
                          r.category = target'[run].category, r.task \in PromptTasks
                   PROVE  r \in priors'[run]
      OBVIOUS
    <3>2. run = caller
      BY <2>2, <3>1 DEF Recall
    <3>3. target'[run] = t /\ priors'[run] = {x \in Records(file) : Offered(x, t)}
      BY <2>1, <2>2, <3>2 DEF Recall
    <3>4. r \in Records(file) /\ Guarded(r)
      BY DEF MemoryInv, ReportedInv, Lost
    <3>5. Offered(r, t)
      BY <3>1, <3>3, <3>4 DEF Offered
    <3>6. QED
      BY <3>3, <3>4, <3>5
  <2>3. ASSUME NEW caller \in Runs, NEW t \in Target, RecallFails(caller, t)
        PROVE  busy' \ busy = {}
    BY <2>3 DEF RecallFails
  <2>4. ASSUME NEW caller \in Runs, NEW o \in CellOutcome, Store(caller, o)
        PROVE  busy' \ busy = {}
    BY <2>4 DEF Store
  <2>5. ASSUME NEW caller \in Runs, NEW o \in CellOutcome, NEW n \in 0 .. 2,
               NEW partial \in BOOLEAN, StoreCut(caller, o, n, partial)
        PROVE  busy' \ busy = {}
    BY <2>5 DEF StoreCut
  <2>6. ASSUME NEW caller \in Runs, NEW o \in CellOutcome, NEW n \in 0 .. 2,
               StoreStops(caller, o, n)
        PROVE  busy' \ busy = {}
    BY <2>6 DEF StoreStops
  <2>7. ASSUME NEW caller \in Runs, Leave(caller)
        PROVE  busy' \ busy = {}
    BY <2>7 DEF Leave
  <2>8. CASE UNCHANGED vars
    BY <2>8 DEF vars
  <2>9. busy' \ busy = {} => Complete
    OBVIOUS
  <2> HIDE DEF Complete
  <2>10. QED
    BY <2>2, <2>3, <2>4, <2>5, <2>6, <2>7, <2>8, <2>9 DEF Next
<1>2. QED
  BY <1>1, MemoryInvHolds, PTL DEF Spec, RecallIsComplete

=============================================================================
