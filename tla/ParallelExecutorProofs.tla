----------------------- MODULE ParallelExecutorProofs -----------------------
(***************************************************************************)
(* What the parallel executor promises, for every plan, every number of    *)
(* slots, depth of decomposition and number of faults, and every order of  *)
(* calls, failures, saves and interruptions: the checkpoint last saved     *)
(* survives as many cut saves as there are rollback levels, and what it    *)
(* settles is not executed again; no AC runs before what it depends on;    *)
(* and a run that returns has one result for each AC, with successes that  *)
(* are earned.                                                             *)
(***************************************************************************)
EXTENDS ParallelExecutor, ExecutionPlanProofs

-----------------------------------------------------------------------------
(* Where the saved checkpoint is                                           *)

IsValid(fs, i) == fs[i].state = "valid"

\* The saved checkpoint is in level p, and nothing valid is above it.
Holds(fs, c, p) == /\ fs[p] = Store!Valid(c)
                   /\ \A i \in Store!Levels : i < p => ~ IsValid(fs, i)

\* Before the next step of a save, n, the saved checkpoint has either been
\* renamed by it, or is no deeper than saves have been cut since.
Reached(p, n, cut) == IF p <= 3 - n THEN p <= cut ELSE 5 - n <= p /\ p <= cut + 1

\* The target of the next rename is free.
TargetFree(fs, n) == n \in 1 .. 4 => fs[4 - n] = Store!Absent

NothingSaved == saved = NoCheckpoint /\ \A i \in Store!Levels : ~ IsValid(files, i)

FilesInv ==
  /\ files = [i \in Store!Levels |-> files[i]]
  /\ broken \in Nat
  /\ step \in Store!SaveSteps
  /\ pc # "saving" => step = 0
  /\ TargetFree(files, step)
  /\ \/ NothingSaved
     \/ broken > 3
     \/ pc = "saving" /\ broken = 3
     \/ /\ pc # "saving"
        /\ \E p \in Store!Levels : Holds(files, saved, p) /\ p <= broken
     \/ /\ pc = "saving"
        /\ \E p \in Store!Levels : Holds(files, saved, p) /\ Reached(p, step, broken)

\* load returns the checkpoint of the first level that holds one.
LEMMA LoadedIsFirst ==
  ASSUME NEW fs, NEW c, NEW p \in Store!Levels, Holds(fs, c, p)
  PROVE  Store!Loaded(fs) = c
<1> DEFINE valid == {i \in Store!Levels : fs[i].state = "valid"}
<1>1. p \in valid /\ fs[p].data = c
  BY DEF Holds, Store!Valid
<1>2. \A i \in valid : p <= i
  BY DEF Holds, IsValid, Store!Levels, Store!MaxRollbackDepth
<1>3. ASSUME NEW i \in valid, \A j \in valid : i <= j
      PROVE  i = p
  BY <1>1, <1>2, <1>3 DEF Store!Levels, Store!MaxRollbackDepth
<1>4. (CHOOSE i \in valid : \A j \in valid : i <= j) = p
  BY <1>1, <1>2, <1>3
<1>5. QED
  BY <1>1, <1>4 DEF Store!Loaded

LEMMA LoadedOfNothing ==
  ASSUME NEW fs, \A i \in Store!Levels : ~ IsValid(fs, i)
  PROVE  Store!Loaded(fs) = NoCheckpoint
<1>1. {i \in Store!Levels : fs[i].state = "valid"} = {}
  BY DEF IsValid
<1>2. QED
  BY <1>1 DEF Store!Loaded

\* The invariant is what the property needs.
LEMMA FilesSuffice == FilesInv => RollbackSuffices
<1> SUFFICES ASSUME FilesInv,
                    broken + (IF pc = "saving" THEN 1 ELSE 0) <= Store!MaxRollbackDepth
             PROVE  Store!Loaded(files) = saved
  BY DEF RollbackSuffices
<1>1. broken <= 3 /\ (pc = "saving" => broken < 3) /\ broken \in Nat
  BY DEF FilesInv, Store!MaxRollbackDepth
<1>2. CASE NothingSaved
  BY <1>2, LoadedOfNothing DEF NothingSaved
<1>3. CASE \E p \in Store!Levels : Holds(files, saved, p)
  BY <1>3, LoadedIsFirst
<1>4. QED
  BY <1>1, <1>2, <1>3 DEF FilesInv

-----------------------------------------------------------------------------
(* The steps of a save                                                     *)

\* Deleting, renaming and opening a file make no checkpoint valid that was
\* not, and leave a function on the levels.
LEMMA StepsAddNothing ==
  ASSUME files = [i \in Store!Levels |-> files[i]],
         NEW n \in 0 .. 4, NEW c,
         \A i \in Store!Levels : ~ IsValid(files, i)
  PROVE  \A i \in Store!Levels : ~ IsValid(Store!AfterStep(files, n, c), i)
<1>1. CASE n = 0
  BY <1>1 DEF Store!AfterStep, Store!Levels, Store!MaxRollbackDepth, IsValid, Store!Absent
<1>2. CASE n \in 1 .. 3
  BY <1>2 DEF Store!AfterStep, Store!Renamed, Store!Levels, Store!MaxRollbackDepth, IsValid,
              Store!Absent
<1>3. CASE n = 4
  BY <1>3 DEF Store!AfterStep, Store!Levels, Store!MaxRollbackDepth, IsValid, Store!Corrupt
<1>4. QED
  BY <1>1, <1>2, <1>3

LEMMA StepsKeepLevels ==
  ASSUME files = [i \in Store!Levels |-> files[i]],
         NEW n \in Store!SaveSteps, NEW c
  PROVE  LET fs == Store!AfterStep(files, n, c)
         IN  fs = [i \in Store!Levels |-> fs[i]]
<1> DEFINE IsLevels(fs) == fs = [i \in Store!Levels |-> fs[i]]
<1>1. ASSUME NEW fs, IsLevels(fs), NEW i, NEW v
      PROVE  IsLevels([fs EXCEPT ![i] = v])
  BY <1>1
<1>2. ASSUME NEW i
      PROVE  IsLevels(Store!Renamed(files, i))
  <2>1. IsLevels([files EXCEPT ![i + 1] = files[i], ![i] = Store!Absent])
    BY <1>1
  <2> HIDE DEF IsLevels
  <2>2. QED
    BY <2>1 DEF Store!Renamed, IsLevels
<1>3. IsLevels(files)
  OBVIOUS
<1> HIDE DEF IsLevels
<1>4. IsLevels(Store!AfterStep(files, n, c))
  <2>1. CASE n = 0
    BY <1>1, <1>3, <2>1 DEF Store!AfterStep, Store!MaxRollbackDepth
  <2>2. CASE n \in 1 .. 3
    BY <1>2, <2>2 DEF Store!AfterStep, Store!MaxRollbackDepth
  <2>3. CASE n = 4
    BY <1>1, <1>3, <2>3 DEF Store!AfterStep, Store!MaxRollbackDepth
  <2>4. CASE n = 5
    BY <1>1, <1>3, <2>4 DEF Store!AfterStep, Store!MaxRollbackDepth
  <2>5. QED
    BY <2>1, <2>2, <2>3, <2>4 DEF Store!SaveSteps, Store!MaxRollbackDepth
<1>5. QED
  BY <1>4 DEF IsLevels

\* Each step leaves the target of the next rename free.
LEMMA StepsFreeTargets ==
  ASSUME files = [i \in Store!Levels |-> files[i]],
         NEW n \in 0 .. 4, NEW c, TargetFree(files, n)
  PROVE  TargetFree(Store!AfterStep(files, n, c), n + 1)
<1>1. CASE n = 0
  BY <1>1 DEF TargetFree, Store!AfterStep, Store!Levels, Store!MaxRollbackDepth
<1>2. CASE n \in 1 .. 3
  BY <1>2 DEF TargetFree, Store!AfterStep, Store!Renamed, Store!Levels, Store!MaxRollbackDepth
<1>3. CASE n = 4
  BY <1>3 DEF TargetFree
<1>4. QED
  BY <1>1, <1>2, <1>3

\* The checkpoint in level p is still held after a step, one level deeper
\* if the step has renamed it.
LEMMA StepsCarry ==
  ASSUME files = [i \in Store!Levels |-> files[i]],
         NEW n \in 0 .. 4, NEW c, NEW d,
         TargetFree(files, n),
         NEW p \in Store!Levels, Holds(files, c, p),
         NEW cut \in Nat, cut < 3, Reached(p, n, cut)
  PROVE  \E q \in Store!Levels : /\ Holds(Store!AfterStep(files, n, d), c, q)
                                 /\ Reached(q, n + 1, cut)
<1> DEFINE fs == Store!AfterStep(files, n, d)
<1>0. p \in 0 .. 3 /\ files[p].state = "valid" /\ files[p] # Store!Absent
  BY DEF Holds, Store!Valid, Store!Absent, Store!Levels, Store!MaxRollbackDepth
<1>1. CASE n = 0
  <2>1. p <= 2
    BY <1>0, <1>1 DEF Reached
  <2>2. Holds(fs, c, p)
    BY <1>0, <1>1, <2>1
    DEF Holds, IsValid, Store!AfterStep, Store!Levels, Store!MaxRollbackDepth
  <2>3. Reached(p, n + 1, cut)
    BY <1>0, <1>1, <2>1 DEF Reached
  <2>4. QED
    BY <2>2, <2>3
<1>2. CASE n \in 1 .. 3 /\ p = 3 - n
  <2>1. Holds(fs, c, p + 1)
    <3>1. fs = [files EXCEPT ![p + 1] = files[p], ![p] = Store!Absent]
      BY <1>0, <1>2 DEF Store!AfterStep, Store!Renamed, Store!MaxRollbackDepth
    <3>2. p + 1 \in Store!Levels /\ p \in Store!Levels
      BY <1>0, <1>2 DEF Store!Levels, Store!MaxRollbackDepth
    <3>3. fs[p + 1] = files[p] /\ fs[p] = Store!Absent
      BY <3>1, <3>2, <1>0
    <3>4. \A i \in Store!Levels : i < p => fs[i] = files[i]
      BY <3>1, <3>2, <1>0 DEF Store!Levels, Store!MaxRollbackDepth
    <3>5. QED
      BY <3>2, <3>3, <3>4, <1>0
      DEF Holds, IsValid, Store!Absent, Store!Levels, Store!MaxRollbackDepth
  <2>2. Reached(p + 1, n + 1, cut)
    BY <1>0, <1>2 DEF Reached
  <2>3. p + 1 \in Store!Levels
    BY <1>0, <1>2 DEF Store!Levels, Store!MaxRollbackDepth
  <2>4. QED
    BY <2>1, <2>2, <2>3
<1>3. CASE n \in 1 .. 3 /\ p # 3 - n
  <2>1. p # 4 - n
    BY <1>0, <1>3 DEF TargetFree
  <2>2. Reached(p, n + 1, cut)
    BY <1>0, <1>3, <2>1 DEF Reached
  <2>3. fs[p] = files[p]
    BY <1>0, <1>3, <2>1
    DEF Store!AfterStep, Store!Renamed, Store!Levels, Store!MaxRollbackDepth
  <2>4. ASSUME NEW i \in Store!Levels, i < p
        PROVE  ~ IsValid(fs, i)
    <3>1. 3 - n < p => ~ IsValid(files, 3 - n)
      BY <1>0, <1>3 DEF Holds, Store!Levels, Store!MaxRollbackDepth
    <3>2. CASE i = 4 - n
      BY <1>0, <1>3, <2>4, <3>1, <3>2
      DEF Holds, IsValid, Store!AfterStep, Store!Renamed, Store!Levels,
          Store!MaxRollbackDepth, Store!Absent
    <3>3. CASE i # 4 - n
      BY <1>0, <1>3, <2>4, <3>3
      DEF Holds, IsValid, Store!AfterStep, Store!Renamed, Store!Levels,
          Store!MaxRollbackDepth, Store!Absent
    <3>4. QED
      BY <3>2, <3>3
  <2>5. QED
    BY <2>2, <2>3, <2>4 DEF Holds
<1>4. CASE n = 4
  <2>1. p # 0
    BY <1>0, <1>4 DEF TargetFree
  <2>2. Reached(p, n + 1, cut)
    BY <1>0, <1>4, <2>1 DEF Reached
  <2>3. Holds(fs, c, p)
    BY <1>0, <1>4, <2>1
    DEF Holds, IsValid, Store!AfterStep, Store!Levels, Store!MaxRollbackDepth, Store!Corrupt
  <2>4. QED
    BY <2>2, <2>3
<1>5. QED
  BY <1>1, <1>2, <1>3, <1>4

-----------------------------------------------------------------------------
(* The files                                                               *)

LEMMA FilesInit == Init => FilesInv
BY DEF Init, FilesInv, NothingSaved, TargetFree, IsValid, Store!NoFiles, Store!Absent,
       Store!SaveSteps, Store!MaxRollbackDepth

\* Whatever does not touch the files and is no save.
LEMMA FilesUntouched ==
  ASSUME FilesInv, UNCHANGED <<files, step, broken, saved>>,
         pc # "saving", pc' # "saving"
  PROVE  FilesInv'
BY DEF FilesInv, NothingSaved, TargetFree, Holds, IsValid

\* A save begins.
LEMMA SaveBegins ==
  ASSUME FilesInv, UNCHANGED <<files, step, broken, saved>>,
         pc # "saving", pc' = "saving"
  PROVE  FilesInv'
<1>1. step = 0
  BY DEF FilesInv
<1>2. ASSUME NEW p \in Store!Levels, p <= broken
      PROVE  Reached(p, 0, broken)
  BY <1>2 DEF Reached, Store!Levels, Store!MaxRollbackDepth
<1>3. QED
  BY <1>1, <1>2 DEF FilesInv, NothingSaved, TargetFree, Holds, IsValid

LEMMA SaveStepKeeps == FilesInv /\ SaveStep => FilesInv'
<1> SUFFICES ASSUME FilesInv, SaveStep
             PROVE  FilesInv'
  OBVIOUS
<1>1. files' = [i \in Store!Levels |-> files'[i]]
  BY StepsKeepLevels DEF FilesInv, SaveStep
<1>2. CASE step < Store!LastStep
  <2>1. step \in 0 .. 4 /\ step' = step + 1 /\ UNCHANGED <<pc, saved, broken>>
    BY <1>2 DEF SaveStep, FilesInv, Store!LastStep, Store!SaveSteps, Store!MaxRollbackDepth
  <2>2. TargetFree(files', step')
    BY <2>1, StepsFreeTargets DEF SaveStep, FilesInv
  <2>3. CASE NothingSaved
    <3>1. NothingSaved'
      BY <2>1, <2>3, StepsAddNothing DEF SaveStep, FilesInv, NothingSaved, IsValid
    <3>2. QED
      BY <1>1, <2>1, <2>2, <3>1
      DEF SaveStep, FilesInv, Store!SaveSteps, Store!MaxRollbackDepth
  <2>4. CASE broken >= 3
    BY <1>1, <2>1, <2>2, <2>4
    DEF SaveStep, FilesInv, Store!SaveSteps, Store!MaxRollbackDepth
  <2>5. CASE broken < 3 /\ ~ NothingSaved
    <3>1. PICK p \in Store!Levels : Holds(files, saved, p) /\ Reached(p, step, broken)
      BY <2>5 DEF FilesInv, SaveStep
    <3>2. \E q \in Store!Levels : Holds(files', saved, q) /\ Reached(q, step + 1, broken)
      BY <2>1, <2>5, <3>1, StepsCarry DEF SaveStep, FilesInv
    <3>3. QED
      BY <1>1, <2>1, <2>2, <3>2
      DEF SaveStep, FilesInv, Holds, IsValid, Store!SaveSteps, Store!MaxRollbackDepth
  <2>6. QED
    BY <2>3, <2>4, <2>5 DEF FilesInv
<1>3. CASE ~ step < Store!LastStep
  <2>1. step = 5
    BY <1>3 DEF FilesInv, Store!LastStep, Store!SaveSteps, Store!MaxRollbackDepth
  <2>2. pc' = "stage" /\ step' = 0 /\ saved' = Current /\ broken' = 0
    BY <1>3 DEF SaveStep, NextStage
  <2>3. files' = [files EXCEPT ![0] = Store!Valid(Current)]
    BY <2>1 DEF SaveStep, Store!AfterStep, Store!MaxRollbackDepth
  <2>4. Holds(files', saved', 0) /\ 0 \in Store!Levels
    BY <2>2, <2>3 DEF Holds, FilesInv, Store!Levels, Store!MaxRollbackDepth
  <2>5. QED
    BY <1>1, <2>2, <2>4
    DEF FilesInv, TargetFree, Holds, IsValid, Store!SaveSteps, Store!MaxRollbackDepth
<1>4. QED
  BY <1>2, <1>3

\* A save is cut, and the checkpoint it has found is a level deeper at most.
LEMMA SaveCut ==
  ASSUME FilesInv, pc = "saving", pc' # "saving",
         UNCHANGED <<files, saved>>, step' = 0, broken' = broken + 1
  PROVE  FilesInv'
<1>1. CASE NothingSaved \/ broken >= 3
  BY <1>1 DEF FilesInv, NothingSaved, TargetFree, IsValid, Store!SaveSteps,
              Store!MaxRollbackDepth
<1>2. CASE ~ NothingSaved /\ broken < 3
  <2>1. PICK p \in Store!Levels : Holds(files, saved, p) /\ Reached(p, step, broken)
    BY <1>2 DEF FilesInv
  <2>2. p <= broken + 1
    BY <2>1 DEF Reached, FilesInv, Store!Levels, Store!MaxRollbackDepth
  <2>3. QED
    BY <2>1, <2>2 DEF FilesInv, TargetFree, Holds, IsValid, Store!SaveSteps,
                      Store!MaxRollbackDepth
<1>3. QED
  BY <1>1, <1>2 DEF FilesInv

LEMMA FilesStep == FilesInv /\ [Next]_vars => FilesInv'
<1> SUFFICES ASSUME FilesInv, [Next]_vars
             PROVE  FilesInv'
  OBVIOUS
<1>1. CASE Begin
  BY <1>1, FilesUntouched DEF Begin, ghosts
<1>2. CASE EnterStage
  BY <1>2, FilesUntouched DEF EnterStage, ghosts
<1>3. CASE Return
  BY <1>3, FilesUntouched DEF Return, ghosts
<1>4. CASE EndBatch
  BY <1>4, SaveBegins DEF EndBatch, ghosts
<1>5. CASE SaveStep
  BY <1>5, SaveStepKeeps
<1>6. ASSUME NEW a \in DOMAIN work, AcStep(a)
      PROVE  FilesInv'
  <2>1. UNCHANGED <<files, step, broken, saved, pc>>
    BY <1>6 DEF AcStep, StartAc, Decompose, CallAgent, Stall, EndCall, CallReadsBlocked, OnlyWork
  <2>2. QED
    BY <2>1 DEF FilesInv, NothingSaved, TargetFree, Holds, IsValid
<1>7. CASE SaveFails
  BY <1>7, SaveCut DEF SaveFails, NextStage
<1>8. CASE Interrupt
  <2>1. CASE pc = "saving"
    BY <1>8, <2>1, SaveCut DEF Interrupt
  <2>2. CASE pc # "saving"
    BY <1>8, <2>2, FilesUntouched DEF Interrupt, FilesInv
  <2>3. QED
    BY <2>1, <2>2
<1>9. CASE UNCHANGED vars
  BY <1>9 DEF vars, ghosts, FilesInv, NothingSaved, TargetFree, Holds, IsValid
<1>10. QED
  BY <1>1, <1>2, <1>3, <1>4, <1>5, <1>6, <1>7, <1>8, <1>9 DEF Next, RunStep

\* As long as no more saves in a row are cut than there are rollback levels,
\* a restart finds the checkpoint last saved.
THEOREM RollbackIsEnough == Spec => []RollbackSuffices
<1>1. Init => FilesInv
  BY FilesInit
<1>2. FilesInv /\ [Next]_vars => FilesInv'
  BY FilesStep
<1>3. FilesInv => RollbackSuffices
  BY FilesSuffice
<1>4. QED
  BY <1>1, <1>2, <1>3, PTL DEF Spec

-----------------------------------------------------------------------------
(* The results                                                             *)

\* InOrder names each member once.
LEMMA OrderNamesAll ==
  ASSUME NEW S \in SUBSET Nat, IsFiniteSet(S), NEW s, s = InOrder(S),
         NEW n, n = Cardinality(S)
  PROVE  /\ n \in Nat /\ s \in [1 .. n -> S]
         /\ \A a \in S : \E i \in 1 .. n : s[i] = a
         /\ \A i, j \in 1 .. n : s[i] = s[j] => i = j
<1>1. /\ n \in Nat
      /\ \A a \in S : Rank(S, a) \in 0 .. n - 1
      /\ \A a, b \in S : a < b => Rank(S, a) < Rank(S, b)
      /\ \A i \in 1 .. n : \E a \in S : Rank(S, a) = i - 1
  BY Ranks
<1> DEFINE up(f) == \A i, j \in DOMAIN f : i < j => f[i] < f[j]
           t == [i \in 1 .. n |-> CHOOSE a \in S : Rank(S, a) = i - 1]
<1>2. \A i \in 1 .. n : t[i] \in S /\ Rank(S, t[i]) = i - 1
  BY <1>1
<1>3. t \in [1 .. n -> S] /\ up(t)
  <2>1. t \in [1 .. n -> S]
    BY <1>2
  <2>2. ASSUME NEW i \in 1 .. n, NEW j \in 1 .. n, i < j
        PROVE  t[i] < t[j]
    <3>1. t[i] \in Nat /\ t[j] \in Nat
      BY <1>2
    <3>2. Rank(S, t[i]) < Rank(S, t[j])
      BY <1>1, <1>2, <2>2
    <3>3. ~ (t[j] < t[i]) /\ t[i] # t[j]
      <4>1. t[j] < t[i] => Rank(S, t[j]) < Rank(S, t[i])
        BY <1>1, <1>2
      <4>2. Rank(S, t[i]) = i - 1 /\ Rank(S, t[j]) = j - 1
        BY <1>2, Zenon
      <4>3. t[i] # t[j]
        <5>1. i - 1 # j - 1
          BY <2>2
        <5>2. QED
          BY <4>2, <5>1, Zenon
      <4>4. ~ (j - 1 < i - 1)
        BY <2>2
      <4>5. QED
        BY <4>1, <4>2, <4>3, <4>4, Zenon
    <3>4. QED
      BY <3>1, <3>3
  <2>3. QED
    BY <2>1, <2>2
<1>4. s \in [1 .. n -> S] /\ up(s)
  <2> HIDE DEF t
  <2>1. s = CHOOSE f \in [1 .. n -> S] : up(f)
    BY DEF InOrder
  <2>2. \E f \in [1 .. n -> S] : up(f)
    BY <1>3
  <2> HIDE DEF up
  <2>3. QED
    BY <2>1, <2>2
<1>5. ASSUME NEW i \in 1 .. n, NEW j \in 1 .. n, s[i] = s[j]
      PROVE  i = j
  <2>1. s[i] \in Nat /\ s[j] \in Nat
    <3>1. s[i] \in S /\ s[j] \in S
      BY <1>4, Zenon
    <3>2. QED
      BY <3>1
  <2>4. DOMAIN s = 1 .. n
    BY <1>4, Zenon
  <2>2. ~ (i < j) /\ ~ (j < i)
    <3>1. i < j => s[i] < s[j]
      BY <1>4, <2>4, Zenon
    <3>2. j < i => s[j] < s[i]
      BY <1>4, <2>4, Zenon
    <3>3. QED
      BY <1>5, <2>1, <3>1, <3>2
  <2>3. QED
    BY <2>1, <2>2
<1>6. s \in Surjection(1 .. n, S)
  <2>1. s \in Injection(1 .. n, S)
    BY <1>4, <1>5 DEF Injection, IsInjective
  <2>2. Cardinality(1 .. n) = n
    <3>1. \A i \in Nat : Cardinality(1 .. i) = i
      BY FS_Interval
    <3>2. QED
      BY <1>1, <3>1
  <2>3. QED
    BY <2>1, <2>2, FS_Injection
<1>7. \A a \in S : \E i \in 1 .. n : s[i] = a
  BY <1>6 DEF Surjection
<1>8. QED
  BY <1>1, <1>4, <1>5, <1>7

Good == {"succeeded", "satisfied_externally"}

\* The rows of rs are of the ACs in F, one of each, and good only for those
\* that st has as completed.
Tells(acs, F, rs, st) ==
  /\ rs \in Seq([ac : acs, outcome : Outcomes])
  /\ \A a \in F : \E i \in 1 .. Len(rs) : rs[i].ac = a
  /\ \A i \in 1 .. Len(rs) : /\ rs[i].ac \in F
                             /\ rs[i].outcome \in Good => st[rs[i].ac] = "completed"
  /\ \A i, j \in 1 .. Len(rs) : rs[i].ac = rs[j].ac => i = j

LEMMA NoneTold ==
  ASSUME NEW acs, NEW st
  PROVE  Tells(acs, {}, << >>, st)
<1> DEFINE R == [ac : acs, outcome : Outcomes]
<1>1. << >> \in Seq(R) /\ 1 .. Len(<< >>) = {}
  OBVIOUS
<1>2. QED
  BY <1>1 DEF Tells

LEMMA TellsJoined ==
  ASSUME NEW acs, NEW F, NEW N, NEW p, NEW q, NEW st,
         Tells(acs, F, p, st), Tells(acs, N, q, st), F \cap N = {}
  PROVE  Tells(acs, F \cup N, p \o q, st)
<1> DEFINE m == Len(p)
           k == Len(q)
           pq == p \o q
           R == [ac : acs, outcome : Outcomes]
<1>1. p \in Seq(R) /\ q \in Seq(R)
  BY DEF Tells
<1>2. /\ pq \in Seq(R) /\ Len(pq) = m + k
      /\ m \in Nat /\ k \in Nat
      /\ \A i \in 1 .. m : pq[i] = p[i]
      /\ \A i \in 1 .. k : pq[m + i] = q[i]
  <2> HIDE DEF R
  <2>1. QED
    BY <1>1
<1>3. ASSUME NEW i \in 1 .. m + k
      PROVE  \/ i \in 1 .. m /\ pq[i] = p[i]
             \/ \E j \in 1 .. k : i = m + j /\ pq[i] = q[j]
  <2>1. CASE i \in 1 .. m
    BY <1>2, <2>1
  <2>2. CASE i \notin 1 .. m
    <3>1. i - m \in 1 .. k /\ i = m + (i - m)
      BY <1>2, <2>2
    <3>2. QED
      BY <1>2, <3>1
  <2>3. QED
    BY <2>1, <2>2
<1>4. /\ \A i \in 1 .. m : p[i].ac \in F /\ (p[i].outcome \in Good => st[p[i].ac] = "completed")
      /\ \A i \in 1 .. k : q[i].ac \in N /\ (q[i].outcome \in Good => st[q[i].ac] = "completed")
      /\ \A i, j \in 1 .. m : p[i].ac = p[j].ac => i = j
      /\ \A i, j \in 1 .. k : q[i].ac = q[j].ac => i = j
      /\ \A a \in F : \E i \in 1 .. m : p[i].ac = a
      /\ \A a \in N : \E i \in 1 .. k : q[i].ac = a
  BY DEF Tells
<1> HIDE DEF m, k, pq, R
<1>5. ASSUME NEW i \in 1 .. m + k
      PROVE  /\ pq[i].ac \in F \cup N
             /\ pq[i].outcome \in Good => st[pq[i].ac] = "completed"
  BY <1>3, <1>4
<1>6. ASSUME NEW a \in F \cup N
      PROVE  \E i \in 1 .. m + k : pq[i].ac = a
  <2>1. CASE a \in F
    <3>1. PICK i \in 1 .. m : p[i].ac = a
      BY <1>4, <2>1
    <3>2. i \in 1 .. m + k
      BY <1>2
    <3>3. QED
      BY <1>2, <3>1, <3>2
  <2>2. CASE a \in N
    <3>1. PICK i \in 1 .. k : q[i].ac = a
      BY <1>4, <2>2
    <3>2. m + i \in 1 .. m + k
      BY <1>2
    <3>3. QED
      BY <1>2, <3>1, <3>2
  <2>3. QED
    BY <2>1, <2>2
<1>7. ASSUME NEW i \in 1 .. m + k, NEW j \in 1 .. m + k, pq[i].ac = pq[j].ac
      PROVE  i = j
  <2>1. CASE pq[i].ac \in F
    <3>1. pq[i].ac \notin N
      BY <2>1
    <3>2. i \in 1 .. m /\ j \in 1 .. m /\ pq[i] = p[i] /\ pq[j] = p[j]
      BY <1>3, <1>4, <1>7, <3>1
    <3>3. QED
      BY <1>4, <1>7, <3>2
  <2>2. CASE pq[i].ac \in N
    <3>1. pq[i].ac \notin F
      BY <2>2
    <3>2. PICK x \in 1 .. k : i = m + x /\ pq[i] = q[x]
      BY <1>3, <1>4, <3>1
    <3>3. PICK y \in 1 .. k : j = m + y /\ pq[j] = q[y]
      BY <1>3, <1>4, <1>7, <3>1
    <3>4. x = y
      BY <1>4, <1>7, <3>2, <3>3
    <3>5. QED
      BY <3>2, <3>3, <3>4
  <2>3. QED
    BY <1>5, <2>1, <2>2
<1>8. Tells(acs, F \cup N, pq, st)
  BY <1>2, <1>5, <1>6, <1>7 DEF Tells, R
<1>9. QED
  BY <1>8 DEF pq

LEMMA TellsOf ==
  ASSUME NEW acs \in SUBSET Nat, NEW N \in SUBSET acs, IsFiniteSet(N), NEW st, NEW out,
         \A a \in N : out[a] \in Outcomes /\ (out[a] \in Good => st[a] = "completed")
  PROVE  Tells(acs, N, ResultsOf(N, out), st)
<1> DEFINE n == Cardinality(N)
           s == InOrder(N)
           rs == ResultsOf(N, out)
<1>1. N \in SUBSET Nat
  OBVIOUS
<1>2. /\ n \in Nat /\ s \in [1 .. n -> N]
      /\ \A a \in N : \E i \in 1 .. n : s[i] = a
      /\ \A i, j \in 1 .. n : s[i] = s[j] => i = j
  BY <1>1, OrderNamesAll
<1>3. rs = [i \in 1 .. n |-> [ac |-> s[i], outcome |-> out[s[i]]]]
  BY <1>2 DEF ResultsOf
<1> HIDE DEF n, s, rs
<1>4. \A i \in 1 .. n : s[i] \in N
  BY <1>2
<1>5. rs \in Seq([ac : acs, outcome : Outcomes]) /\ Len(rs) = n
  <2> DEFINE R == [ac : acs, outcome : Outcomes]
  <2>1. ASSUME NEW i \in 1 .. n
        PROVE  [ac |-> s[i], outcome |-> out[s[i]]] \in R
    <3>1. s[i] \in acs /\ out[s[i]] \in Outcomes
      BY <1>4
    <3>2. QED
      BY <3>1
  <2> HIDE DEF R
  <2>2. rs \in [1 .. n -> R]
    BY <1>3, <2>1
  <2>3. rs \in Seq(R) /\ Len(rs) = n
    BY <1>2, <2>2
  <2>4. QED
    BY <2>3 DEF R
<1>6. \A i \in 1 .. n : rs[i].ac = s[i] /\ rs[i].outcome = out[s[i]]
  BY <1>3
<1>7. Tells(acs, N, rs, st)
  <2>1. \A a \in N : \E i \in 1 .. Len(rs) : rs[i].ac = a
    BY <1>2, <1>5, <1>6
  <2>2. ASSUME NEW i \in 1 .. Len(rs)
        PROVE  /\ rs[i].ac \in N
               /\ rs[i].outcome \in Good => st[rs[i].ac] = "completed"
    BY <1>4, <1>5, <1>6
  <2>3. \A i, j \in 1 .. Len(rs) : rs[i].ac = rs[j].ac => i = j
    BY <1>2, <1>5, <1>6
  <2>4. QED
    BY <1>5, <2>1, <2>2, <2>3 DEF Tells
<1>8. QED
  BY <1>7 DEF rs

LEMMA TellsStill ==
  ASSUME NEW acs, NEW F, NEW rs, NEW st, NEW st2, Tells(acs, F, rs, st),
         \A a \in F : st2[a] = st[a]
  PROVE  Tells(acs, F, rs, st2)
BY DEF Tells

\* What a restart recalls, by recursion over the stages.
RestoredBy(ss, acs, c, f) ==
  f = [k \in 0 .. c.levels |->
         IF k = 0 THEN << >>
         ELSE f[k - 1] \o ResultsOf(ss[k], [a \in acs |-> RestoredOutcome(c.statuses[a])])]

RestoredUpTo(ss, acs, c) == CHOOSE f : RestoredBy(ss, acs, c, f)

RestoredGrow(ss, acs, c, f) ==
  /\ f[0] = << >>
  /\ \A k \in 1 .. c.levels :
       f[k] = f[k - 1] \o ResultsOf(ss[k], [a \in acs |-> RestoredOutcome(c.statuses[a])])

LEMMA RestoredChosen ==
  ASSUME NEW c
  PROVE  Restored(c) = RestoredUpTo(stages, Acs, c)[c.levels]
BY DEF Restored, RestoredBy, RestoredUpTo

LEMMA RestoredOutcomes ==
  ASSUME NEW status
  PROVE  /\ RestoredOutcome(status) \in Outcomes
         /\ RestoredOutcome(status) \in Good => status = "completed"
<1>1. status \in {"completed", "skipped"} \/ RestoredOutcome(status) = "failed"
  BY DEF RestoredOutcome
<1>2. QED
  BY <1>1 DEF RestoredOutcome, Outcomes, Good

\* The rows of a stage that is behind the checkpoint.
LEMMA RestoredRows ==
  ASSUME NEW acs \in SUBSET Nat, IsFiniteSet(acs), NEW c, NEW N \in SUBSET acs
  PROVE  Tells(acs, N, ResultsOf(N, [a \in acs |-> RestoredOutcome(c.statuses[a])]), c.statuses)
<1> DEFINE out == [a \in acs |-> RestoredOutcome(c.statuses[a])]
<1>1. \A a \in N : out[a] \in Outcomes /\ (out[a] \in Good => c.statuses[a] = "completed")
  BY RestoredOutcomes
<1>2. IsFiniteSet(N)
  BY FS_Subset
<1> HIDE DEF out
<1>3. Tells(acs, N, ResultsOf(N, out), c.statuses)
  BY <1>1, <1>2, TellsOf
<1>4. QED
  BY <1>3 DEF out

LEMMA RestoredSteps ==
  ASSUME NEW acs \in SUBSET Nat, IsFiniteSet(acs),
         NEW ss, IsPartition(ss, acs), NEW c, c.levels \in 0 .. Len(ss),
         NEW f, f = RestoredUpTo(ss, acs, c)
  PROVE  RestoredGrow(ss, acs, c, f)
<1> DEFINE n == c.levels
           S == Seq([ac : acs, outcome : Outcomes])
           rows(k) == ResultsOf(ss[k], [a \in acs |-> RestoredOutcome(c.statuses[a])])
           next == [k \in 1 .. n |-> [v \in S |-> v \o rows(k)]]
           base == << >>
<1>1. n \in Nat /\ \A k \in 1 .. n : ss[k] \subseteq acs
  BY DEF IsPartition
<1>2. ASSUME NEW k \in 1 .. n
      PROVE  rows(k) \in S
  <2>1. Tells(acs, ss[k], rows(k), c.statuses)
    BY <1>1, RestoredRows
  <2> HIDE DEF rows
  <2>2. QED
    BY <2>1 DEF Tells
<1> HIDE DEF rows
<1>3. ASSUME NEW k \in 1 .. n, NEW v \in S
      PROVE  v \o rows(k) \in S
  <2>1. ASSUME NEW A, NEW p \in Seq(A), NEW q \in Seq(A)
        PROVE  p \o q \in Seq(A)
    OBVIOUS
  <2>2. QED
    BY <1>2, <2>1
<1>4. /\ base \in S
      /\ next \in [1 .. n -> [S -> S]]
      /\ \A k \in 1 .. n : \A v \in S : next[k][v] = v \o rows(k)
  <2>1. base \in S
    OBVIOUS
  <2> HIDE DEF S, n
  <2>2. QED
    BY <1>3, <2>1
<1>5. PICK g : Recursive(n, S, base, next, g)
  <2> HIDE DEF S, next, base, n
  <2>1. QED
    BY <1>1, <1>4, Recursion, Zenon
<1>6. RestoredBy(ss, acs, c, g)
  <2>1. ASSUME NEW k \in 0 .. n
        PROVE  g[k] = IF k = 0 THEN << >> ELSE g[k - 1] \o rows(k)
    <3>1. CASE k = 0
      BY <1>5, <3>1 DEF Recursive
    <3>2. CASE k # 0
      <4>1. k \in 1 .. n /\ k - 1 \in 0 .. n
        BY <1>1, <3>2
      <4> HIDE DEF S, next, n
      <4>2. g[k - 1] \in S /\ g[k] = next[k][g[k - 1]]
        BY <1>5, <4>1 DEF Recursive
      <4>3. QED
        BY <1>4, <3>2, <4>1, <4>2
    <3>3. QED
      BY <3>1, <3>2
  <2>2. g = [k \in 0 .. n |-> g[k]]
    <3> HIDE DEF S, next, base, n
    <3>1. QED
      BY <1>5 DEF Recursive
  <2>3. g = [k \in 0 .. n |-> IF k = 0 THEN << >> ELSE g[k - 1] \o rows(k)]
    <3> HIDE DEF n
    <3>1. QED
      BY <2>1, <2>2, Zenon
  <2>4. QED
    BY <2>3 DEF RestoredBy, rows
<1>7. RestoredBy(ss, acs, c, f)
  BY <1>6, Zenon DEF RestoredUpTo
<1>8. \A k \in 0 .. n : f[k] = IF k = 0 THEN << >> ELSE f[k - 1] \o rows(k)
  BY <1>7, Zenon DEF RestoredBy, rows
<1>9. 0 \in 0 .. n /\ \A k \in 1 .. n : k \in 0 .. n /\ k # 0
  BY <1>1
<1>10. QED
  BY <1>8, <1>9, Zenon DEF RestoredGrow, rows

\* A restart recalls a row for each AC behind the checkpoint.
LEMMA RestoredTells ==
  ASSUME Acs \in SUBSET Nat, IsFiniteSet(Acs), IsPartition(stages, Acs),
         NEW c, c.levels \in 0 .. Len(stages)
  PROVE  Tells(Acs, Behind(stages, c.levels), Restored(c), c.statuses)
<1> DEFINE n == c.levels
           f == RestoredUpTo(stages, Acs, c)
           rows(k) == ResultsOf(stages[k], [a \in Acs |-> RestoredOutcome(c.statuses[a])])
           P == {k \in 0 .. n : Tells(Acs, Behind(stages, k), f[k], c.statuses)}
<1>1. f[0] = << >> /\ \A k \in 1 .. n : f[k] = f[k - 1] \o rows(k)
  <2> HIDE DEF f
  <2>1. f = RestoredUpTo(stages, Acs, c)
    BY DEF f
  <2>2. RestoredGrow(stages, Acs, c, f)
    BY <2>1, RestoredSteps, Zenon
  <2>3. QED
    BY <2>2 DEF RestoredGrow
<1> HIDE DEF f
<1>2. /\ Len(stages) \in Nat /\ Behind(stages, 0) = {}
      /\ \A k \in 1 .. Len(stages) :
           /\ stages[k] \subseteq Acs
           /\ Behind(stages, k) = Behind(stages, k - 1) \cup stages[k]
           /\ Behind(stages, k - 1) \cap stages[k] = {}
  BY BehindGrows
<1>3. 0 \in P
  <2>1. Tells(Acs, {}, << >>, c.statuses)
    BY NoneTold
  <2>2. 0 \in 0 .. n /\ Tells(Acs, Behind(stages, 0), f[0], c.statuses)
    <3>1. 0 \in 0 .. n
      BY <1>2
    <3>2. f[0] = << >> /\ Behind(stages, 0) = {}
      BY <1>1, <1>2, Zenon
    <3>3. QED
      BY <2>1, <3>1, <3>2, Zenon
  <2>3. QED
    BY <2>2
<1>4. ASSUME NEW k \in 1 .. n, k - 1 \in P
      PROVE  k \in P
  <2>1. k \in 1 .. Len(stages) /\ k \in 0 .. n
    BY <1>2
  <2>2. stages[k] \in SUBSET Acs
    BY <1>2, <2>1
  <2>3. Tells(Acs, stages[k], rows(k), c.statuses)
    BY <2>2, RestoredRows
  <2>4. Tells(Acs, Behind(stages, k - 1), f[k - 1], c.statuses)
    BY <1>4
  <2>5. Behind(stages, k - 1) \cap stages[k] = {}
    BY <1>2, <2>1
  <2> HIDE DEF rows
  <2>6. Tells(Acs, Behind(stages, k - 1) \cup stages[k], f[k - 1] \o rows(k), c.statuses)
    BY <2>3, <2>4, <2>5, TellsJoined
  <2>7. f[k] = f[k - 1] \o rows(k) /\ Behind(stages, k) = Behind(stages, k - 1) \cup stages[k]
    BY <1>1, <1>2, <2>1
  <2>8. QED
    BY <2>1, <2>6, <2>7
<1>5. n \in P
  <2>1. n \in Nat
    BY <1>2
  <2> HIDE DEF P, n
  <2>2. 0 .. n \subseteq P
    BY <1>3, <1>4, <2>1, InductionTo
  <2>3. QED
    BY <2>1, <2>2
<1>6. Restored(c) = f[n]
  BY RestoredChosen DEF f
<1>7. QED
  BY <1>5, <1>6

-----------------------------------------------------------------------------
(* The record of a run                                                     *)

AcsOf(in) == DOMAIN in.graph.deps
DepsOf(in, a) == Dependencies(in.graph)[a]

Final == {"completed", "failed", "skipped"}

With(st, F, status) == {a \in F : st[a] = status}

\* The statuses are final for the ACs in F, "executing" for those in E, and
\* "pending" for the rest.
Settled(in, F, E, st) ==
  /\ st \in [AcsOf(in) -> Statuses]
  /\ \A a \in AcsOf(in) : IF a \in F THEN st[a] \in Final
                          ELSE st[a] = (IF a \in E THEN "executing" ELSE "pending")

\* An agent has completed a, and its stage is one the contexts tell of; or
\* it was satisfied beforehand.
Vouched(in, sg, dn, cx, a) ==
  \/ a \in in.satisfied
  \/ a \in dn /\ \E i \in 1 .. Len(cx) : a \in sg[cx[i]]

\* A completed AC has been vouched for and depends on no failed one.
Earned(in, sg, dn, F, st, cx) ==
  \A a \in With(st, F, "completed") : /\ Vouched(in, sg, dn, cx, a)
                                      /\ \A d \in DepsOf(in, a) : st[d] # "failed"

\* What statuses, failed, completed and contexts say of each other, in the
\* run and in a checkpoint.
Record(in, sg, dn, F, E, c) ==
  /\ Settled(in, F, E, c.statuses)
  /\ c.failed = With(c.statuses, F, "failed")
  /\ c.completed = Cardinality(With(c.statuses, F, "completed"))
  /\ c.contexts \in Seq(Nat)
  /\ Earned(in, sg, dn, F, c.statuses, c.contexts)

\* Whatever agents bring to success later takes nothing from the record.
LEMMA RecordOfMore ==
  ASSUME NEW in, NEW sg, NEW dn, NEW more, NEW F, NEW E, NEW c,
         Record(in, sg, dn, F, E, c), dn \subseteq more
  PROVE  Record(in, sg, more, F, E, c)
BY DEF Record, Earned, Vouched, With

\* The record only speaks of these four.
LEMMA RecordSame ==
  ASSUME NEW in, NEW sg, NEW dn, NEW F, NEW E, NEW c, NEW d,
         Record(in, sg, dn, F, E, c),
         d.statuses = c.statuses, d.failed = c.failed, d.completed = c.completed,
         d.contexts = c.contexts
  PROVE  Record(in, sg, dn, F, E, d)
BY DEF Record

LEMMA RecordOfNone ==
  ASSUME NEW in, NEW sg, NEW dn, NEW c,
         c.statuses = [a \in AcsOf(in) |-> "pending"], c.failed = {}, c.completed = 0,
         c.contexts = << >>
  PROVE  Record(in, sg, dn, {}, {}, c)
<1>1. Settled(in, {}, {}, c.statuses)
  BY DEF Settled, Statuses
<1>2. With(c.statuses, {}, "failed") = {} /\ With(c.statuses, {}, "completed") = {}
  BY DEF With
<1>3. c.completed = Cardinality(With(c.statuses, {}, "completed"))
  BY <1>2, FS_EmptySet
<1>4. c.contexts \in Seq(Nat)
  OBVIOUS
<1>5. Earned(in, sg, dn, {}, c.statuses, c.contexts)
  BY <1>2 DEF Earned
<1>6. QED
  BY <1>1, <1>2, <1>3, <1>4, <1>5 DEF Record

\* The stages cx tells of are among those dx tells of.
Extends(cx, dx) == /\ dx \in Seq(Nat)
                   /\ \A i \in 1 .. Len(cx) : \E j \in 1 .. Len(dx) : dx[j] = cx[i]

LEMMA AppendExtends ==
  ASSUME NEW cx \in Seq(Nat), NEW k \in Nat
  PROVE  /\ Extends(cx, Append(cx, k)) /\ Extends(cx, cx)
         /\ \E i \in 1 .. Len(Append(cx, k)) : Append(cx, k)[i] = k
<1> DEFINE dx == Append(cx, k)
           n == Len(cx)
<1>1. /\ n \in Nat /\ dx \in Seq(Nat) /\ Len(dx) = n + 1
      /\ dx[n + 1] = k /\ \A i \in 1 .. n : dx[i] = cx[i]
  OBVIOUS
<1>2. \A i \in 1 .. n : i \in 1 .. n + 1
  BY <1>1
<1>3. n + 1 \in 1 .. n + 1
  BY <1>1
<1> HIDE DEF dx
<1>4. Extends(cx, dx) /\ Extends(cx, cx)
  BY <1>1, <1>2 DEF Extends
<1>5. \E i \in 1 .. Len(dx) : dx[i] = k
  BY <1>1, <1>3
<1>6. QED
  BY <1>4, <1>5 DEF dx

\* The ACs in N come to an end.
LEMMA RecordGrows ==
  ASSUME NEW in, IsFiniteSet(AcsOf(in)), NEW sg, NEW dn, NEW F \in SUBSET AcsOf(in),
         NEW E, NEW E2, NEW N \in SUBSET AcsOf(in), NEW c, NEW d,
         Record(in, sg, dn, F, E, c),
         F \cap N = {},
         \A a \in F : DepsOf(in, a) \subseteq F,
         Settled(in, F \cup N, E2, d.statuses),
         \A a \in F : d.statuses[a] = c.statuses[a],
         d.failed = c.failed \cup With(d.statuses, N, "failed"),
         d.completed = c.completed + Cardinality(With(d.statuses, N, "completed")),
         Extends(c.contexts, d.contexts),
         Earned(in, sg, dn, N, d.statuses, d.contexts)
  PROVE  Record(in, sg, dn, F \cup N, E2, d)
<1>1. ASSUME NEW status
      PROVE  /\ With(d.statuses, F \cup N, status)
                  = With(c.statuses, F, status) \cup With(d.statuses, N, status)
             /\ With(c.statuses, F, status) \cap With(d.statuses, N, status) = {}
  BY DEF With
<1>2. d.failed = With(d.statuses, F \cup N, "failed")
  BY <1>1 DEF Record
<1>3. d.completed = Cardinality(With(d.statuses, F \cup N, "completed"))
  <2> DEFINE A == With(c.statuses, F, "completed")
             B == With(d.statuses, N, "completed")
  <2>1. A \subseteq AcsOf(in) /\ B \subseteq AcsOf(in)
    BY DEF With
  <2>2. IsFiniteSet(A) /\ IsFiniteSet(B)
    BY <2>1, FS_Subset
  <2>3. A \cap B = {}
    BY <1>1
  <2> HIDE DEF A, B
  <2>4. Cardinality(A \cup B) = Cardinality(A) + Cardinality(B)
    <3>1. Cardinality(A \cap B) = 0
      BY <2>3, FS_EmptySet, Zenon
    <3>2. Cardinality(A) \in Nat /\ Cardinality(B) \in Nat
      BY <2>2, FS_CardinalityType
    <3>3. Cardinality(A \cup B) = Cardinality(A) + Cardinality(B) - Cardinality(A \cap B)
      BY <2>2, FS_Union
    <3>4. QED
      BY <3>1, <3>2, <3>3
  <2>5. c.completed = Cardinality(A)
    BY DEF Record, A
  <2>6. With(d.statuses, F \cup N, "completed") = A \cup B
    BY <1>1 DEF A, B
  <2>7. d.completed = c.completed + Cardinality(B)
    BY DEF B
  <2>8. QED
    BY <2>4, <2>5, <2>6, <2>7
<1>4. Earned(in, sg, dn, F \cup N, d.statuses, d.contexts)
  <2>1. ASSUME NEW a \in With(d.statuses, F, "completed")
        PROVE  /\ Vouched(in, sg, dn, d.contexts, a)
               /\ \A b \in DepsOf(in, a) : d.statuses[b] # "failed"
    <3>1. a \in F /\ a \in With(c.statuses, F, "completed")
      BY DEF With
    <3>2. Vouched(in, sg, dn, c.contexts, a) /\ \A b \in DepsOf(in, a) : c.statuses[b] # "failed"
      BY <3>1 DEF Record, Earned
    <3>3. Vouched(in, sg, dn, d.contexts, a)
      <4>1. CASE a \in in.satisfied
        BY <4>1 DEF Vouched
      <4>2. CASE a \notin in.satisfied
        <5>1. PICK i \in 1 .. Len(c.contexts) : a \in sg[c.contexts[i]]
          BY <3>2, <4>2 DEF Vouched
        <5>2. PICK j \in 1 .. Len(d.contexts) : d.contexts[j] = c.contexts[i]
          BY DEF Extends
        <5>3. QED
          BY <3>2, <4>2, <5>1, <5>2 DEF Vouched
      <4>3. QED
        BY <4>1, <4>2
    <3>4. QED
      BY <3>1, <3>2, <3>3
  <2>2. \A a \in With(d.statuses, F \cup N, "completed") :
           a \in With(d.statuses, F, "completed") \/ a \in With(d.statuses, N, "completed")
    BY DEF With
  <2>3. QED
    BY <2>1, <2>2 DEF Earned
<1>5. d.contexts \in Seq(Nat)
  BY DEF Extends
<1>6. QED
  BY <1>2, <1>3, <1>4, <1>5 DEF Record

-----------------------------------------------------------------------------
(* The invariant of a run                                                  *)

\* The stages whose ACs have all been entered on, and the ACs that have ended.
Entered == IF pc \in {"batch", "saving"} THEN level ELSE level - 1
Finished == Behind(stages, Entered) \ DOMAIN work

PlanInv ==
  /\ input \in Inputs /\ stages = Stages(input.graph)
  /\ pc # "raised" => Plannable(input.graph)

PlaceInv ==
  \/ pc \in {"begin", "raised"} /\ level = 0
  \/ pc = "stage" /\ level \in 1 .. Len(stages) + 1
  \/ pc \in {"batch", "saving"} /\ level \in 1 .. Len(stages)
  \/ pc = "returned" /\ level = Len(stages) + 1

RecordInv == /\ Record(input, stages, done, Finished, DOMAIN work, Current)
             /\ Tells(Acs, Finished, results, statuses)

\* Until the first fault, the run knows which ACs are blocked.
BlockedInv ==
  /\ blocked \subseteq With(statuses, Finished, "skipped")
  /\ faults = 0 => blocked = With(statuses, Finished, "skipped")

GoodCheckpoint(in, sg, dn, c) ==
  c.levels \in 1 .. Len(sg) /\ Record(in, sg, dn, Behind(sg, c.levels), {}, c)

StoreInv ==
  /\ \A i \in Store!Levels : IsValid(files, i) => GoodCheckpoint(input, stages, done, files[i].data)
  /\ faults = 0 /\ pc = "begin" => \A i \in Store!Levels : ~ IsValid(files, i)

\* Executions; an AC is decomposed to a limited depth.
Places == {p \in [at : Nat, of : MinSubAcs .. MaxSubAcs] : p.at \in 1 .. p.of}
Executions == {w \in [phase : Phases, path : Seq(Places), tries : 0 .. MaxStallRetries,
                      good : BOOLEAN] : Len(w.path) <= MaxDepth}

IsBusy(w) == w.phase \in {"analyzing", "calling"}
BusyIn(w) == {a \in DOMAIN w : IsBusy(w[a])}

WorkInv ==
  /\ work \in [DOMAIN work -> Executions]
  /\ DOMAIN work \subseteq (IF pc = "batch" THEN stages[level] ELSE {})
  /\ \A a \in DOMAIN work : /\ Deps(a) \cap (failed \cup blocked) = {}
                            /\ work[a].phase = "succeeded" => a \in done
  /\ slots \in Nat /\ slots + Cardinality(BusyIn(work)) = MaxConcurrent

CountInv == faults \in 0 .. MaxFaults /\ done \subseteq Acs

RunInv == /\ PlanInv /\ PlaceInv /\ RecordInv /\ BlockedInv /\ StoreInv /\ WorkInv /\ CountInv

-----------------------------------------------------------------------------
(* What the plan gives                                                     *)

LEMMA PlanFacts ==
  ASSUME PlanInv
  PROVE  /\ Acs \in SUBSET Nat /\ IsFiniteSet(Acs)
         /\ IsPartition(stages, Acs) /\ Len(stages) \in Nat
         /\ \A a \in Acs : Deps(a) \subseteq Acs
<1> DEFINE g == input.graph
<1>1. /\ Acs \subseteq Nat /\ IsFiniteSet(Acs)
      /\ g \in Graphs(Acs, Resources(g))
  BY ExecutorAssumption DEF PlanInv, Acs
<1>2. DOMAIN g.claims = Acs /\ \A a \in Acs : g.deps[a] \subseteq Acs
  BY <1>1 DEF Graphs
<1>3. IsPartition(stages, Acs)
  BY <1>1, PlanIsPartition DEF PlanInv, Acs
<1>4. \A a \in Acs : Deps(a) \subseteq Acs
  BY <1>2, DependenciesAreAcs DEF Deps, Acs
<1>5. Len(stages) \in Nat
  BY <1>3 DEF IsPartition
<1>6. Acs \in SUBSET Nat
  BY <1>1
<1>7. QED
  BY <1>1, <1>3, <1>4, <1>5, <1>6, Zenon

LEMMA PlanFollows ==
  ASSUME PlanInv, pc # "raised", NEW k \in 1 .. Len(stages), NEW a \in stages[k]
  PROVE  Deps(a) \subseteq Behind(stages, k - 1)
<1> DEFINE g == input.graph
<1>1. /\ Acs \subseteq Nat /\ IsFiniteSet(Acs)
      /\ g \in Graphs(Acs, Resources(g))
  BY ExecutorAssumption DEF PlanInv, Acs
<1>2. DOMAIN g.claims = Acs /\ \A b \in Acs : g.deps[b] \subseteq Acs
  BY <1>1 DEF Graphs
<1>3. Plannable(g) /\ stages = Stages(g)
  BY DEF PlanInv
<1> HIDE DEF g
<1>4. /\ DOMAIN g.deps \in SUBSET Nat /\ IsFiniteSet(DOMAIN g.deps)
      /\ DOMAIN g.claims \subseteq DOMAIN g.deps
      /\ \A b \in DOMAIN g.deps : g.deps[b] \subseteq DOMAIN g.deps
  BY <1>1, <1>2 DEF Acs, g
<1>5. Dependencies(g)[a] \subseteq Behind(stages, k - 1)
  BY <1>3, <1>4, PlanIsOrdered
<1>6. QED
  BY <1>5 DEF Deps, g

\* What the first k stages hold has its dependencies among itself.
LEMMA BehindIsClosed ==
  ASSUME PlanInv, pc # "raised", NEW k \in 0 .. Len(stages), NEW a \in Behind(stages, k)
  PROVE  Deps(a) \subseteq Behind(stages, k)
<1>1. PICK i \in 1 .. k : a \in stages[i]
  BY DEF Behind
<1>2. Len(stages) \in Nat /\ IsPartition(stages, Acs)
  BY PlanFacts
<1>3. i \in 1 .. Len(stages) /\ i - 1 \in 0 .. Len(stages) /\ i - 1 <= k
  BY <1>2
<1>4. Deps(a) \subseteq Behind(stages, i - 1)
  BY <1>1, <1>3, PlanFollows
<1>5. Behind(stages, i - 1) \subseteq Behind(stages, k)
  BY <1>2, <1>3, BehindGrows
<1>6. QED
  BY <1>4, <1>5

\* Where the run stands between two stages, and in one.
LEMMA FinishedIs ==
  ASSUME PlanInv, PlaceInv, WorkInv
  PROVE  /\ Finished \subseteq Acs /\ Finished \cap DOMAIN work = {}
         /\ pc # "batch" => DOMAIN work = {} /\ Finished = Behind(stages, Entered)
         /\ pc # "raised" => \A a \in Finished : Deps(a) \subseteq Finished
         /\ pc = "batch" => \A a \in DOMAIN work : Deps(a) \subseteq Finished
         /\ Entered \in Int
<1>1. /\ Len(stages) \in Nat /\ Behind(stages, 0) = {} /\ Behind(stages, -1) = {}
      /\ \A k \in 0 .. Len(stages) : Behind(stages, k) \subseteq Acs
      /\ \A k \in 1 .. Len(stages) :
           /\ Behind(stages, k) = Behind(stages, k - 1) \cup stages[k]
           /\ Behind(stages, k - 1) \cap stages[k] = {}
  BY PlanFacts, BehindGrows
<1>2. Entered \in 0 .. Len(stages) \/ Entered = -1
  BY <1>1 DEF PlaceInv, Entered
<1>3. Finished \subseteq Acs /\ Finished \cap DOMAIN work = {}
  BY <1>1, <1>2 DEF Finished
<1>4. pc # "batch" => DOMAIN work = {} /\ Finished = Behind(stages, Entered)
  BY DEF WorkInv, Finished
<1>5. ASSUME pc = "batch"
      PROVE  /\ Entered = level /\ level \in 1 .. Len(stages)
             /\ DOMAIN work \subseteq stages[level]
             /\ Behind(stages, level - 1) \subseteq Finished
             /\ \A a \in stages[level] : Deps(a) \subseteq Behind(stages, level - 1)
  <2>1. Entered = level /\ level \in 1 .. Len(stages) /\ DOMAIN work \subseteq stages[level]
    BY <1>5 DEF Entered, PlaceInv, WorkInv
  <2>2. Behind(stages, level - 1) \subseteq Finished
    BY <1>1, <2>1 DEF Finished
  <2>3. QED
    BY <1>5, <2>1, <2>2, PlanFollows
<1>6. ASSUME pc # "raised", NEW a \in Finished
      PROVE  Deps(a) \subseteq Finished
  <2>1. CASE pc = "batch"
    <3>1. a \in Behind(stages, level - 1) \/ a \in stages[level]
      BY <1>1, <1>5, <2>1 DEF Finished
    <3>2. level - 1 \in 0 .. Len(stages)
      BY <1>1, <1>5, <2>1
    <3>3. QED
      BY <1>5, <1>6, <2>1, <3>1, <3>2, BehindIsClosed
  <2>2. CASE pc # "batch"
    <3>1. CASE Entered = -1
      BY <1>1, <1>4, <2>2, <3>1
    <3>2. CASE Entered \in 0 .. Len(stages)
      BY <1>4, <1>6, <2>2, <3>2, BehindIsClosed
    <3>3. QED
      BY <1>2, <3>1, <3>2
  <2>3. QED
    BY <2>1, <2>2
<1>7. QED
  <2>1. pc = "batch" => \A a \in DOMAIN work : Deps(a) \subseteq Finished
    BY <1>5
  <2>2. Entered \in Int
    BY <1>1, <1>2
  <2>3. QED
    BY <1>3, <1>4, <1>6, <2>1, <2>2

-----------------------------------------------------------------------------
(* What the invariant is for                                               *)

LEMMA RunsAfter == RunInv => RunsAfterItsDependencies
<1> SUFFICES ASSUME RunInv, NEW a \in DOMAIN work, NEW d \in Deps(a)
             PROVE  IF statuses[d] = "completed"
                    THEN \/ d \in input.satisfied
                         \/ \E i \in DOMAIN contexts : d \in stages[contexts[i]]
                    ELSE statuses[d] = "skipped" /\ faults > 0
  BY DEF RunsAfterItsDependencies
<1>1. pc = "batch"
  BY DEF RunInv, WorkInv
<1>2. d \in Finished /\ Finished \subseteq Acs
  BY <1>1, FinishedIs DEF RunInv
<1>3. /\ Settled(input, Finished, DOMAIN work, statuses)
      /\ failed = With(statuses, Finished, "failed")
      /\ contexts \in Seq(Nat)
      /\ Earned(input, stages, done, Finished, statuses, contexts)
  BY DEF RunInv, RecordInv, Record, Current
<1>4. d \notin failed /\ d \notin blocked
  BY DEF RunInv, WorkInv
<1>5. statuses[d] \in Final /\ statuses[d] # "failed"
  BY <1>2, <1>3, <1>4 DEF Settled, With, Acs, AcsOf
<1>6. CASE statuses[d] = "completed"
  <2>1. Vouched(input, stages, done, contexts, d)
    BY <1>2, <1>3, <1>6 DEF Earned, With
  <2>2. DOMAIN contexts = 1 .. Len(contexts)
    BY <1>3
  <2>3. QED
    BY <1>6, <2>1, <2>2 DEF Vouched
<1>7. CASE statuses[d] # "completed"
  <2>1. statuses[d] = "skipped"
    BY <1>5, <1>7 DEF Final
  <2>2. faults # 0
    BY <1>2, <1>4, <2>1 DEF RunInv, BlockedInv, With
  <2>3. faults > 0
    BY <2>2 DEF RunInv, CountInv
  <2>4. QED
    BY <1>7, <2>1, <2>3
<1>8. QED
  BY <1>6, <1>7

LEMMA AreEarned == RunInv => ResultsAreEarned
<1> SUFFICES ASSUME RunInv, pc = "returned"
             PROVE  /\ \A a \in Acs : Cardinality({i \in DOMAIN results : results[i].ac = a}) = 1
                    /\ \A i \in DOMAIN results :
                         /\ results[i].outcome = "succeeded"
                              => results[i].ac \in done \cup input.satisfied
                         /\ results[i].outcome \in {"succeeded", "satisfied_externally"}
                              => \A d \in Deps(results[i].ac) : statuses[d] # "failed"
                    /\ completed = Cardinality({a \in Acs : statuses[a] = "completed"})
  BY DEF ResultsAreEarned
<1>1. Finished = Acs
  <2>1. Finished = Behind(stages, Entered) /\ Len(stages) \in Nat
    BY FinishedIs, PlanFacts DEF RunInv
  <2>2. Entered = Len(stages)
    BY <2>1 DEF RunInv, PlaceInv, Entered
  <2>3. QED
    BY <2>1, <2>2, PlanFacts, BehindGrows DEF RunInv
<1>2. Tells(Acs, Acs, results, statuses)
  BY <1>1 DEF RunInv, RecordInv
<1>3. DOMAIN results = 1 .. Len(results)
  BY <1>2 DEF Tells
<1>4. ASSUME NEW a \in Acs
      PROVE  Cardinality({i \in DOMAIN results : results[i].ac = a}) = 1
  <2>1. PICK i \in 1 .. Len(results) : results[i].ac = a
    BY <1>2 DEF Tells
  <2>2. \A j \in 1 .. Len(results) : results[j].ac = a => j = i
    BY <1>2, <2>1 DEF Tells
  <2>3. {j \in DOMAIN results : results[j].ac = a} = {i}
    BY <1>3, <2>1, <2>2
  <2>4. QED
    BY <2>3, FS_Singleton
<1>5. /\ Earned(input, stages, done, Acs, statuses, contexts)
      /\ completed = Cardinality(With(statuses, Acs, "completed"))
  BY <1>1 DEF RunInv, RecordInv, Record, Current
<1>6. ASSUME NEW i \in DOMAIN results, results[i].outcome \in {"succeeded", "satisfied_externally"}
      PROVE  /\ results[i].ac \in done \cup input.satisfied
             /\ \A d \in Deps(results[i].ac) : statuses[d] # "failed"
  <2>1. results[i].ac \in With(statuses, Acs, "completed")
    BY <1>2, <1>3, <1>6 DEF Tells, Good, With
  <2>2. QED
    BY <1>5, <2>1 DEF Earned, Vouched, DepsOf, Deps
<1>7. completed = Cardinality({a \in Acs : statuses[a] = "completed"})
  BY <1>5 DEF With
<1>8. QED
  BY <1>4, <1>6, <1>7

\* The files hold what a save may leave.
FileStates == \A i \in Store!Levels : files[i].state \in {"absent", "corrupt", "valid"}

LEMMA TypesSuffice ==
  ASSUME RunInv, step \in Store!SaveSteps, FileStates
  PROVE  TypeOK
<1>1. /\ Acs \in SUBSET Nat /\ IsFiniteSet(Acs) /\ Len(stages) \in Nat
      /\ Len(stages) <= Cardinality(Acs) /\ Cardinality(Acs) \in Nat
  BY PlanFacts, FewStages, FS_CardinalityType DEF RunInv
<1>2. Finished \subseteq Acs
  BY FinishedIs DEF RunInv
<1>3. /\ input \in Inputs
      /\ pc \in {"begin", "stage", "batch", "saving", "returned", "raised"}
      /\ level \in 0 .. Cardinality(Acs) + 1
  BY <1>1 DEF RunInv, PlanInv, PlaceInv
<1>4. /\ Settled(input, Finished, DOMAIN work, statuses)
      /\ failed = With(statuses, Finished, "failed")
      /\ completed = Cardinality(With(statuses, Finished, "completed"))
      /\ contexts \in Seq(Nat)
  BY DEF RunInv, RecordInv, Record, Current
<1>5. statuses \in [Acs -> Statuses] /\ failed \subseteq Acs /\ blocked \subseteq Acs
  BY <1>2, <1>4 DEF Settled, With, Acs, AcsOf, RunInv, BlockedInv
<1>6. completed \in 0 .. Cardinality(Acs)
  <2>1. With(statuses, Finished, "completed") \subseteq Acs
    BY <1>2 DEF With
  <2>2. /\ Cardinality(With(statuses, Finished, "completed")) <= Cardinality(Acs)
        /\ Cardinality(With(statuses, Finished, "completed")) \in Nat
    BY <1>1, <2>1, FS_Subset, FS_CardinalityType
  <2>3. QED
    BY <1>1, <1>4, <2>2
<1>7. results \in Seq([ac : Acs, outcome : Outcomes])
  BY DEF RunInv, RecordInv, Tells
<1>8. DOMAIN work \subseteq Acs
  <2>1. IsPartition(stages, Acs)
    BY PlanFacts DEF RunInv
  <2>2. pc = "batch" => stages[level] \subseteq Acs
    BY <2>1, BehindGrows DEF RunInv, PlaceInv
  <2>3. QED
    BY <2>2 DEF RunInv, WorkInv
<1>9. ASSUME NEW a \in DOMAIN work
      PROVE  /\ work[a].phase \in Phases
             /\ work[a].tries \in 0 .. MaxStallRetries
             /\ work[a].good \in BOOLEAN
             /\ Len(work[a].path) <= MaxDepth
             /\ \A f \in {work[a].path[i] : i \in DOMAIN work[a].path} :
                  f.at \in 1 .. f.of /\ f.of \in MinSubAcs .. MaxSubAcs
  <2>1. work[a] \in Executions
    BY DEF RunInv, WorkInv
  <2>2. work[a].path \in Seq(Places)
    BY <2>1 DEF Executions
  <2>3. ASSUME NEW S, NEW p \in Seq(S)
        PROVE  \A i \in DOMAIN p : p[i] \in S
    OBVIOUS
  <2>4. \A i \in DOMAIN work[a].path : work[a].path[i] \in Places
    BY <2>2, <2>3
  <2>5. QED
    BY <2>1, <2>4 DEF Executions, Places
<1>10. slots \in 0 .. MaxConcurrent
  <2>1. IsFiniteSet(BusyIn(work))
    <3>1. BusyIn(work) \subseteq Acs
      BY <1>8 DEF BusyIn
    <3>2. QED
      BY <1>1, <3>1, FS_Subset
  <2>2. Cardinality(BusyIn(work)) \in Nat
    BY <2>1, FS_CardinalityType
  <2>3. QED
    BY <2>2, ExecutorAssumption DEF RunInv, WorkInv
<1>11. faults \in 0 .. MaxFaults /\ done \subseteq Acs
  BY DEF RunInv, CountInv
<1>12. \A i \in Store!Levels : files[i].state \in {"absent", "corrupt", "valid"}
  BY DEF FileStates
<1>13. QED
  BY <1>3, <1>4, <1>5, <1>6, <1>7, <1>8, <1>9, <1>10, <1>11, <1>12, Zenon DEF TypeOK

-----------------------------------------------------------------------------
(* Steps that settle no AC                                                 *)

\* The plan is made once.
LEMMA PlanIsFixed ==
  ASSUME [Next]_vars
  PROVE  input' = input /\ stages' = stages
BY DEF Next, RunStep, Begin, EnterStage, Return, EndBatch, SaveStep, SaveFails, Interrupt,
       AcStep, StartAc, Decompose, CallAgent, Stall, EndCall, CallReadsBlocked, OnlyWork, vars

LEMMA PlanStays ==
  ASSUME PlanInv, input' = input, stages' = stages, pc' # "raised" => pc # "raised"
  PROVE  PlanInv'
BY DEF PlanInv

\* What the store holds is good as long as it is not written to.
LEMMA StoreStays ==
  ASSUME StoreInv, input' = input, stages' = stages, files' = files, done \subseteq done',
         faults' = 0 => pc' # "begin"
  PROVE  StoreInv'
<1>1. ASSUME NEW i \in Store!Levels, IsValid(files, i)
      PROVE  GoodCheckpoint(input, stages, done', files[i].data)
  BY <1>1, RecordOfMore DEF StoreInv, GoodCheckpoint
<1>2. QED
  BY <1>1 DEF StoreInv

\* Nothing is executing.
LEMMA NothingBusy ==
  ASSUME NEW w, BusyIn(w) = {}, NEW s \in Nat
  PROVE  s + Cardinality(BusyIn(w)) = s
BY FS_EmptySet

LEMMA NoWorkIsTyped ==
  /\ NoWork \in [DOMAIN NoWork -> Executions] /\ DOMAIN NoWork = {} /\ BusyIn(NoWork) = {}
BY DEF NoWork, BusyIn

LEMMA RunInit == Init => RunInv
<1> SUFFICES ASSUME Init
             PROVE  RunInv
  OBVIOUS
<1>1. PlanInv /\ PlaceInv /\ CountInv
  BY ExecutorAssumption DEF Init, PlanInv, PlaceInv, CountInv
<1>2. Finished = {} /\ DOMAIN work = {}
  <2>1. Entered = -1
    BY DEF Init, Entered
  <2>2. Behind(stages, -1) = {}
    BY DEF Behind
  <2>3. QED
    BY <2>1, <2>2 DEF Finished, Init, NoWork
<1>3. RecordInv
  <2>1. Record(input, stages, done, {}, {}, Current)
    BY RecordOfNone DEF Init, Current, Pending, Acs, AcsOf
  <2>2. Tells(Acs, {}, results, statuses)
    BY NoneTold DEF Init
  <2>3. QED
    BY <1>2, <2>1, <2>2 DEF RecordInv
<1>4. BlockedInv
  BY <1>2 DEF Init, BlockedInv, With
<1>5. StoreInv
  BY DEF Init, StoreInv, IsValid, Store!NoFiles, Store!Absent
<1>6. WorkInv
  <2>1. work = NoWork /\ slots = MaxConcurrent /\ slots \in Nat
    BY ExecutorAssumption DEF Init
  <2>2. slots + Cardinality(BusyIn(work)) = MaxConcurrent
    BY <2>1, NoWorkIsTyped, NothingBusy
  <2>3. QED
    BY <1>2, <2>1, <2>2, NoWorkIsTyped DEF WorkInv
<1>7. QED
  BY <1>1, <1>3, <1>4, <1>5, <1>6 DEF RunInv

\* Steps that leave the record, the results and the work as they are.
LEMMA RecordStays ==
  ASSUME RunInv, UNCHANGED <<input, stages, statuses, failed, blocked, completed, contexts,
                             results>>,
         done \subseteq done', faults' = 0 => faults = 0,
         Finished' = Finished, DOMAIN work' = DOMAIN work
  PROVE  RecordInv' /\ BlockedInv'
<1>1. Record(input, stages, done, Finished, DOMAIN work, Current)
  BY DEF RunInv, RecordInv
<1>2. Record(input, stages, done', Finished, DOMAIN work, Current)
  BY <1>1, RecordOfMore
<1>3. Record(input, stages, done', Finished, DOMAIN work, Current')
  <2> DEFINE c == Current
             d == Current'
  <2>1. /\ d.statuses = c.statuses /\ d.failed = c.failed /\ d.completed = c.completed
        /\ d.contexts = c.contexts
    BY DEF Current
  <2>2. Record(input, stages, done', Finished, DOMAIN work, c)
    BY <1>2
  <2> HIDE DEF c, d
  <2>3. Record(input, stages, done', Finished, DOMAIN work, d)
    BY <2>1, <2>2, RecordSame
  <2>4. QED
    BY <2>3 DEF d
<1>4. Acs' = Acs
  BY DEF Acs
<1>5. RecordInv'
  BY <1>3, <1>4 DEF RunInv, RecordInv
<1>6. BlockedInv'
  BY DEF RunInv, BlockedInv
<1>7. QED
  BY <1>5, <1>6

LEMMA ReturnKeeps == RunInv /\ Return => RunInv'
<1> SUFFICES ASSUME RunInv, Return
             PROVE  RunInv'
  OBVIOUS
<1>1. /\ pc = "stage" /\ pc' = "returned" /\ level > Len(stages)
      /\ UNCHANGED <<input, stages, level, statuses, failed, blocked, completed, contexts, results,
                     work, slots, files, step, faults, done>>
  BY DEF Return, memory, ghosts
<1>2. PlanInv' /\ StoreInv' /\ CountInv'
  BY <1>1, PlanStays, StoreStays DEF RunInv, CountInv, Acs
<1>3. PlaceInv'
  <2>1. Len(stages) \in Nat
    BY PlanFacts DEF RunInv
  <2>2. QED
    BY <1>1, <2>1 DEF RunInv, PlaceInv
<1>4. Finished' = Finished
  BY <1>1 DEF Finished, Entered
<1>5. RecordInv' /\ BlockedInv'
  BY <1>1, <1>4, RecordStays
<1>6. WorkInv'
  BY <1>1 DEF RunInv, WorkInv, Deps
<1>7. QED
  BY <1>2, <1>3, <1>5, <1>6 DEF RunInv

LEMMA InterruptKeeps == RunInv /\ Interrupt => RunInv'
<1> SUFFICES ASSUME RunInv, Interrupt
             PROVE  RunInv'
  OBVIOUS
<1>1. /\ pc \in {"stage", "batch", "saving"} /\ pc' = "begin" /\ faults < MaxFaults
      /\ level' = 0 /\ statuses' = Pending /\ failed' = {} /\ blocked' = {} /\ completed' = 0
      /\ contexts' = << >> /\ results' = << >> /\ work' = NoWork /\ slots' = MaxConcurrent
      /\ faults' = faults + 1
      /\ UNCHANGED <<input, stages, files, done>>
  BY DEF Interrupt
<1>2. faults' \in 0 .. MaxFaults /\ faults' # 0
  BY <1>1, ExecutorAssumption DEF RunInv, CountInv
<1>3. PlanInv' /\ PlaceInv' /\ StoreInv' /\ CountInv'
  BY <1>1, <1>2, PlanStays, StoreStays DEF RunInv, PlaceInv, CountInv, Acs
<1>4. Finished' = {} /\ DOMAIN work' = {}
  <2>1. Entered' = -1
    BY <1>1 DEF Entered
  <2>2. Behind(stages', -1) = {}
    BY DEF Behind
  <2>3. QED
    BY <1>1, <2>1, <2>2, NoWorkIsTyped DEF Finished
<1>5. RecordInv'
  <2>1. Record(input', stages', done', {}, {}, Current')
    <3> DEFINE d == Current'
    <3>1. /\ d.statuses = [a \in AcsOf(input') |-> "pending"] /\ d.failed = {}
          /\ d.completed = 0 /\ d.contexts = << >>
      BY <1>1 DEF Current, Pending, Acs, AcsOf
    <3> HIDE DEF d
    <3>2. Record(input', stages', done', {}, {}, d)
      BY <3>1, RecordOfNone
    <3>3. QED
      BY <3>2 DEF d
  <2>2. Tells(Acs', {}, results', statuses')
    BY <1>1, NoneTold
  <2>3. QED
    BY <1>4, <2>1, <2>2 DEF RecordInv
<1>6. BlockedInv'
  BY <1>1, <1>2 DEF BlockedInv
<1>7. WorkInv'
  <2>1. slots' \in Nat
    BY <1>1, ExecutorAssumption
  <2>2. slots' + Cardinality(BusyIn(work')) = MaxConcurrent
    BY <1>1, <2>1, NoWorkIsTyped, NothingBusy
  <2>3. QED
    BY <1>1, <1>4, <2>1, <2>2, NoWorkIsTyped DEF WorkInv
<1>8. QED
  BY <1>3, <1>5, <1>6, <1>7 DEF RunInv

-----------------------------------------------------------------------------
(* The steps of a save, and the load                                       *)

\* A step of a save makes a checkpoint valid only where it moves it, or as
\* the last step, which makes the new one valid.
LEMMA StepsMove ==
  ASSUME files = [i \in Store!Levels |-> files[i]],
         NEW n \in Store!SaveSteps, NEW c,
         NEW i \in Store!Levels, IsValid(Store!AfterStep(files, n, c), i)
  PROVE  \/ n = 5 /\ Store!AfterStep(files, n, c)[i].data = c
         \/ \E j \in Store!Levels : /\ IsValid(files, j)
                                    /\ files[j].data = Store!AfterStep(files, n, c)[i].data
<1> DEFINE fs == Store!AfterStep(files, n, c)
<1>1. ASSUME NEW j \in Store!Levels, fs[i] = files[j]
      PROVE  \E k \in Store!Levels : IsValid(files, k) /\ files[k].data = fs[i].data
  BY <1>1 DEF IsValid
<1>2. CASE n = 0
  <2>1. fs[i] = files[i]
    BY <1>2 DEF Store!AfterStep, Store!Levels, Store!MaxRollbackDepth, IsValid, Store!Absent
  <2>2. QED
    BY <1>1, <2>1
<1>3. CASE n \in 1 .. 3
  <2>1. fs[i] = files[i] \/ (i - 1 \in Store!Levels /\ fs[i] = files[i - 1])
    BY <1>3 DEF Store!AfterStep, Store!Renamed, Store!Levels, Store!MaxRollbackDepth, IsValid,
                Store!Absent
  <2>2. QED
    BY <1>1, <2>1
<1>4. CASE n = 4
  <2>1. fs[i] = files[i]
    BY <1>4 DEF Store!AfterStep, Store!Levels, Store!MaxRollbackDepth, IsValid, Store!Corrupt
  <2>2. QED
    BY <1>1, <2>1
<1>5. CASE n = 5
  <2>1. fs[i] = files[i] \/ fs[i].data = c
    BY <1>5 DEF Store!AfterStep, Store!Levels, Store!MaxRollbackDepth, Store!Valid
  <2>2. QED
    BY <1>1, <1>5, <2>1
<1>6. QED
  BY <1>2, <1>3, <1>4, <1>5 DEF Store!SaveSteps, Store!MaxRollbackDepth

LEMMA StepsLeaveStates ==
  ASSUME files = [i \in Store!Levels |-> files[i]], FileStates,
         NEW n \in Store!SaveSteps, NEW c, NEW i \in Store!Levels
  PROVE  Store!AfterStep(files, n, c)[i].state \in {"absent", "corrupt", "valid"}
<1> DEFINE fs == Store!AfterStep(files, n, c)
<1>1. CASE n = 0
  BY <1>1 DEF Store!AfterStep, Store!Levels, Store!MaxRollbackDepth, FileStates, Store!Absent
<1>2. CASE n \in 1 .. 3
  BY <1>2 DEF Store!AfterStep, Store!Renamed, Store!Levels, Store!MaxRollbackDepth, FileStates,
              Store!Absent
<1>3. CASE n = 4
  BY <1>3 DEF Store!AfterStep, Store!Levels, Store!MaxRollbackDepth, FileStates, Store!Corrupt
<1>4. CASE n = 5
  BY <1>4 DEF Store!AfterStep, Store!Levels, Store!MaxRollbackDepth, FileStates, Store!Valid
<1>5. QED
  BY <1>1, <1>2, <1>3, <1>4 DEF Store!SaveSteps, Store!MaxRollbackDepth

\* The load finds one of the valid checkpoints, if there is one.
LEMMA LoadedIsStored ==
  ASSUME NEW fs
  PROVE  \/ /\ Store!Loaded(fs) = NoCheckpoint
            /\ \A i \in Store!Levels : ~ IsValid(fs, i)
         \/ \E i \in Store!Levels : IsValid(fs, i) /\ Store!Loaded(fs) = fs[i].data
<1> DEFINE valid == {i \in Store!Levels : fs[i].state = "valid"}
<1>1. CASE valid = {}
  BY <1>1, LoadedOfNothing DEF IsValid
<1>2. CASE valid # {}
  <2>1. valid \in SUBSET Nat
    BY DEF Store!Levels, Store!MaxRollbackDepth
  <2> HIDE DEF valid
  <2>2. \E i \in valid : \A j \in valid : i <= j
    BY <1>2, <2>1, LeastNumber
  <2>3. (CHOOSE i \in valid : \A j \in valid : i <= j) \in valid
    BY <2>2
  <2>4. Store!Loaded(fs) = fs[CHOOSE i \in valid : \A j \in valid : i <= j].data
    BY <1>2 DEF Store!Loaded, valid
  <2>5. QED
    BY <2>3, <2>4 DEF valid, IsValid
<1>3. QED
  BY <1>1, <1>2

LEMMA SaveStepKeepsRun == RunInv /\ FilesInv /\ SaveStep => RunInv'
<1> SUFFICES ASSUME RunInv, FilesInv, SaveStep
             PROVE  RunInv'
  OBVIOUS
<1>1. /\ pc = "saving" /\ files' = Store!AfterStep(files, step, Current)
      /\ \/ pc' = "saving" /\ level' = level
         \/ pc' = "stage" /\ level' = level + 1
      /\ UNCHANGED <<input, stages, statuses, failed, blocked, completed, contexts, results,
                     work, slots, faults, done>>
  BY DEF SaveStep, NextStage
<1>2. /\ level \in 1 .. Len(stages) /\ Len(stages) \in Nat
      /\ DOMAIN work = {} /\ Finished = Behind(stages, level)
  BY <1>1, PlanFacts, FinishedIs DEF RunInv, PlaceInv, Entered
<1>3. PlanInv' /\ PlaceInv' /\ CountInv'
  BY <1>1, <1>2, PlanStays DEF RunInv, PlaceInv, CountInv, Acs
<1>4. Finished' = Finished
  BY <1>1, <1>2 DEF Finished, Entered
<1>5. RecordInv' /\ BlockedInv'
  BY <1>1, <1>4, RecordStays
<1>6. StoreInv'
  <2>1. GoodCheckpoint(input, stages, done, Current)
    BY <1>2 DEF RunInv, RecordInv, GoodCheckpoint, Current
  <2>2. files = [i \in Store!Levels |-> files[i]] /\ step \in Store!SaveSteps
    BY DEF FilesInv
  <2>3. ASSUME NEW i \in Store!Levels, IsValid(files', i)
        PROVE  GoodCheckpoint(input, stages, done, files'[i].data)
    <3>1. \/ files'[i].data = Current
          \/ \E j \in Store!Levels : IsValid(files, j) /\ files[j].data = files'[i].data
      BY <1>1, <2>2, <2>3, StepsMove
    <3>2. QED
      BY <2>1, <3>1 DEF RunInv, StoreInv
  <2>4. QED
    BY <1>1, <2>3 DEF StoreInv
<1>7. WorkInv'
  BY <1>1, <1>2 DEF RunInv, WorkInv, Deps
<1>8. QED
  BY <1>3, <1>5, <1>6, <1>7 DEF RunInv

LEMMA SaveFailsKeepsRun == RunInv /\ SaveFails => RunInv'
<1> SUFFICES ASSUME RunInv, SaveFails
             PROVE  RunInv'
  OBVIOUS
<1>1. /\ pc = "saving" /\ pc' = "stage" /\ level' = level + 1
      /\ faults < MaxFaults /\ faults' = faults + 1
      /\ UNCHANGED <<input, stages, statuses, failed, blocked, completed, contexts, results,
                     work, slots, files, done>>
  BY DEF SaveFails, NextStage
<1>2. /\ level \in 1 .. Len(stages) /\ Len(stages) \in Nat
      /\ DOMAIN work = {} /\ Finished = Behind(stages, level)
  BY <1>1, PlanFacts, FinishedIs DEF RunInv, PlaceInv, Entered
<1>3. faults' \in 0 .. MaxFaults /\ faults' # 0
  BY <1>1, ExecutorAssumption DEF RunInv, CountInv
<1>4. PlanInv' /\ PlaceInv' /\ CountInv' /\ StoreInv'
  BY <1>1, <1>2, <1>3, PlanStays, StoreStays DEF RunInv, PlaceInv, CountInv, Acs
<1>5. Finished' = Finished
  BY <1>1, <1>2 DEF Finished, Entered
<1>6. RecordInv' /\ BlockedInv'
  BY <1>1, <1>3, <1>5, RecordStays
<1>7. WorkInv'
  BY <1>1, <1>2 DEF RunInv, WorkInv, Deps
<1>8. QED
  BY <1>4, <1>6, <1>7 DEF RunInv

LEMMA BeginKeeps == RunInv /\ Begin => RunInv'
<1> SUFFICES ASSUME RunInv, Begin
             PROVE  RunInv'
  OBVIOUS
<1> DEFINE found == Store!Loaded(files)
           F == Behind(stages, found.levels)
           st == IF found.levels = 0 THEN Pending ELSE found.statuses
           c == [statuses |-> st, failed |-> found.failed, completed |-> found.completed,
                 contexts |-> found.contexts]
<1>1. /\ pc = "begin" /\ pc' = "stage"
      /\ level' = found.levels + 1 /\ statuses' = st /\ failed' = found.failed
      /\ completed' = found.completed /\ contexts' = found.contexts
      /\ results' = Restored(found) /\ blocked' = {}
      /\ UNCHANGED <<input, stages, work, slots, files, faults, done>>
  BY DEF Begin, ghosts
<1>2. /\ Acs \in SUBSET Nat /\ IsFiniteSet(Acs) /\ IsPartition(stages, Acs)
      /\ Len(stages) \in Nat /\ Behind(stages, 0) = {}
  BY PlanFacts, BehindGrows DEF RunInv
<1>3. /\ found.levels \in 0 .. Len(stages)
      /\ Record(input, stages, done, F, {}, c)
      /\ \A a \in F : st[a] = found.statuses[a]
      /\ faults = 0 => found.levels = 0
  <2>1. CASE found = NoCheckpoint /\ \A i \in Store!Levels : ~ IsValid(files, i)
    <3>1. found.levels = 0 /\ F = {}
      BY <1>2, <2>1 DEF NoCheckpoint
    <3>2. /\ c.statuses = [a \in AcsOf(input) |-> "pending"] /\ c.failed = {}
          /\ c.completed = 0 /\ c.contexts = << >>
      BY <2>1, <3>1 DEF NoCheckpoint, Pending, Acs, AcsOf
    <3> HIDE DEF c, F
    <3>3. Record(input, stages, done, {}, {}, c)
      BY <3>2, RecordOfNone
    <3>4. QED
      BY <1>2, <3>1, <3>3
  <2>2. CASE \E i \in Store!Levels : IsValid(files, i) /\ found = files[i].data
    <3>1. GoodCheckpoint(input, stages, done, found) /\ faults # 0
      BY <1>1, <2>2 DEF RunInv, StoreInv
    <3>2. found.levels \in 1 .. Len(stages) /\ st = found.statuses
      BY <3>1 DEF GoodCheckpoint
    <3>3. /\ found.levels \in 0 .. Len(stages)
          /\ Record(input, stages, done, F, {}, found)
      BY <1>2, <3>1, <3>2 DEF GoodCheckpoint
    <3>4. /\ c.statuses = found.statuses /\ c.failed = found.failed
          /\ c.completed = found.completed /\ c.contexts = found.contexts
      BY <3>2
    <3> HIDE DEF c, F, st, found
    <3>5. Record(input, stages, done, F, {}, c)
      BY <3>3, <3>4, RecordSame
    <3>6. QED
      BY <3>1, <3>2, <3>3, <3>5
  <2>3. QED
    BY <2>1, <2>2, LoadedIsStored
<1> HIDE DEF found
<1>4. PlanInv' /\ PlaceInv' /\ CountInv' /\ StoreInv'
  <2>1. PlaceInv'
    BY <1>1, <1>2, <1>3 DEF PlaceInv
  <2>2. PlanInv' /\ CountInv' /\ StoreInv'
    BY <1>1, PlanStays, StoreStays DEF RunInv, CountInv, Acs
  <2>3. QED
    BY <2>1, <2>2
<1>5. DOMAIN work' = {} /\ Finished' = F
  <2>1. DOMAIN work = {}
    BY <1>1 DEF RunInv, WorkInv
  <2>2. Entered' = found.levels
    BY <1>1, <1>2, <1>3 DEF Entered
  <2>3. QED
    BY <1>1, <2>1, <2>2 DEF Finished
<1>6. RecordInv'
  <2>1. Record(input, stages, done, F, {}, Current')
    <3> DEFINE d == Current'
    <3>1. Record(input, stages, done, F, {}, c)
      BY <1>3
    <3>2. /\ d.statuses = st /\ d.failed = found.failed
          /\ d.completed = found.completed /\ d.contexts = found.contexts
      BY <1>1 DEF Current
    <3>3. /\ d.statuses = c.statuses /\ d.failed = c.failed
          /\ d.completed = c.completed /\ d.contexts = c.contexts
      BY <3>2
    <3> HIDE DEF c, d, F, st
    <3>4. Record(input, stages, done, F, {}, d)
      BY <3>1, <3>3, RecordSame
    <3>5. QED
      BY <3>4 DEF d
  <2>2. Tells(Acs, F, Restored(found), found.statuses)
    BY <1>2, <1>3, RestoredTells
  <2>3. Tells(Acs, F, results', statuses')
    BY <1>1, <1>3, <2>2, TellsStill
  <2>4. Acs' = Acs
    BY <1>1 DEF Acs
  <2>5. QED
    BY <1>1, <1>5, <2>1, <2>3, <2>4 DEF RecordInv
<1>7. BlockedInv'
  <2>1. faults = 0 => F = {}
    BY <1>2, <1>3
  <2>2. QED
    BY <1>1, <1>5, <2>1 DEF BlockedInv, With
<1>8. WorkInv'
  BY <1>1, <1>5 DEF RunInv, WorkInv, Deps
<1>9. QED
  BY <1>4, <1>6, <1>7, <1>8 DEF RunInv

-----------------------------------------------------------------------------
(* A stage is entered                                                      *)

\* What entering a stage settles, and what it leaves to be executed.
LEMMA StageIsSorted ==
  ASSUME RunInv, pc = "stage", level <= Len(stages),
         NEW acs, acs = stages[level]
  PROVE  /\ level \in 1 .. Len(stages) /\ acs \subseteq Acs
         /\ Finished = Behind(stages, level - 1) /\ Finished \cap acs = {}
         /\ Behind(stages, level) = Finished \cup acs
         /\ \A a \in acs : Deps(a) \subseteq Finished
         /\ acs \ ExecutableIn(acs) = SatisfiedIn(acs) \cup BlockedIn(acs)
         /\ SatisfiedIn(acs) \cap BlockedIn(acs) = {}
         /\ SatisfiedIn(acs) \subseteq acs /\ BlockedIn(acs) \subseteq acs
         /\ ExecutableIn(acs) \subseteq acs
         /\ DOMAIN work = {}
<1>1. level \in 1 .. Len(stages) /\ Len(stages) \in Nat /\ IsPartition(stages, Acs)
  BY PlanFacts DEF RunInv, PlaceInv
<1>2. Finished = Behind(stages, level - 1) /\ DOMAIN work = {}
  BY FinishedIs DEF RunInv, Entered
<1>3. /\ acs \subseteq Acs
      /\ Behind(stages, level) = Behind(stages, level - 1) \cup acs
      /\ Behind(stages, level - 1) \cap acs = {}
  BY <1>1, BehindGrows
<1>4. \A a \in acs : Deps(a) \subseteq Behind(stages, level - 1)
  BY <1>1, PlanFollows DEF RunInv
<1>5. QED
  BY <1>1, <1>2, <1>3, <1>4 DEF SatisfiedIn, BlockedIn, ExecutableIn

LEMMA EnterStageKeeps == RunInv /\ EnterStage => RunInv'
<1> SUFFICES ASSUME RunInv, EnterStage
             PROVE  RunInv'
  OBVIOUS
<1> DEFINE acs == stages[level]
           F == Finished
           toRun == ExecutableIn(acs)
           sat == SatisfiedIn(acs)
           blk == BlockedIn(acs)
           N == sat \cup blk
           st == [a \in Acs |-> CASE a \in blk -> "skipped" [] a \in sat -> "completed"
                                  [] a \in toRun -> "executing" [] OTHER -> statuses[a]]
           rows == ResultsOf(sat, [a \in Acs |-> "satisfied_externally"])
           others == ResultsOf(blk, [a \in Acs |-> "blocked"])
           started == [a \in toRun |-> [phase |-> "waiting", path |-> << >>,
                                        tries |-> 0, good |-> TRUE]]
<1>1. /\ pc = "stage" /\ level <= Len(stages)
      /\ blocked' = blocked \cup blk /\ completed' = completed + Cardinality(sat)
      /\ statuses' = st /\ results' = results \o rows \o others
      /\ \/ toRun = {} /\ pc' = "stage" /\ level' = level + 1 /\ work' = work
         \/ toRun # {} /\ pc' = "batch" /\ level' = level /\ work' = started
      /\ UNCHANGED <<input, stages, failed, contexts, slots, files, faults, done>>
  BY DEF EnterStage, ghosts
<1>2. /\ level \in 1 .. Len(stages) /\ acs \subseteq Acs
      /\ F \cap acs = {} /\ Behind(stages, level) = F \cup acs
      /\ \A a \in acs : Deps(a) \subseteq F
      /\ acs \ toRun = N /\ sat \cap blk = {}
      /\ sat \subseteq acs /\ blk \subseteq acs /\ toRun \subseteq acs
      /\ DOMAIN work = {}
  BY <1>1, StageIsSorted
<1>3. /\ \A a \in blk : Deps(a) \cap (failed \cup blocked) # {}
      /\ \A a \in toRun \cup sat : Deps(a) \cap (failed \cup blocked) = {}
      /\ sat \subseteq input.satisfied
  BY DEF BlockedIn, SatisfiedIn, ExecutableIn
<1>4. /\ Settled(input, F, {}, statuses) /\ failed = With(statuses, F, "failed")
      /\ completed = Cardinality(With(statuses, F, "completed"))
      /\ contexts \in Seq(Nat)
      /\ Record(input, stages, done, F, {}, Current)
      /\ Tells(Acs, F, results, statuses)
  BY <1>2 DEF RunInv, RecordInv, Record, Current
<1>5. /\ Acs \in SUBSET Nat /\ IsFiniteSet(Acs) /\ F \subseteq Acs
      /\ Len(stages) \in Nat /\ Acs = AcsOf(input) /\ Acs' = Acs
      /\ \A a \in F : Deps(a) \subseteq F
  <2>1. pc # "raised"
    BY <1>1
  <2>2. QED
    BY <1>1, <2>1, PlanFacts, FinishedIs DEF RunInv, Acs, AcsOf
<1> HIDE DEF acs, F, toRun, sat, blk
<1>6. DOMAIN work' = toRun /\ Finished' = F \cup N
  <2>1. CASE toRun = {}
    <3>1. Entered' = level
      BY <1>1, <1>2, <1>5, <2>1 DEF Entered
    <3>2. DOMAIN work' = {}
      BY <1>1, <1>2, <2>1
    <3>3. QED
      BY <1>1, <1>2, <2>1, <3>1, <3>2 DEF Finished
  <2>2. CASE toRun # {}
    <3>1. Entered' = level
      BY <1>1, <2>2 DEF Entered
    <3>2. DOMAIN work' = toRun
      BY <1>1, <2>2
    <3>3. Finished' = (F \cup acs) \ toRun
      BY <1>1, <1>2, <3>1, <3>2 DEF Finished
    <3>4. QED
      BY <1>2, <3>2, <3>3
  <2>3. QED
    BY <2>1, <2>2
<1>7. /\ Settled(input, F \cup N, toRun, st)
      /\ \A a \in F : st[a] = statuses[a]
      /\ \A a \in sat : st[a] = "completed"
      /\ \A a \in blk : st[a] = "skipped"
  <2>1. ASSUME NEW a \in Acs
        PROVE  /\ a \in blk => st[a] = "skipped"
               /\ a \in sat => st[a] = "completed"
               /\ a \in toRun => st[a] = "executing"
               /\ a \notin acs => st[a] = statuses[a]
    BY <1>2
  <2>2. \A a \in Acs : st[a] \in Statuses
    BY <1>2, <1>4, <1>5, <2>1 DEF Settled, Statuses
  <2>3. st \in [Acs -> Statuses]
    BY <2>2
  <2> HIDE DEF st
  <2>4. ASSUME NEW a \in Acs
        PROVE  IF a \in F \cup N THEN st[a] \in Final
               ELSE st[a] = (IF a \in toRun THEN "executing" ELSE "pending")
    <3>1. CASE a \in acs
      BY <1>2, <2>1, <3>1 DEF Final
    <3>2. CASE a \notin acs
      BY <1>2, <1>4, <1>5, <2>1, <3>2 DEF Settled
    <3>3. QED
      BY <3>1, <3>2
  <2>5. QED
    BY <1>2, <1>5, <2>1, <2>3, <2>4 DEF Settled
<1> HIDE DEF st
<1>8. /\ With(st, N, "failed") = {} /\ With(st, N, "completed") = sat
      /\ With(st, F \cup N, "skipped") = With(statuses, F, "skipped") \cup blk
  BY <1>7 DEF With
<1>9. Earned(input, stages, done, N, st, contexts)
  <2>1. ASSUME NEW a \in sat
        PROVE  /\ Vouched(input, stages, done, contexts, a)
               /\ \A d \in DepsOf(input, a) : st[d] # "failed"
    <3>1. Vouched(input, stages, done, contexts, a)
      BY <1>3 DEF Vouched
    <3>2. ASSUME NEW d \in Deps(a)
          PROVE  st[d] # "failed"
      <4>1. d \in F /\ d \notin failed
        BY <1>2, <1>3
      <4>2. QED
        BY <1>4, <1>7, <4>1 DEF With
    <3>3. QED
      BY <3>1, <3>2 DEF Deps, DepsOf
  <2>2. QED
    BY <1>8, <2>1 DEF Earned
<1>10. Record(input, stages, done, F \cup N, toRun, Current')
  <2> DEFINE c == Current
             d == Current'
  <2>1. /\ d.statuses = st /\ d.failed = failed /\ d.contexts = contexts
        /\ d.completed = completed + Cardinality(sat)
        /\ c.statuses = statuses /\ c.failed = failed /\ c.contexts = contexts
        /\ c.completed = completed
    BY <1>1 DEF Current
  <2>2. Record(input, stages, done, F, {}, c)
    BY <1>4
  <2>3. Extends(contexts, contexts)
    BY <1>4 DEF Extends
  <2>4. F \cap N = {} /\ F \in SUBSET AcsOf(input) /\ N \in SUBSET AcsOf(input)
    BY <1>2, <1>5
  <2>5. \A a \in F : DepsOf(input, a) \subseteq F
    BY <1>5 DEF Deps, DepsOf
  <2>6. IsFiniteSet(AcsOf(input))
    BY <1>5
  <2> DEFINE none == {}
  <2>7. Record(input, stages, done, F, none, c)
    BY <2>2
  <2> HIDE DEF c, d, N, none
  <2>8. d.failed = c.failed \cup With(d.statuses, N, "failed")
    BY <1>8, <2>1
  <2>9. d.completed = c.completed + Cardinality(With(d.statuses, N, "completed"))
    BY <1>8, <2>1
  <2>10. /\ Settled(input, F \cup N, toRun, d.statuses)
         /\ \A a \in F : d.statuses[a] = c.statuses[a]
         /\ Extends(c.contexts, d.contexts)
         /\ Earned(input, stages, done, N, d.statuses, d.contexts)
    BY <1>7, <1>9, <2>1, <2>3, Zenon
  <2>11. Record(input, stages, done, F \cup N, toRun, d)
    BY <2>4, <2>5, <2>6, <2>8, <2>9, <2>7, <2>10, RecordGrows
  <2>12. QED
    BY <2>11 DEF d
<1>11. Tells(Acs, F \cup N, results', st)
  <2>1. Tells(Acs, F, results, st)
    BY <1>4, <1>7, TellsStill
  <2>2. IsFiniteSet(sat) /\ IsFiniteSet(blk) /\ sat \in SUBSET Acs /\ blk \in SUBSET Acs
    BY <1>2, <1>5, FS_Subset
  <2>3. Tells(Acs, sat, rows, st)
    <3> DEFINE out == [a \in Acs |-> "satisfied_externally"]
    <3>1. \A a \in sat : out[a] \in Outcomes /\ (out[a] \in Good => st[a] = "completed")
      BY <1>7, <2>2 DEF Outcomes
    <3> HIDE DEF out
    <3>2. Tells(Acs, sat, ResultsOf(sat, out), st)
      BY <1>5, <2>2, <3>1, TellsOf
    <3>3. QED
      BY <3>2 DEF out
  <2>4. Tells(Acs, blk, others, st)
    <3> DEFINE out == [a \in Acs |-> "blocked"]
    <3>1. \A a \in blk : out[a] \in Outcomes /\ (out[a] \in Good => st[a] = "completed")
      BY <2>2 DEF Outcomes, Good
    <3> HIDE DEF out
    <3>2. Tells(Acs, blk, ResultsOf(blk, out), st)
      BY <1>5, <2>2, <3>1, TellsOf
    <3>3. QED
      BY <3>2 DEF out
  <2> HIDE DEF rows, others
  <2>5. F \cap sat = {} /\ (F \cup sat) \cap blk = {}
    BY <1>2
  <2>6. Tells(Acs, F \cup sat, results \o rows, st)
    BY <2>1, <2>3, <2>5, TellsJoined
  <2>7. Tells(Acs, (F \cup sat) \cup blk, (results \o rows) \o others, st)
    BY <2>4, <2>5, <2>6, TellsJoined
  <2>8. (F \cup sat) \cup blk = F \cup N
    OBVIOUS
  <2>9. QED
    BY <1>1, <2>7, <2>8
<1>12. RecordInv'
  BY <1>1, <1>5, <1>6, <1>10, <1>11 DEF RecordInv
<1>13. BlockedInv'
  <2>1. /\ blocked \subseteq With(statuses, F, "skipped")
        /\ faults = 0 => blocked = With(statuses, F, "skipped")
    BY DEF RunInv, BlockedInv, F
  <2>2. QED
    BY <1>1, <1>6, <1>8, <2>1 DEF BlockedInv
<1>14. PlanInv' /\ PlaceInv' /\ StoreInv' /\ CountInv'
  <2>1. PlaceInv'
    BY <1>1, <1>2, <1>5 DEF PlaceInv
  <2>2. PlanInv' /\ CountInv'
    BY <1>1, <1>5, PlanStays DEF RunInv, CountInv
  <2>3. StoreInv'
    <3>1. pc' # "begin"
      BY <1>1
    <3>2. QED
      BY <1>1, <3>1, StoreStays DEF RunInv
  <2>4. QED
    BY <2>1, <2>2, <2>3
<1>15. WorkInv'
  <2>1. BusyIn(work) = {} /\ BusyIn(work') = {}
    <3>1. BusyIn(work) = {}
      BY <1>2 DEF BusyIn
    <3>2. BusyIn(started) = {}
      BY DEF BusyIn, IsBusy
    <3>3. QED
      BY <1>1, <3>1, <3>2
  <2>2. slots' \in Nat /\ slots' + Cardinality(BusyIn(work')) = MaxConcurrent
    BY <1>1, <2>1 DEF RunInv, WorkInv
  <2>3. CASE toRun = {}
    BY <1>1, <1>6, <2>2, <2>3 DEF RunInv, WorkInv
  <2>4. CASE toRun # {}
    <3>1. work' = started /\ pc' = "batch" /\ level' = level
      BY <1>1, <2>4
    <3>2. [phase |-> "waiting", path |-> << >>, tries |-> 0, good |-> TRUE] \in Executions
      <4>1. << >> \in Seq(Places) /\ Len(<< >>) <= MaxDepth
        BY ExecutorAssumption
      <4>2. 0 \in 0 .. MaxStallRetries /\ "waiting" \in Phases
        BY DEF MaxStallRetries, Phases
      <4>3. QED
        BY <4>1, <4>2 DEF Executions
    <3>3. work' \in [DOMAIN work' -> Executions]
      BY <3>1, <3>2
    <3>4. DOMAIN work' \subseteq stages'[level']
      BY <1>1, <1>2, <1>6, <3>1 DEF acs
    <3>5. ASSUME NEW a \in DOMAIN work'
          PROVE  /\ Deps(a)' \cap (failed' \cup blocked') = {}
                 /\ work'[a].phase # "succeeded"
      <4>1. a \in toRun /\ a \in acs
        BY <1>2, <1>6
      <4>2. Deps(a)' = Deps(a)
        BY <1>1 DEF Deps
      <4>3. Deps(a) \cap (failed \cup blocked) = {} /\ Deps(a) \cap blk = {}
        BY <1>2, <1>3, <4>1
      <4>4. work'[a].phase = "waiting"
        BY <3>1, <4>1
      <4>5. QED
        BY <1>1, <4>2, <4>3, <4>4
    <3>6. QED
      BY <2>2, <3>1, <3>3, <3>4, <3>5 DEF WorkInv
  <2>5. QED
    BY <2>3, <2>4
<1>16. QED
  BY <1>12, <1>13, <1>14, <1>15 DEF RunInv

-----------------------------------------------------------------------------
(* The execution of an AC                                                  *)

\* What a step of an AC does to the slots.
LEMMA BusyGrows ==
  ASSUME NEW w, NEW v, DOMAIN v = DOMAIN w, IsFiniteSet(DOMAIN w), NEW a \in DOMAIN w,
         \A b \in DOMAIN w \ {a} : v[b] = w[b],
         a \notin BusyIn(w), a \in BusyIn(v)
  PROVE  Cardinality(BusyIn(v)) = Cardinality(BusyIn(w)) + 1 /\ Cardinality(BusyIn(w)) \in Nat
<1>1. BusyIn(v) = BusyIn(w) \cup {a}
  BY DEF BusyIn
<1>2. IsFiniteSet(BusyIn(w))
  <2>1. BusyIn(w) \subseteq DOMAIN w
    BY DEF BusyIn
  <2>2. QED
    BY <2>1, FS_Subset
<1>3. QED
  BY <1>1, <1>2, FS_AddElement, FS_CardinalityType

\* The place reached, one part on: it is the innermost with a part to do.
LEMMA AdvancedIsPath ==
  ASSUME NEW path \in Seq(Places), Len(path) <= MaxDepth, Open(path) # {}
  PROVE  Advanced(path) \in Seq(Places) /\ Len(Advanced(path)) <= MaxDepth
<1> DEFINE n == Len(path)
           top == CHOOSE i \in Open(path) : \A j \in Open(path) : j <= i
           back == {k \in 1 .. n : n + 1 - k \in Open(path)}
<1>1. n \in Nat /\ DOMAIN path = 1 .. n /\ Open(path) \subseteq 1 .. n
  BY DEF Open
<1>2. \E i \in Open(path) : \A j \in Open(path) : j <= i
  <2>1. PICK m \in Open(path) : TRUE
    OBVIOUS
  <2>2. n + 1 - m \in back
    BY <1>1, <2>1
  <2>3. back \in SUBSET Nat /\ back # {}
    BY <2>2
  <2> HIDE DEF back
  <2>4. PICK k \in back : \A l \in back : k <= l
    BY <2>3, LeastNumber
  <2>5. k \in 1 .. n /\ n + 1 - k \in Open(path)
    BY <2>4 DEF back
  <2>6. ASSUME NEW j \in Open(path)
        PROVE  j <= n + 1 - k
    <3>1. n + 1 - j \in 1 .. n /\ n + 1 - (n + 1 - j) = j
      BY <1>1
    <3>2. n + 1 - j \in back
      BY <3>1 DEF back
    <3>3. k <= n + 1 - j
      BY <2>4, <3>2
    <3>4. QED
      BY <1>1, <2>5, <3>3
  <2>7. QED
    BY <2>5, <2>6
<1>3. top \in Open(path)
  <2> HIDE DEF n, back
  <2>1. QED
    BY <1>2
<1> HIDE DEF top
<1>4. top \in 1 .. n /\ path[top] \in Places /\ path[top].at < path[top].of
  BY <1>1, <1>3 DEF Open
<1> DEFINE sub == SubSeq(path, 1, top)
           next == [sub EXCEPT ![top].at = @ + 1]
<1>5. sub \in Seq(Places) /\ Len(sub) = top /\ sub[top] = path[top] /\ DOMAIN sub = 1 .. top
  <2>1. /\ top \in 1 .. n /\ n = Len(path) /\ n \in Nat
    BY <1>1, <1>4
  <2>2. ASSUME NEW S, NEW s \in Seq(S), NEW k \in 1 .. Len(s)
        PROVE  /\ SubSeq(s, 1, k) \in Seq(S) /\ Len(SubSeq(s, 1, k)) = k
               /\ SubSeq(s, 1, k)[k] = s[k] /\ DOMAIN SubSeq(s, 1, k) = 1 .. k
    OBVIOUS
  <2>3. QED
    BY <2>1, <2>2
<1>6. [path[top] EXCEPT !.at = @ + 1] \in Places
  <2> DEFINE p == path[top]
             q == [p EXCEPT !.at = @ + 1]
  <2>1. /\ p \in [at : Nat, of : MinSubAcs .. MaxSubAcs]
        /\ p.at \in 1 .. p.of /\ p.at < p.of
    BY <1>4 DEF Places
  <2>2. p.at \in Nat /\ p.of \in Nat
    BY <2>1, ExecutorAssumption DEF MinSubAcs
  <2>3. p.at + 1 \in Nat /\ p.at + 1 \in 1 .. p.of
    BY <2>1, <2>2
  <2> HIDE DEF p
  <2>4. q \in [at : Nat, of : MinSubAcs .. MaxSubAcs] /\ q.at = p.at + 1 /\ q.of = p.of
    BY <2>1, <2>3
  <2>5. q \in Places
    BY <2>3, <2>4 DEF Places
  <2>6. QED
    BY <2>5 DEF p
<1>7. next = [sub EXCEPT ![top] = [path[top] EXCEPT !.at = @ + 1]]
  BY <1>5
<1>8. next \in Seq(Places) /\ Len(next) = top
  <2>1. ASSUME NEW S, NEW s \in Seq(S), NEW k \in 1 .. Len(s), NEW e \in S
        PROVE  [s EXCEPT ![k] = e] \in Seq(S) /\ Len([s EXCEPT ![k] = e]) = Len(s)
    OBVIOUS
  <2>2. top \in 1 .. Len(sub)
    BY <1>4, <1>5
  <2> HIDE DEF sub, next
  <2>3. QED
    BY <1>5, <1>6, <1>7, <2>1, <2>2
<1>9. Advanced(path) = next
  BY DEF Advanced, top
<1>10. top <= MaxDepth
  BY <1>1, <1>4, ExecutorAssumption
<1>11. QED
  BY <1>8, <1>9, <1>10

\* Whatever a step of one AC does, as far as the rest of the run sees it.
LEMMA AcStepKeeps ==
  ASSUME RunInv, NEW a \in DOMAIN work, NEW w \in Executions, OnlyWork,
         work' = [work EXCEPT ![a] = w],
         done \subseteq done', done' \subseteq done \cup {a},
         w.phase = "succeeded" => a \in done',
         slots' \in Nat, slots' + Cardinality(BusyIn(work')) = MaxConcurrent
  PROVE  RunInv'
<1>1. UNCHANGED <<input, stages, pc, level, statuses, failed, blocked, completed, contexts,
                  results, files, step, faults, saved, broken>>
  BY DEF OnlyWork
<1>2. /\ pc = "batch" /\ DOMAIN work \subseteq stages[level] /\ stages[level] \subseteq Acs
      /\ work \in [DOMAIN work -> Executions]
  <2>1. pc = "batch" /\ DOMAIN work \subseteq stages[level]
    BY DEF RunInv, WorkInv
  <2>2. level \in 1 .. Len(stages) /\ IsPartition(stages, Acs)
    BY <2>1, PlanFacts DEF RunInv, PlaceInv
  <2>3. QED
    BY <2>1, <2>2, BehindGrows DEF RunInv, WorkInv
<1>3. /\ DOMAIN work' = DOMAIN work /\ work' \in [DOMAIN work -> Executions]
      /\ work'[a] = w /\ \A b \in DOMAIN work \ {a} : work'[b] = work[b]
  BY <1>2
<1>4. Finished' = Finished
  BY <1>1, <1>3 DEF Finished, Entered
<1>5. RecordInv' /\ BlockedInv'
  BY <1>1, <1>3, <1>4, RecordStays
<1>6. PlanInv' /\ PlaceInv' /\ StoreInv' /\ CountInv'
  <2>1. PlanInv' /\ PlaceInv'
    BY <1>1 DEF RunInv, PlanInv, PlaceInv
  <2>2. CountInv'
    BY <1>1, <1>2 DEF RunInv, CountInv, Acs
  <2>3. pc' # "begin"
    BY <1>1, <1>2
  <2>4. StoreInv'
    BY <1>1, <2>3, StoreStays DEF RunInv
  <2>5. QED
    BY <2>1, <2>2, <2>4
<1>7. WorkInv'
  <2>1. ASSUME NEW b \in DOMAIN work
        PROVE  /\ Deps(b)' \cap (failed' \cup blocked') = {}
               /\ work'[b].phase = "succeeded" => b \in done'
    <3>1. Deps(b)' = Deps(b)
      BY <1>1 DEF Deps
    <3>2. Deps(b) \cap (failed \cup blocked) = {}
      BY DEF RunInv, WorkInv
    <3>3. work'[b].phase = "succeeded" => b \in done'
      BY <1>3 DEF RunInv, WorkInv
    <3>4. QED
      BY <1>1, <3>1, <3>2, <3>3
  <2>2. DOMAIN work' \subseteq (IF pc' = "batch" THEN stages'[level'] ELSE {})
    BY <1>1, <1>2, <1>3
  <2>3. QED
    BY <1>3, <2>1, <2>2 DEF WorkInv
<1>8. QED
  BY <1>5, <1>6, <1>7 DEF RunInv

LEMMA WorkIsFinite ==
  ASSUME RunInv
  PROVE  IsFiniteSet(DOMAIN work)
<1>1. pc = "batch" => level \in 1 .. Len(stages)
  BY DEF RunInv, PlaceInv
<1>2. IsPartition(stages, Acs) /\ IsFiniteSet(Acs)
  BY PlanFacts DEF RunInv
<1>3. DOMAIN work \subseteq Acs
  BY <1>1, <1>2, BehindGrows DEF RunInv, WorkInv
<1>4. QED
  BY <1>2, <1>3, FS_Subset

\* One more slot is taken.
LEMMA SlotTaken ==
  ASSUME RunInv, NEW a \in DOMAIN work, NEW w,
         ~ IsBusy(work[a]),
         IsBusy(w),
         work' = [work EXCEPT ![a] = w], slots > 0, slots' = slots - 1
  PROVE  slots' \in Nat /\ slots' + Cardinality(BusyIn(work')) = MaxConcurrent
<1>1. /\ work = [b \in DOMAIN work |-> work[b]] /\ slots \in Nat
      /\ slots + Cardinality(BusyIn(work)) = MaxConcurrent
  BY DEF RunInv, WorkInv
<1>2. /\ DOMAIN work' = DOMAIN work /\ work'[a] = w
      /\ \A b \in DOMAIN work \ {a} : work'[b] = work[b]
  BY <1>1
<1>3. IsFiniteSet(DOMAIN work)
  BY WorkIsFinite
<1>4. a \notin BusyIn(work) /\ a \in BusyIn(work')
  BY <1>2 DEF BusyIn, IsBusy
<1>5. /\ Cardinality(BusyIn(work')) = Cardinality(BusyIn(work)) + 1
      /\ Cardinality(BusyIn(work)) \in Nat
  BY <1>2, <1>3, <1>4, BusyGrows
<1>6. QED
  BY <1>1, <1>5, ExecutorAssumption

LEMMA SlotFreed ==
  ASSUME RunInv, NEW a \in DOMAIN work, NEW w,
         IsBusy(work[a]),
         ~ IsBusy(w),
         work' = [work EXCEPT ![a] = w], slots' = slots + 1
  PROVE  slots' \in Nat /\ slots' + Cardinality(BusyIn(work')) = MaxConcurrent
<1>1. /\ work = [b \in DOMAIN work |-> work[b]] /\ slots \in Nat
      /\ slots + Cardinality(BusyIn(work)) = MaxConcurrent
  BY DEF RunInv, WorkInv
<1>2. /\ DOMAIN work' = DOMAIN work /\ work'[a] = w
      /\ \A b \in DOMAIN work \ {a} : work'[b] = work[b]
  BY <1>1
<1>3. IsFiniteSet(DOMAIN work')
  BY <1>2, WorkIsFinite
<1>4. a \in BusyIn(work) /\ a \notin BusyIn(work') /\ a \in DOMAIN work'
  BY <1>2 DEF BusyIn, IsBusy
<1>5. /\ Cardinality(BusyIn(work)) = Cardinality(BusyIn(work')) + 1
      /\ Cardinality(BusyIn(work')) \in Nat
  <2> DEFINE v == work'
  <2>1. /\ DOMAIN work = DOMAIN v /\ IsFiniteSet(DOMAIN v) /\ a \in DOMAIN v
        /\ \A b \in DOMAIN v \ {a} : work[b] = v[b]
        /\ a \notin BusyIn(v) /\ a \in BusyIn(work)
    BY <1>2, <1>3, <1>4
  <2> HIDE DEF v
  <2>2. /\ Cardinality(BusyIn(work)) = Cardinality(BusyIn(v)) + 1
        /\ Cardinality(BusyIn(v)) \in Nat
    BY <2>1, BusyGrows
  <2>3. QED
    BY <2>2 DEF v
<1>6. QED
  BY <1>1, <1>5, ExecutorAssumption

LEMMA SlotKept ==
  ASSUME RunInv, NEW a \in DOMAIN work, NEW w,
         IsBusy(work[a]),
         IsBusy(w),
         work' = [work EXCEPT ![a] = w], slots' = slots
  PROVE  slots' \in Nat /\ slots' + Cardinality(BusyIn(work')) = MaxConcurrent
<1>1. /\ work = [b \in DOMAIN work |-> work[b]] /\ slots \in Nat
      /\ slots + Cardinality(BusyIn(work)) = MaxConcurrent
  BY DEF RunInv, WorkInv
<1>2. /\ DOMAIN work' = DOMAIN work /\ work'[a] = w
      /\ \A b \in DOMAIN work \ {a} : work'[b] = work[b]
  BY <1>1
<1>3. BusyIn(work') = BusyIn(work)
  BY <1>2 DEF BusyIn, IsBusy
<1>4. QED
  BY <1>1, <1>3

\* Nothing but the execution of a is changed, and no agent has succeeded.
LEMMA PhaseStepKeeps ==
  ASSUME RunInv, NEW a \in DOMAIN work, NEW w \in Executions, OnlyWork,
         work' = [work EXCEPT ![a] = w], w.phase \in {"analyzing", "calling"},
         done' = done,
         \/ /\ work[a].phase = "waiting" /\ slots > 0 /\ slots' = slots - 1
         \/ /\ work[a].phase \in {"analyzing", "calling"} /\ slots' = slots
  PROVE  RunInv'
<1>1. slots' \in Nat /\ slots' + Cardinality(BusyIn(work')) = MaxConcurrent
  <2>1. CASE work[a].phase = "waiting"
    <3>1. ~ IsBusy(work[a]) /\ IsBusy(w) /\ slots > 0 /\ slots' = slots - 1
      BY <2>1 DEF IsBusy
    <3>2. QED
      BY <3>1, SlotTaken
  <2>2. CASE work[a].phase # "waiting"
    <3>1. IsBusy(work[a]) /\ IsBusy(w) /\ slots' = slots
      BY <2>2 DEF IsBusy
    <3>2. QED
      BY <3>1, SlotKept
  <2>3. QED
    BY <2>1, <2>2
<1>2. done \subseteq done' /\ done' \subseteq done \cup {a} /\ w.phase # "succeeded"
  OBVIOUS
<1>3. QED
  BY <1>1, <1>2, AcStepKeeps

LEMMA AcKeeps ==
  ASSUME RunInv, NEW a \in DOMAIN work, AcStep(a)
  PROVE  RunInv'
<1> DEFINE w == work[a]
<1>1. /\ work \in [DOMAIN work -> Executions]
      /\ w \in [phase : Phases, path : Seq(Places), tries : 0 .. MaxStallRetries, good : BOOLEAN]
      /\ Len(w.path) <= MaxDepth
  BY DEF RunInv, WorkInv, Executions
<1>2. CASE StartAc(a)
  <2> DEFINE v == [w EXCEPT !.phase = "analyzing"]
  <2>1. v \in Executions /\ v.phase = "analyzing"
    BY <1>1 DEF Executions, Phases
  <2>2. work' = [work EXCEPT ![a] = v]
    BY <1>2 DEF StartAc
  <2>3. /\ OnlyWork /\ done' = done
        /\ w.phase = "waiting" /\ slots > 0 /\ slots' = slots - 1
    BY <1>2 DEF StartAc
  <2> HIDE DEF v
  <2>4. QED
    BY <2>1, <2>2, <2>3, PhaseStepKeeps
<1>3. ASSUME NEW n \in MinSubAcs .. MaxSubAcs, Decompose(a, n)
      PROVE  RunInv'
  <2> DEFINE v == [w EXCEPT !.path = Append(@, [at |-> 1, of |-> n])]
  <2>1. v \in Executions /\ v.phase = w.phase
    <3>1. [at |-> 1, of |-> n] \in Places
      BY ExecutorAssumption DEF Places, MinSubAcs
    <3>2. /\ Append(w.path, [at |-> 1, of |-> n]) \in Seq(Places)
          /\ Len(Append(w.path, [at |-> 1, of |-> n])) = Len(w.path) + 1
          /\ Len(w.path) \in Nat
      BY <1>1, <3>1
    <3>3. Len(w.path) < MaxDepth
      BY <1>3 DEF Decompose
    <3>4. Len(w.path) + 1 <= MaxDepth
      BY <3>2, <3>3, ExecutorAssumption
    <3>5. QED
      BY <1>1, <3>2, <3>4 DEF Executions
  <2>2. work' = [work EXCEPT ![a] = v]
    BY <1>3 DEF Decompose
  <2>3. OnlyWork /\ done' = done /\ w.phase = "analyzing" /\ slots' = slots
    BY <1>3 DEF Decompose
  <2> HIDE DEF v
  <2>4. QED
    BY <2>1, <2>2, <2>3, PhaseStepKeeps
<1>4. CASE CallAgent(a)
  <2> DEFINE v == [w EXCEPT !.phase = "calling"]
  <2>1. v \in Executions /\ v.phase = "calling"
    BY <1>1 DEF Executions, Phases
  <2>2. work' = [work EXCEPT ![a] = v]
    BY <1>4 DEF CallAgent
  <2>3. OnlyWork /\ done' = done /\ w.phase = "analyzing" /\ slots' = slots
    BY <1>4 DEF CallAgent
  <2> HIDE DEF v
  <2>4. QED
    BY <2>1, <2>2, <2>3, PhaseStepKeeps
<1>5. CASE Stall(a)
  <2> DEFINE v == [w EXCEPT !.tries = @ + 1]
  <2>1. v \in Executions /\ v.phase = w.phase
    <3>1. w.tries \in 0 .. MaxStallRetries /\ w.tries < MaxStallRetries
      BY <1>1, <1>5 DEF Stall
    <3>2. w.tries + 1 \in 0 .. MaxStallRetries
      BY <3>1 DEF MaxStallRetries
    <3>3. QED
      BY <1>1, <3>2 DEF Executions
  <2>2. work' = [work EXCEPT ![a] = v]
    BY <1>5 DEF Stall
  <2>3. OnlyWork /\ done' = done /\ w.phase = "calling" /\ slots' = slots
    BY <1>5 DEF Stall
  <2> HIDE DEF v
  <2>4. QED
    BY <2>1, <2>2, <2>3, PhaseStepKeeps
<1>6. ASSUME NEW ok \in BOOLEAN, EndCall(a, ok)
      PROVE  RunInv'
  <2> DEFINE good == w.good /\ ok
  <2>0. good \in BOOLEAN /\ 0 \in 0 .. MaxStallRetries
    BY DEF MaxStallRetries
  <2>1. CASE Open(w.path) # {}
    <3> DEFINE v == [phase |-> "analyzing", tries |-> 0, good |-> good, path |-> Advanced(w.path)]
    <3>1. Advanced(w.path) \in Seq(Places) /\ Len(Advanced(w.path)) <= MaxDepth
      BY <1>1, <2>1, AdvancedIsPath
    <3>2. v \in Executions /\ v.phase = "analyzing"
      BY <2>0, <3>1 DEF Executions, Phases
    <3>3. work' = [work EXCEPT ![a] = v]
      BY <1>6, <2>1 DEF EndCall
    <3>4. OnlyWork /\ done' = done /\ w.phase = "calling" /\ slots' = slots
      BY <1>6, <2>1 DEF EndCall
    <3> HIDE DEF v
    <3>5. QED
      BY <3>2, <3>3, <3>4, PhaseStepKeeps
  <2>2. CASE Open(w.path) = {}
    <3> DEFINE v == [phase |-> IF good THEN "succeeded" ELSE "failed", tries |-> 0, good |-> good,
                     path |-> << >>]
    <3>1. v \in Executions /\ v.phase = (IF good THEN "succeeded" ELSE "failed")
      <4>1. << >> \in Seq(Places) /\ Len(<< >>) <= MaxDepth
        BY ExecutorAssumption
      <4> HIDE DEF good
      <4>2. QED
        BY <2>0, <4>1 DEF Executions, Phases
    <3>2. work' = [work EXCEPT ![a] = v]
      BY <1>6, <2>2 DEF EndCall
    <3>3. /\ OnlyWork /\ w.phase = "calling" /\ slots' = slots + 1
          /\ done' = IF good THEN done \cup {a} ELSE done
      BY <1>6, <2>2 DEF EndCall
    <3> HIDE DEF v, good
    <3>4. slots' \in Nat /\ slots' + Cardinality(BusyIn(work')) = MaxConcurrent
      <4>1. IsBusy(work[a]) /\ slots' = slots + 1
        BY <3>3 DEF IsBusy
      <4>2. ~ IsBusy(v)
        BY <3>1 DEF IsBusy
      <4>3. QED
        BY <3>2, <4>1, <4>2, SlotFreed
    <3>5. /\ done \subseteq done' /\ done' \subseteq done \cup {a}
          /\ v.phase = "succeeded" => a \in done'
      BY <3>1, <3>3
    <3>6. QED
      BY <3>1, <3>2, <3>3, <3>4, <3>5, AcStepKeeps
  <2>3. QED
    BY <2>1, <2>2
<1>7. CASE CallReadsBlocked(a)
  <2> DEFINE v == [phase |-> "blocked", tries |-> 0, good |-> FALSE, path |-> << >>]
  <2>1. v \in Executions /\ v.phase = "blocked"
    <3>1. /\ << >> \in Seq(Places) /\ Len(<< >>) <= MaxDepth
          /\ 0 \in 0 .. MaxStallRetries
      BY ExecutorAssumption DEF MaxStallRetries
    <3>2. QED
      BY <3>1 DEF Executions, Phases
  <2>2. work' = [work EXCEPT ![a] = v]
    BY <1>7 DEF CallReadsBlocked
  <2>3. OnlyWork /\ done' = done /\ w.phase = "calling" /\ slots' = slots + 1
    BY <1>7 DEF CallReadsBlocked
  <2> HIDE DEF v
  <2>4. slots' \in Nat /\ slots' + Cardinality(BusyIn(work')) = MaxConcurrent
    <3>1. IsBusy(work[a]) /\ slots' = slots + 1 /\ ~ IsBusy(v)
      BY <2>1, <2>3 DEF IsBusy
    <3>2. QED
      BY <2>2, <3>1, SlotFreed
  <2>5. /\ done \subseteq done' /\ done' \subseteq done \cup {a}
        /\ v.phase = "succeeded" => a \in done'
    BY <2>1, <2>3
  <2>6. QED
    BY <2>1, <2>2, <2>3, <2>4, <2>5, AcStepKeeps
<1>8. QED
  BY <1>2, <1>3, <1>4, <1>5, <1>6, <1>7 DEF AcStep

-----------------------------------------------------------------------------
(* The end of a stage                                                      *)

LEMMA EndBatchKeeps == RunInv /\ EndBatch => RunInv'
<1> SUFFICES ASSUME RunInv, EndBatch
             PROVE  RunInv'
  OBVIOUS
<1> DEFINE F == Finished
           N == DOMAIN work
           won == {a \in N : work[a].phase = "succeeded"}
           lost == {a \in N : work[a].phase = "failed"}
           held == {a \in N : work[a].phase = "blocked"}
           st == [a \in Acs |-> CASE a \in won -> "completed"
                                  [] a \in held -> "skipped"
                                  [] a \in lost -> "failed"
                                  [] OTHER -> statuses[a]]
           out == [a \in N |-> work[a].phase]
           none == {}
<1>1. /\ pc = "batch" /\ pc' = "saving"
      /\ statuses' = st /\ failed' = failed \cup lost /\ blocked' = blocked \cup held
      /\ completed' = completed + Cardinality(won)
      /\ contexts' = IF won = {} /\ SatisfiedIn(stages[level]) = {} THEN contexts
                     ELSE Append(contexts, level)
      /\ results' = results \o ResultsOf(N, out)
      /\ work' = NoWork
      /\ UNCHANGED <<input, stages, level, slots, files, faults, done>>
  BY DEF EndBatch, ghosts
<1>2. /\ \A a \in N : Ended(work[a])
      /\ N = won \cup lost \cup held
      /\ won \cap lost = {} /\ won \cap held = {} /\ lost \cap held = {}
  BY DEF EndBatch, Ended
<1>3. /\ Acs \in SUBSET Nat /\ IsFiniteSet(Acs) /\ IsPartition(stages, Acs)
      /\ Acs = AcsOf(input) /\ Acs' = Acs
  BY <1>1, PlanFacts DEF RunInv, Acs, AcsOf
<1>4. /\ level \in 1 .. Len(stages) /\ level \in Nat /\ N \subseteq stages[level]
      /\ stages[level] \subseteq Acs
      /\ stages[level] \subseteq Behind(stages, level)
      /\ Entered = level /\ Entered' = level
  <2>1. level \in 1 .. Len(stages) /\ N \subseteq stages[level] /\ Entered = level
    BY <1>1 DEF RunInv, PlaceInv, WorkInv, Entered
  <2>2. Entered' = level
    BY <1>1 DEF Entered
  <2>3. QED
    BY <1>3, <2>1, <2>2, BehindGrows
<1>5. /\ F \subseteq Acs /\ F \cap N = {}
      /\ \A a \in F : Deps(a) \subseteq F
      /\ \A a \in N : Deps(a) \subseteq F
  <2>1. pc # "raised"
    BY <1>1
  <2>2. QED
    BY <1>1, <2>1, FinishedIs DEF RunInv
<1>6. /\ Settled(input, F, N, statuses) /\ failed = With(statuses, F, "failed")
      /\ contexts \in Seq(Nat)
      /\ Record(input, stages, done, F, N, Current)
      /\ Tells(Acs, F, results, statuses)
  BY DEF RunInv, RecordInv, Record, Current
<1>7. \A a \in N : /\ Deps(a) \cap failed = {}
                   /\ a \in won => a \in done
  BY DEF RunInv, WorkInv
<1>8. DOMAIN work' = {} /\ Finished' = F \cup N
  <2>1. DOMAIN work' = {}
    BY <1>1, NoWorkIsTyped
  <2>2. Finished' = Behind(stages, level)
    BY <1>1, <1>4, <2>1 DEF Finished
  <2>3. F = Behind(stages, level) \ N
    BY <1>4 DEF Finished
  <2>4. QED
    BY <1>4, <2>1, <2>2, <2>3
<1> HIDE DEF F, N
<1>9. /\ Settled(input, F \cup N, none, st)
      /\ \A a \in F : st[a] = statuses[a]
      /\ \A a \in won : st[a] = "completed"
      /\ \A a \in held : st[a] = "skipped"
      /\ \A a \in lost : st[a] = "failed"
  <2>1. ASSUME NEW a \in Acs
        PROVE  /\ a \in won => st[a] = "completed"
               /\ a \in held => st[a] = "skipped"
               /\ a \in lost => st[a] = "failed"
               /\ a \notin N => st[a] = statuses[a]
    BY <1>2
  <2> HIDE DEF won, lost, held
  <2>2. \A a \in Acs : st[a] \in Statuses
    BY <1>2, <1>3, <1>6, <2>1 DEF Settled, Statuses
  <2>3. st \in [Acs -> Statuses]
    BY <2>2
  <2> HIDE DEF st
  <2>4. ASSUME NEW a \in Acs
        PROVE  IF a \in F \cup N THEN st[a] \in Final ELSE st[a] = "pending"
    <3>1. CASE a \in N
      BY <1>2, <2>1, <3>1 DEF Final
    <3>2. CASE a \notin N
      BY <1>3, <1>6, <2>1, <3>2 DEF Settled
    <3>3. QED
      BY <3>1, <3>2
  <2>5. Settled(input, F \cup N, none, st) /\ \A a \in F : st[a] = statuses[a]
    BY <1>3, <1>4, <1>5, <2>1, <2>3, <2>4 DEF Settled
  <2>6. QED
    BY <1>2, <1>3, <1>4, <2>1, <2>5
<1> HIDE DEF st, won, lost, held
<1>10. /\ With(st, N, "failed") = lost /\ With(st, N, "completed") = won
       /\ With(st, F \cup N, "skipped") = With(statuses, F, "skipped") \cup held
  BY <1>2, <1>9 DEF With
<1>11. /\ Extends(contexts, contexts')
       /\ won # {} => \E i \in 1 .. Len(contexts') : contexts'[i] = level
  BY <1>1, <1>4, <1>6, AppendExtends
<1>12. Earned(input, stages, done, N, st, contexts')
  <2>1. ASSUME NEW a \in won
        PROVE  /\ Vouched(input, stages, done, contexts', a)
               /\ \A d \in DepsOf(input, a) : st[d] # "failed"
    <3>1. a \in N /\ a \in stages[level]
      BY <1>4 DEF won
    <3>2. PICK i \in 1 .. Len(contexts') : contexts'[i] = level
      BY <1>11
    <3>3. Vouched(input, stages, done, contexts', a)
      BY <1>7, <3>1, <3>2 DEF Vouched
    <3>4. ASSUME NEW d \in Deps(a)
          PROVE  st[d] # "failed"
      <4>1. d \in F /\ d \notin failed
        BY <1>5, <1>7, <3>1
      <4>2. QED
        BY <1>6, <1>9, <4>1 DEF With
    <3>5. QED
      BY <3>3, <3>4 DEF Deps, DepsOf
  <2>2. QED
    BY <1>10, <2>1 DEF Earned
<1>13. Record(input, stages, done, F \cup N, none, Current')
  <2> DEFINE c == Current
             d == Current'
  <2>1. /\ d.statuses = st /\ d.failed = failed \cup lost /\ d.contexts = contexts'
        /\ d.completed = completed + Cardinality(won)
        /\ c.statuses = statuses /\ c.failed = failed /\ c.contexts = contexts
        /\ c.completed = completed
    BY <1>1 DEF Current
  <2>2. Record(input, stages, done, F, N, c)
    BY <1>6
  <2>3. F \cap N = {} /\ F \in SUBSET AcsOf(input) /\ N \in SUBSET AcsOf(input)
    BY <1>3, <1>4, <1>5
  <2>4. \A a \in F : DepsOf(input, a) \subseteq F
    BY <1>5 DEF Deps, DepsOf
  <2>5. IsFiniteSet(AcsOf(input))
    BY <1>3
  <2> HIDE DEF c, d, none
  <2>6. d.failed = c.failed \cup With(d.statuses, N, "failed")
    BY <1>10, <2>1
  <2>7. d.completed = c.completed + Cardinality(With(d.statuses, N, "completed"))
    BY <1>10, <2>1
  <2>8. /\ Settled(input, F \cup N, none, d.statuses)
        /\ \A a \in F : d.statuses[a] = c.statuses[a]
        /\ Extends(c.contexts, d.contexts)
        /\ Earned(input, stages, done, N, d.statuses, d.contexts)
    BY <1>9, <1>11, <1>12, <2>1, Zenon
  <2>9. Record(input, stages, done, F \cup N, none, d)
    BY <2>2, <2>3, <2>4, <2>5, <2>6, <2>7, <2>8, RecordGrows
  <2>10. QED
    BY <2>9 DEF d
<1>14. Tells(Acs, F \cup N, results', st)
  <2>1. Tells(Acs, F, results, st)
    BY <1>6, <1>9, TellsStill
  <2>2. IsFiniteSet(N) /\ N \in SUBSET Acs
    BY <1>3, <1>4, FS_Subset
  <2>3. \A a \in N : out[a] \in Outcomes /\ (out[a] \in Good => st[a] = "completed")
    BY <1>2, <1>9, <2>2 DEF Outcomes, Good, won, lost, held
  <2> HIDE DEF out
  <2>4. Tells(Acs, N, ResultsOf(N, out), st)
    BY <1>3, <2>2, <2>3, TellsOf
  <2>5. F \cap N = {}
    BY <1>5
  <2>6. Tells(Acs, F \cup N, results \o ResultsOf(N, out), st)
    BY <2>1, <2>4, <2>5, TellsJoined
  <2>7. QED
    BY <1>1, <2>6
<1>15. RecordInv'
  BY <1>1, <1>3, <1>8, <1>13, <1>14 DEF RecordInv
<1>16. BlockedInv'
  <2>1. /\ blocked \subseteq With(statuses, F, "skipped")
        /\ faults = 0 => blocked = With(statuses, F, "skipped")
    BY DEF RunInv, BlockedInv, F
  <2>2. QED
    BY <1>1, <1>8, <1>10, <2>1 DEF BlockedInv
<1>17. PlanInv' /\ PlaceInv' /\ StoreInv' /\ CountInv'
  <2>1. PlaceInv'
    BY <1>1, <1>4 DEF PlaceInv
  <2>2. PlanInv' /\ CountInv'
    BY <1>1, <1>3, PlanStays DEF RunInv, CountInv
  <2>3. pc' # "begin"
    BY <1>1
  <2>4. StoreInv'
    BY <1>1, <2>3, StoreStays DEF RunInv
  <2>5. QED
    BY <2>1, <2>2, <2>4
<1>18. WorkInv'
  <2>1. BusyIn(work) = {} /\ BusyIn(work') = {}
    BY <1>1, <1>2, NoWorkIsTyped DEF BusyIn, IsBusy, Ended, N
  <2>2. slots' \in Nat /\ slots' + Cardinality(BusyIn(work')) = MaxConcurrent
    BY <1>1, <2>1 DEF RunInv, WorkInv
  <2>3. work' \in [DOMAIN work' -> Executions]
    BY <1>1, NoWorkIsTyped
  <2>4. QED
    BY <1>8, <2>2, <2>3 DEF WorkInv
<1>19. QED
  BY <1>15, <1>16, <1>17, <1>18 DEF RunInv

-----------------------------------------------------------------------------
(* The theorems of the run                                                 *)

LEMMA RunStepKeeps == RunInv /\ FilesInv /\ [Next]_vars => RunInv'
<1> SUFFICES ASSUME RunInv, FilesInv, [Next]_vars
             PROVE  RunInv'
  OBVIOUS
<1>1. CASE Begin
  BY <1>1, BeginKeeps
<1>2. CASE EnterStage
  BY <1>2, EnterStageKeeps
<1>3. CASE Return
  BY <1>3, ReturnKeeps
<1>4. CASE EndBatch
  BY <1>4, EndBatchKeeps
<1>5. CASE SaveStep
  BY <1>5, SaveStepKeepsRun
<1>6. ASSUME NEW a \in DOMAIN work, AcStep(a)
      PROVE  RunInv'
  BY <1>6, AcKeeps
<1>7. CASE SaveFails
  BY <1>7, SaveFailsKeepsRun
<1>8. CASE Interrupt
  BY <1>8, InterruptKeeps
<1>9. CASE UNCHANGED vars
  <2>1. UNCHANGED <<input, stages, pc, level, statuses, failed, blocked, completed, contexts,
                    results, work, slots, files, faults, done>>
    BY <1>9 DEF vars, memory, ghosts
  <2>2. Finished' = Finished
    BY <2>1 DEF Finished, Entered
  <2>3. RecordInv' /\ BlockedInv'
    BY <2>1, <2>2, RecordStays
  <2>4. PlanInv' /\ PlaceInv' /\ StoreInv' /\ WorkInv' /\ CountInv'
    BY <2>1 DEF RunInv, PlanInv, PlaceInv, StoreInv, WorkInv, CountInv, Deps, Acs
  <2>5. QED
    BY <2>3, <2>4 DEF RunInv
<1>10. QED
  BY <1>1, <1>2, <1>3, <1>4, <1>5, <1>6, <1>7, <1>8, <1>9 DEF Next, RunStep

LEMMA FileStatesStep == FileStates /\ FilesInv /\ [Next]_vars => FileStates'
<1> SUFFICES ASSUME FileStates, FilesInv, [Next]_vars
             PROVE  FileStates'
  OBVIOUS
<1>1. CASE SaveStep
  BY <1>1, StepsLeaveStates DEF SaveStep, FilesInv, FileStates
<1>2. CASE ~ SaveStep
  <2>1. files' = files
    BY <1>2 DEF Next, RunStep, Begin, EnterStage, Return, EndBatch, SaveFails, Interrupt,
                AcStep, StartAc, Decompose, CallAgent, Stall, EndCall, CallReadsBlocked, OnlyWork, vars
  <2>2. QED
    BY <2>1 DEF FileStates
<1>3. QED
  BY <1>1, <1>2

LEMMA RunIsInvariant == Spec => [](RunInv /\ FilesInv /\ FileStates)
<1>1. Init => RunInv /\ FilesInv /\ FileStates
  <2>1. Init => FileStates
    BY DEF Init, FileStates, Store!NoFiles, Store!Absent
  <2>2. QED
    BY <2>1, RunInit, FilesInit
<1>2. RunInv /\ FilesInv /\ FileStates /\ [Next]_vars => (RunInv /\ FilesInv /\ FileStates)'
  BY RunStepKeeps, FilesStep, FileStatesStep
<1>3. QED
  BY <1>1, <1>2, PTL DEF Spec

\* The executor is type-correct: for every plan, number of slots, depth of
\* decomposition and number of faults, no count, level or path leaves its bounds.
THEOREM ExecutorIsTyped == Spec => []TypeOK
<1>1. RunInv /\ FilesInv /\ FileStates => TypeOK
  BY TypesSuffice DEF FilesInv
<1>2. QED
  BY <1>1, RunIsInvariant, PTL

\* No AC is executed before all it depends on have completed, or, after a
\* restart, been skipped.
THEOREM DependenciesComeFirst == Spec => []RunsAfterItsDependencies
<1>1. RunInv => RunsAfterItsDependencies
  BY RunsAfter
<1>2. QED
  BY <1>1, RunIsInvariant, PTL

\* The checkpoint last saved is a good one, and while rollback finds it the
\* run is past the stage it was saved after.
SavedInv ==
  /\ saved = NoCheckpoint \/ GoodCheckpoint(input, stages, done, saved)
  /\ broken <= Store!MaxRollbackDepth /\ pc \in {"stage", "batch", "saving"}
       => saved.levels < level

\* An AC that is executed is in none of the stages that checkpoint has behind it.
LEMMA PastTheSaved == RunInv /\ SavedInv => NothingIsRedone
<1> SUFFICES ASSUME RunInv, SavedInv, saved.levels > 0, broken <= Store!MaxRollbackDepth,
                    NEW a \in DOMAIN work
             PROVE  saved.statuses[a] = "pending"
  BY DEF NothingIsRedone
<1> DEFINE k == saved.levels
<1>1. GoodCheckpoint(input, stages, done, saved)
  BY DEF SavedInv, NoCheckpoint
<1>2. Settled(input, Behind(stages, k), {}, saved.statuses) /\ k \in 1 .. Len(stages)
  BY <1>1 DEF GoodCheckpoint, Record
<1>3. pc = "batch" /\ a \in stages[level] /\ level \in 1 .. Len(stages) /\ k < level
  BY DEF RunInv, WorkInv, PlaceInv, SavedInv
<1>4. Len(stages) \in Nat /\ IsPartition(stages, Acs)
  BY PlanFacts DEF RunInv
<1>5. k \in 0 .. Len(stages) /\ level - 1 \in 0 .. Len(stages) /\ k <= level - 1
  BY <1>2, <1>3, <1>4
<1>6. /\ Behind(stages, k) \subseteq Behind(stages, level - 1)
      /\ Behind(stages, level - 1) \cap stages[level] = {} /\ stages[level] \subseteq Acs
  BY <1>3, <1>4, <1>5, BehindGrows
<1>7. a \in Acs /\ a \notin Behind(stages, k)
  BY <1>3, <1>6
<1>8. QED
  BY <1>2, <1>7 DEF Settled, Acs, AcsOf

\* Nothing but a save that is finished changes the checkpoint last saved,
\* and no stage is left for an earlier one but by a restart.
LEMMA SavedStays ==
  ASSUME SavedInv, input' = input, stages' = stages, done \subseteq done', saved' = saved,
         broken \in Nat, broken' \in Nat, broken <= broken',
         level \in Nat, level' \in Nat,
         pc' \in {"stage", "batch", "saving"}
           => pc \in {"stage", "batch", "saving"} /\ level <= level'
  PROVE  SavedInv'
<1>1. saved = NoCheckpoint \/ GoodCheckpoint(input, stages, done', saved)
  BY RecordOfMore DEF SavedInv, GoodCheckpoint
<1>2. CASE ~ (broken' <= Store!MaxRollbackDepth /\ pc' \in {"stage", "batch", "saving"})
  BY <1>1, <1>2 DEF SavedInv
<1>3. CASE broken' <= Store!MaxRollbackDepth /\ pc' \in {"stage", "batch", "saving"}
  <2>1. saved.levels < level
    BY <1>3 DEF SavedInv, Store!MaxRollbackDepth
  <2>2. saved.levels \in Int
    BY DEF SavedInv, NoCheckpoint, GoodCheckpoint
  <2>3. saved.levels < level'
    BY <1>3, <2>1, <2>2
  <2>4. QED
    BY <1>1, <2>3 DEF SavedInv
<1>4. QED
  BY <1>2, <1>3

LEMMA SavedStep == SavedInv /\ RunInv /\ FilesInv /\ [Next]_vars => SavedInv'
<1> SUFFICES ASSUME SavedInv, RunInv, FilesInv, [Next]_vars
             PROVE  SavedInv'
  OBVIOUS
<1>1. input' = input /\ stages' = stages /\ broken \in Nat
  BY PlanIsFixed DEF FilesInv
<1>2. level \in Nat /\ Len(stages) \in Nat
  <2>1. Len(stages) \in Nat
    BY PlanFacts DEF RunInv
  <2>2. QED
    BY <2>1 DEF RunInv, PlaceInv
<1>3. CASE Begin
  <2>1. /\ pc = "begin" /\ saved' = saved /\ broken' = broken /\ done' = done
        /\ level' = Store!Loaded(files).levels + 1
    BY <1>3 DEF Begin, ghosts
  <2>2. broken <= Store!MaxRollbackDepth => level' = saved.levels + 1
    BY <1>1, <2>1, FilesSuffice DEF RollbackSuffices
  <2>3. saved.levels \in Int
    BY DEF SavedInv, NoCheckpoint, GoodCheckpoint
  <2>4. QED
    BY <1>1, <2>1, <2>2, <2>3 DEF SavedInv
<1>4. CASE EnterStage
  <2>1. /\ pc = "stage" /\ saved' = saved /\ broken' = broken /\ done' = done
        /\ level' = level \/ level' = level + 1
    BY <1>4 DEF EnterStage, ghosts
  <2>2. QED
    BY <1>1, <1>2, <2>1, SavedStays
<1>5. CASE Return \/ UNCHANGED vars
  <2>1. /\ saved' = saved /\ broken' = broken /\ done' = done /\ level' = level
        /\ pc' = "returned" \/ pc' = pc
    BY <1>5 DEF Return, vars, memory, ghosts
  <2>2. QED
    BY <1>1, <1>2, <2>1, SavedStays
<1>6. CASE EndBatch
  <2>1. /\ pc = "batch" /\ saved' = saved /\ broken' = broken /\ done' = done
        /\ level' = level
    BY <1>6 DEF EndBatch, ghosts
  <2>2. QED
    BY <1>1, <1>2, <2>1, SavedStays
<1>7. CASE SaveStep
  <2>1. CASE step < Store!LastStep
    <3>1. /\ pc' = pc /\ saved' = saved /\ broken' = broken /\ done' = done
          /\ level' = level
      BY <1>7, <2>1 DEF SaveStep
    <3>2. QED
      BY <1>1, <1>2, <3>1, SavedStays
  <2>2. CASE ~ (step < Store!LastStep)
    <3>1. /\ pc = "saving" /\ saved' = Current /\ done' = done /\ level' = level + 1
      BY <1>7, <2>2 DEF SaveStep, NextStage
    <3>2. /\ level \in 1 .. Len(stages)
          /\ DOMAIN work = {} /\ Finished = Behind(stages, level)
      BY <3>1, FinishedIs DEF RunInv, PlaceInv, Entered
    <3>3. GoodCheckpoint(input, stages, done, Current) /\ Current.levels = level
      BY <3>2 DEF RunInv, RecordInv, GoodCheckpoint, Current
    <3> HIDE DEF Current
    <3>4. QED
      BY <1>1, <1>2, <3>1, <3>3 DEF SavedInv
  <2>3. QED
    BY <2>1, <2>2
<1>8. ASSUME NEW a \in DOMAIN work, AcStep(a)
      PROVE  SavedInv'
  <2>1. /\ saved' = saved /\ broken' = broken /\ level' = level /\ pc' = pc
        /\ done \subseteq done'
    BY <1>8 DEF AcStep, StartAc, Decompose, CallAgent, Stall, EndCall, CallReadsBlocked, OnlyWork
  <2>2. QED
    BY <1>1, <1>2, <2>1, SavedStays
<1>9. CASE SaveFails
  <2>1. /\ pc = "saving" /\ saved' = saved /\ broken' = broken + 1 /\ done' = done
        /\ level' = level + 1
    BY <1>9 DEF SaveFails, NextStage
  <2>2. QED
    BY <1>1, <1>2, <2>1, SavedStays
<1>10. CASE Interrupt
  <2>1. /\ pc' = "begin" /\ saved' = saved /\ done' = done /\ level' = 0
        /\ broken' = broken \/ broken' = broken + 1
    BY <1>10 DEF Interrupt
  <2>2. QED
    BY <1>1, <1>2, <2>1, SavedStays
<1>11. QED
  BY <1>3, <1>4, <1>5, <1>6, <1>7, <1>8, <1>9, <1>10 DEF Next, RunStep

\* No AC that the checkpoint last saved has settled is executed again.
THEOREM SavedIsSettled == Spec => []NothingIsRedone
<1>1. Init => SavedInv
  BY DEF Init, SavedInv
<1>2. SavedInv /\ RunInv /\ FilesInv /\ [Next]_vars => SavedInv'
  BY SavedStep
<1>3. RunInv /\ SavedInv => NothingIsRedone
  BY PastTheSaved
<1>4. QED
  BY <1>1, <1>2, <1>3, RunIsInvariant, PTL DEF Spec

\* A run that returns has one result for each AC, and its successes are earned.
THEOREM EveryResultIsEarned == Spec => []ResultsAreEarned
<1>1. RunInv => ResultsAreEarned
  BY AreEarned
<1>2. QED
  BY <1>1, RunIsInvariant, PTL

=============================================================================
