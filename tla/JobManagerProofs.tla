-------------------------- MODULE JobManagerProofs --------------------------
(***************************************************************************)
(* A job has one true ending and heeds a request to cancel, for any number *)
(* of updates, requests and orders in which events are stored.             *)
(***************************************************************************)
EXTENDS JobManager, FiniteSetTheorems, WellFoundedInduction, TLAPS

\* No ending is stored or on its way before the task has chosen one; it is
\* then on its way or stored, and it fits the runner's outcome.
RowsInv ==
  /\ \E S : log \in Seq(S)
  /\ \A i, j \in Rows : IsEnding(i) /\ IsEnding(j) => i = j
  /\ \A i \in Rows : IsEnding(i) =>
       /\ task \in {"ending", "joining", "done", "gone"}
       /\ task = "ending" => pending["task"] = NoEvent
       /\ runner = "gone" \/ (runner \in Outcomes /\ log[i].status \in EndingOf[runner])

PendingInv ==
  /\ pending = [a \in Actors |-> pending[a]]
  /\ \A a \in Actors \ {"task"} : pending[a].status \notin Endings
  /\ monitorSaw.status \notin Endings
  /\ pending["task"].status \in Endings =>
       task = "ending" /\ runner \in Outcomes /\ pending["task"].status \in EndingOf[runner]

RunnerInv ==
  /\ runner = "gone" <=> task = "gone"
  /\ task = "ending" => runner \in Outcomes
  /\ task = "deciding" => runner \in Results
  /\ task = "awaiting" /\ taskCancel => runner \in Outcomes
  /\ runner \in Outcomes \cup {"running", "gone"}

EndingInv == RowsInv /\ PendingInv /\ RunnerInv

-----------------------------------------------------------------------------

\* A row is added at the end and the others stay.
LEMMA RowAdded ==
  ASSUME NEW S, NEW s \in Seq(S), NEW e
  PROVE  LET t == Append(s, e)
         IN  /\ \E T : t \in Seq(T)
             /\ Len(t) = Len(s) + 1 /\ Len(s) \in Nat
             /\ \A i \in 1 .. Len(s) : t[i] = s[i]
             /\ t[Len(s) + 1] = e
<1>1. s \in Seq(S \cup {e}) /\ e \in S \cup {e}
  OBVIOUS
<1>2. Append(s, e) \in Seq(S \cup {e})
  BY <1>1
<1>3. QED
  BY <1>1, <1>2

\* The store appends an event that is no ending, or the only one.
LEMMA StoreKeeps ==
  ASSUME EndingInv, NEW actor \in Actors, Store(actor)
  PROVE  EndingInv'
<1> DEFINE n == Len(log)
<1>1. PICK S : log \in Seq(S)
  BY DEF EndingInv, RowsInv
<1>2. /\ \E T : log' \in Seq(T)
      /\ Len(log') = n + 1 /\ n \in Nat
      /\ \A i \in 1 .. n : log'[i] = log[i]
      /\ log'[n + 1] = pending[actor]
  BY <1>1, RowAdded DEF Store
<1>3. UNCHANGED <<task, taskCancel, runner, monitorSaw>>
  BY DEF Store, taskVars, runnerVars, monitorVars
<1>4. pending' = [pending EXCEPT ![actor] = NoEvent] /\ pending[actor] # NoEvent
  BY DEF Store
<1>5. NoEvent.status \notin Endings
  BY DEF NoEvent, Endings
<1>6. PendingInv'
  BY <1>3, <1>4, <1>5 DEF EndingInv, PendingInv, Actors
<1>7. RunnerInv'
  BY <1>3 DEF EndingInv, RunnerInv
<1>8. CASE pending[actor].status \notin Endings
  <2>1. \A i \in Rows' : IsEnding(i)' => i \in Rows /\ IsEnding(i) /\ log'[i] = log[i]
    BY <1>2, <1>8 DEF Rows, IsEnding
  <2>2. pending["task"] = NoEvent => pending'["task"] = NoEvent
    BY <1>4 DEF EndingInv, PendingInv, Actors
  <2>3. RowsInv'
    BY <1>2, <1>3, <2>1, <2>2 DEF EndingInv, RowsInv
  <2>4. QED
    BY <1>6, <1>7, <2>3 DEF EndingInv
<1>9. CASE pending[actor].status \in Endings
  <2>1. actor = "task" /\ task = "ending" /\ runner \in Outcomes
        /\ pending[actor].status \in EndingOf[runner]
    BY <1>9 DEF EndingInv, PendingInv
  <2>2. \A i \in Rows : ~ IsEnding(i)
    BY <1>4, <2>1 DEF EndingInv, RowsInv
  <2>3. \A i \in Rows' : IsEnding(i)' => i = n + 1 /\ log'[i] = pending[actor]
    BY <1>2, <2>2 DEF Rows, IsEnding
  <2>4. pending'["task"] = NoEvent
    BY <1>4, <2>1 DEF EndingInv, PendingInv, Actors
  <2>5. RowsInv'
    BY <1>2, <1>3, <2>1, <2>3, <2>4 DEF RowsInv
  <2>6. QED
    BY <1>6, <1>7, <2>5 DEF EndingInv
<1>10. QED
  BY <1>8, <1>9

\* Nothing else touches the rows.
LEMMA RowsUntouched ==
  ASSUME RowsInv, UNCHANGED <<log, runner>>,
         task = "ending" /\ task' = "ending" => UNCHANGED pending,
         task \in {"ending", "joining", "done", "gone"}
           => task' \in {"ending", "joining", "done", "gone"},
         task' = "ending" => task = "ending" \/ \A i \in Rows : ~ IsEnding(i)
  PROVE  RowsInv'
BY DEF RowsInv, Rows, IsEnding

LEMMA TaskKeeps == EndingInv /\ TaskStep => EndingInv'
<1> SUFFICES ASSUME EndingInv, TaskStep
             PROVE  EndingInv'
  OBVIOUS
<1> USE DEF EndingInv
<1>0. NoEvent.status \notin Endings
  BY DEF NoEvent, Endings
<1>1. CASE TaskStarts
  BY <1>1 DEF TaskStarts, Stored, runnerVars, monitorVars, RowsInv, PendingInv, RunnerInv, Rows,
              IsEnding
<1>2. CASE TaskAbandoned
  BY <1>0, <1>2 DEF TaskAbandoned, Interrupted, runnerVars, monitorVars, RowsInv, PendingInv,
              RunnerInv, Rows, IsEnding, Actors
<1>3. CASE TaskGetsResult
  BY <1>3 DEF TaskGetsResult, runnerVars, monitorVars, RowsInv, PendingInv, RunnerInv, Rows,
              IsEnding
<1>4. CASE TaskGetsFailure
  <2>1. "failed" \in EndingOf["raised"] /\ "raised" \in Outcomes
    BY DEF EndingOf, Outcomes
  <2>2. PendingInv'
    BY <1>4, <2>1 DEF TaskGetsFailure, Create, runnerVars, monitorVars, PendingInv, Actors
  <2>3. RowsInv' /\ RunnerInv'
    BY <1>4, <2>1 DEF TaskGetsFailure, Create, runnerVars, RowsInv, RunnerInv, Rows, IsEnding
  <2>4. QED
    BY <2>2, <2>3
<1>5. CASE TaskGetsCancelled
  <2>1. runner \in Outcomes
    BY <1>5 DEF TaskGetsCancelled, RunnerInv, Outcomes
  <2>2. "cancelled" \in EndingOf[runner]
    BY <2>1 DEF EndingOf, Outcomes, Results
  <2>3. PendingInv'
    BY <1>5, <2>1, <2>2 DEF TaskGetsCancelled, Create, runnerVars, monitorVars, PendingInv, Actors
  <2>4. RowsInv' /\ RunnerInv'
    BY <1>5, <2>1 DEF TaskGetsCancelled, Create, runnerVars, RowsInv, RunnerInv, Rows, IsEnding
  <2>5. QED
    BY <2>3, <2>4
<1>6. CASE TaskDecides
  <2>1. runner \in Results /\ runner \in Outcomes
    BY <1>6 DEF TaskDecides, RunnerInv, Outcomes
  <2>2. Ending(Status, runner) \in EndingOf[runner]
    BY <2>1 DEF Ending, EndingOf, Results
  <2>3. PendingInv'
    BY <1>6, <2>1, <2>2 DEF TaskDecides, Create, runnerVars, monitorVars, PendingInv, Actors
  <2>4. RowsInv' /\ RunnerInv'
    BY <1>6, <2>1 DEF TaskDecides, Create, runnerVars, RowsInv, RunnerInv, Rows, IsEnding
  <2>5. QED
    BY <2>3, <2>4
<1>7. CASE TaskEnds
  <2>1. PendingInv'
    BY <1>0, <1>7 DEF TaskEnds, Stored, Finally, runnerVars, PendingInv, Actors
  <2>2. RowsInv' /\ RunnerInv'
    BY <1>7 DEF TaskEnds, Stored, Finally, runnerVars, RowsInv, RunnerInv, Rows, IsEnding
  <2>3. QED
    BY <2>1, <2>2
<1>8. CASE TaskInterrupted
  <2>1. PendingInv'
    BY <1>0, <1>8 DEF TaskInterrupted, Interrupted, Finally, runnerVars, PendingInv, Actors
  <2>2. RowsInv' /\ RunnerInv'
    BY <1>8 DEF TaskInterrupted, Interrupted, Finally, runnerVars, RowsInv, RunnerInv, Rows,
                IsEnding
  <2>3. QED
    BY <2>1, <2>2
<1>9. CASE TaskJoins
  BY <1>9 DEF TaskJoins, runnerVars, monitorVars, RowsInv, PendingInv, RunnerInv, Rows, IsEnding
<1>10. QED
  BY <1>1, <1>2, <1>3, <1>4, <1>5, <1>6, <1>7, <1>8, <1>9 DEF TaskStep

\* The runner ends before any ending is chosen.
LEMMA RunnerKeeps ==
  ASSUME EndingInv, NEW outcome \in Outcomes, RunnerEnds(outcome)
  PROVE  EndingInv'
<1>1. runner = "running" /\ runner \notin Outcomes /\ runner # "gone"
  BY DEF RunnerEnds, Outcomes, Results
<1>2. \A i \in Rows : ~ IsEnding(i)
  BY <1>1 DEF EndingInv, RowsInv
<1>3. runner' \in Outcomes /\ runner' # "gone"
  BY DEF RunnerEnds, Outcomes, Results
<1>4. RowsInv'
  BY <1>2 DEF EndingInv, RowsInv, RunnerEnds, Rows, IsEnding
<1>5. PendingInv' /\ RunnerInv'
  BY <1>1, <1>3 DEF EndingInv, PendingInv, RunnerInv, RunnerEnds, taskVars, monitorVars, Results,
                    Outcomes
<1>6. QED
  BY <1>4, <1>5 DEF EndingInv

\* What the monitor and cancel_job create is no ending.
LEMMA OthersKeep == EndingInv /\ (MonitorStep \/ CancelStep) => EndingInv'
<1> SUFFICES ASSUME EndingInv, MonitorStep \/ CancelStep
             PROVE  EndingInv'
  OBVIOUS
<1>0. NoEvent.status \notin Endings /\ NoSnapshot.status \notin Endings
      /\ "cancel_requested" \notin Endings
  BY DEF NoEvent, NoSnapshot, Endings
<1>1. UNCHANGED <<log, task, runner>>
  BY DEF MonitorStep, MonitorReads, MonitorSkips, MonitorUpdates, MonitorWrites, MonitorStops,
         CancelStep, CancelReads, CancelInspects, CancelWrites, Create, Stored, Interrupted,
         taskVars, runnerVars
<1>2. pending'["task"] = pending["task"]
  BY DEF MonitorStep, MonitorReads, MonitorSkips, MonitorUpdates, MonitorWrites, MonitorStops,
         CancelStep, CancelReads, CancelInspects, CancelWrites, Create, Stored, Interrupted,
         EndingInv, PendingInv, Actors
<1>3. PendingInv'
  <2>1. CASE MonitorStep
    <3>1. monitorSaw'.status \notin Endings
      BY <1>0, <2>1
      DEF MonitorStep, MonitorReads, MonitorSkips, MonitorUpdates, MonitorWrites, MonitorStops,
          EndingInv, PendingInv
    <3>2. \/ UNCHANGED pending
          \/ pending' = [pending EXCEPT !["monitor"] = NoEvent]
          \/ \E e : pending' = [pending EXCEPT !["monitor"] = e] /\ e.status \notin Endings
      BY <2>1
      DEF MonitorStep, MonitorReads, MonitorSkips, MonitorUpdates, MonitorWrites, MonitorStops,
          Create, Stored, Interrupted, EndingInv, PendingInv
    <3>3. QED
      BY <1>0, <1>1, <1>2, <3>1, <3>2 DEF EndingInv, PendingInv, Actors
  <2>2. CASE CancelStep
    BY <1>0, <1>1, <1>2, <2>2
    DEF CancelStep, CancelReads, CancelInspects, CancelWrites, Create, Stored, monitorVars,
        EndingInv, PendingInv, Actors
  <2>3. QED
    BY <2>1, <2>2
<1>4. RowsInv'
  BY <1>1, <1>2 DEF EndingInv, RowsInv, Rows, IsEnding
<1>5. taskCancel' => taskCancel \/ TaskInterruptible
  BY DEF MonitorStep, MonitorReads, MonitorSkips, MonitorUpdates, MonitorWrites, MonitorStops,
         CancelStep, CancelReads, CancelInspects, CancelWrites, taskVars
<1>6. RunnerInv'
  BY <1>1, <1>5 DEF EndingInv, RunnerInv, TaskInterruptible
<1>7. QED
  BY <1>3, <1>4, <1>6 DEF EndingInv

LEMMA ServerKeeps == EndingInv /\ (Shutdown \/ Restart) => EndingInv'
<1> SUFFICES ASSUME EndingInv, Shutdown \/ Restart
             PROVE  EndingInv'
  OBVIOUS
<1>0. NoEvent.status \notin Endings /\ NoSnapshot.status \notin Endings
  BY DEF NoEvent, NoSnapshot, Endings
<1>1. CASE Shutdown
  <2>1. UNCHANGED <<log, task, runner, monitorSaw>> /\ pending'["task"] = pending["task"]
    BY <1>1 DEF Shutdown, Interrupted, EndingInv, PendingInv, Actors
  <2>2. PendingInv'
    BY <1>0, <1>1, <2>1 DEF Shutdown, Interrupted, EndingInv, PendingInv, Actors
  <2>3. RowsInv'
    BY <2>1 DEF EndingInv, RowsInv, Rows, IsEnding
  <2>4. RunnerInv'
    BY <1>1, <2>1 DEF Shutdown, EndingInv, RunnerInv, TaskInterruptible
  <2>5. QED
    BY <2>2, <2>3, <2>4 DEF EndingInv
<1>2. CASE Restart
  <2>1. UNCHANGED log /\ task' = "gone" /\ runner' = "gone"
    BY <1>2 DEF Restart
  <2>2. PendingInv'
    BY <1>0, <1>2 DEF Restart, PendingInv, Actors
  <2>3. RowsInv'
    BY <2>1 DEF EndingInv, RowsInv, Rows, IsEnding
  <2>4. RunnerInv'
    BY <2>1 DEF RunnerInv
  <2>5. QED
    BY <2>2, <2>3, <2>4 DEF EndingInv
<1>3. QED
  BY <1>1, <1>2

LEMMA EndingInit == Init => EndingInv
<1> SUFFICES ASSUME Init
             PROVE  EndingInv
  OBVIOUS
<1> DEFINE first == [stamp |-> 1, status |-> "queued", asOf |-> 0]
<1>1. log = <<first>> /\ log \in Seq({first}) /\ Len(log) = 1
  BY DEF Init
<1>2. RowsInv
  <2>1. \A i \in Rows : ~ IsEnding(i)
    BY <1>1 DEF Rows, IsEnding, Endings
  <2>2. QED
    BY <1>1, <2>1 DEF RowsInv
<1>3. PendingInv
  BY DEF Init, PendingInv, Actors, Endings, NoEvent, NoSnapshot
<1>4. RunnerInv
  BY DEF Init, RunnerInv
<1>5. QED
  BY <1>2, <1>3, <1>4 DEF EndingInv

LEMMA EndingStep == EndingInv /\ [Next]_vars => EndingInv'
<1>1. EndingInv /\ StoreStep => EndingInv'
  BY StoreKeeps DEF StoreStep
<1>2. EndingInv /\ RunnerStep => EndingInv'
  BY RunnerKeeps DEF RunnerStep
<1>3. EndingInv /\ UNCHANGED vars => EndingInv'
  BY DEF vars, taskVars, runnerVars, monitorVars, EndingInv, RowsInv, PendingInv, RunnerInv,
         Rows, IsEnding
<1>4. QED
  BY <1>1, <1>2, <1>3, TaskKeeps, OthersKeep, ServerKeeps DEF Next

\* At most one ending of a job is ever stored, and it is the one its runner
\* came to or a cancellation, in whatever order the task, the monitor,
\* cancel_job and the server store, interrupt and end.
THEOREM JobEndsOnce == Spec => []OneTrueEnding
<1>1. EndingInv => OneTrueEnding
  BY DEF EndingInv, RowsInv, OneTrueEnding
<1>2. QED
  BY EndingInit, EndingStep, <1>1, PTL DEF Spec

-----------------------------------------------------------------------------
(* The row a replay ends with                                              *)

\* A bounded set of numbers has a greatest one.
LEMMA GreatestOfBounded ==
  ASSUME NEW S \in SUBSET Nat, S # {}, NEW c \in Nat, \A s \in S : s <= c
  PROVE  \E g \in S : \A s \in S : s <= g
<1> DEFINE gaps == {c - s : s \in S}
           less == {ss \in Nat \X Nat : ss[1] < ss[2]}
<1>1. gaps \subseteq Nat /\ gaps # {}
  <2>1. ASSUME NEW s \in S
        PROVE  c - s \in Nat
    OBVIOUS
  <2>2. QED
    BY <2>1
<1>2. IsWellFoundedOn(less, Nat)
  BY NatLessThanWellFounded DEF OpToRel
<1>3. PICK x \in gaps : \A y \in gaps : ~ (<<y, x>> \in less)
  <2> HIDE DEF gaps, less
  <2>1. QED
    BY <1>1, <1>2, WFMin
<1>4. PICK g \in S : x = c - g
  OBVIOUS
<1>5. ASSUME NEW s \in S
      PROVE  s <= g
  <2>1. c - s \in gaps
    OBVIOUS
  <2>2. <<c - s, x>> \in Nat \X Nat
    BY <1>1, <2>1
  <2>3. ~ (c - s < c - g)
    BY <1>3, <1>4, <2>1, <2>2
  <2>4. s \in Nat /\ g \in Nat
    OBVIOUS
  <2>5. QED
    BY <2>3, <2>4
<1>6. QED
  BY <1>5

Row == [stamp : Nat, status : Statuses, asOf : Nat]

LEMMA LatestIsLast ==
  ASSUME log \in Seq(Row), clock \in Nat, \A i \in Rows : log[i].stamp <= clock,
         NEW n \in 1 .. Len(log)
  PROVE  /\ Latest(n) \in 1 .. n
         /\ \A j \in 1 .. n : log[j].stamp <= log[Latest(n)].stamp
<1> DEFINE stamps == {log[i].stamp : i \in 1 .. n}
<1>1. ASSUME NEW i \in 1 .. n
      PROVE  log[i].stamp \in Nat /\ log[i].stamp <= clock
  <2>1. Len(log) \in Nat /\ i \in 1 .. Len(log)
    OBVIOUS
  <2>2. log[i] \in Row
    BY <2>1
  <2>3. QED
    BY <2>1, <2>2 DEF Row, Rows
<1>2. stamps \in SUBSET Nat /\ stamps # {} /\ \A s \in stamps : s <= clock
  BY <1>1
<1>3. PICK g \in stamps : \A s \in stamps : s <= g
  <2> HIDE DEF stamps
  <2>1. QED
    BY <1>2, GreatestOfBounded
<1>4. \E i \in 1 .. n : \A j \in 1 .. n : log[j].stamp <= log[i].stamp
  BY <1>3
<1>5. QED
  BY <1>4 DEF Latest

-----------------------------------------------------------------------------
(* Requests to cancel                                                      *)

Asked == server # "up" \/ requests > 0
Asking == {"cancel_requested", "cancelled"}

\* Among the first n rows of lg, the monitor has written over the request in
\* row r the status of a snapshot it had read before.
Excused(lg, r, n) ==
  \E m \in 1 .. n : /\ lg[m].status \in {"queued", "running"}
                    /\ lg[m].stamp > lg[r].stamp
                    /\ lg[m].asOf < r

AllExcused(lg, n) ==
  \A r \in 1 .. n : lg[r].status = "cancel_requested" => Excused(lg, r, n)

RowTypes ==
  /\ log \in Seq(Row) /\ Len(log) >= 1
  /\ clock \in Nat
  /\ pending \in [Actors -> Row]
  /\ monitorSaw \in [status : Statuses, asOf : Nat] /\ monitorSaw.asOf <= Len(log)
  /\ cancelSaw \in 0 .. Len(log)
  /\ \A i \in Rows : log[i].asOf <= Len(log)
  /\ \A a \in Actors : pending[a].asOf <= Len(log)
  /\ requests \in Nat

\* No timestamp is given twice.
StampsInv ==
  /\ \A i \in Rows : log[i].stamp <= clock
  /\ \A i, j \in Rows : log[i].stamp = log[j].stamp => i = j
  /\ \A a \in Actors : pending[a] # NoEvent =>
       pending[a].stamp <= clock /\ \A i \in Rows : log[i].stamp # pending[a].stamp
  /\ \A a, b \in Actors :
       pending[a] # NoEvent /\ pending[b] # NoEvent /\ pending[a].stamp = pending[b].stamp
         => a = b

\* Whoever writes a status that takes no notice of the requests it had read
\* has found each of them overwritten.
ExcusesInv ==
  /\ \A i \in Rows : log[i].status \notin Asking => AllExcused(log, log[i].asOf)
  /\ \A a \in Actors : pending[a].status \notin Asking => AllExcused(log, pending[a].asOf)
  /\ monitorSaw.status \notin Asking => AllExcused(log, monitorSaw.asOf)

\* Nothing is cancelled that nobody has asked for.
AskedInv ==
  /\ \A i \in Rows : log[i].status \in Asking => Asked
  /\ \A a \in Actors : pending[a].status \in Asking => Asked
  /\ monitorSaw.status \in Asking => Asked
  /\ taskCancel \/ runnerCancel \/ runner = "cancelled" \/ canceller # "idle" => Asked

HeedInv == RowTypes /\ StampsInv /\ ExcusesInv /\ AskedInv

LEMMA LatestStatus ==
  ASSUME RowTypes, StampsInv
  PROVE  /\ Latest(Len(log)) \in Rows
         /\ Status \in Statuses
         /\ \A j \in Rows : log[j].stamp <= log[Latest(Len(log))].stamp
<1>1. Len(log) \in 1 .. Len(log)
  BY DEF RowTypes
<1>2. /\ Latest(Len(log)) \in 1 .. Len(log)
      /\ \A j \in 1 .. Len(log) : log[j].stamp <= log[Latest(Len(log))].stamp
  BY <1>1, LatestIsLast DEF RowTypes, StampsInv
<1>3. log[Latest(Len(log))] \in Row
  BY <1>2 DEF RowTypes
<1>4. QED
  BY <1>2, <1>3 DEF Rows, Row, Status, StatusAt

\* If the log reads as unfinished and not asked to stop, then every request
\* in it is excused.
LEMMA LatestExcuses ==
  ASSUME RowTypes, StampsInv, ExcusesInv, Status \notin Endings \cup {"cancel_requested"}
  PROVE  AllExcused(log, Len(log))
<1> DEFINE last == Latest(Len(log))
<1>1. /\ last \in Rows
      /\ log[last].status \in {"queued", "running"}
      /\ \A j \in Rows : log[j].stamp <= log[last].stamp
  BY LatestStatus DEF Status, StatusAt, Statuses
<1> HIDE DEF last
<1>2. \A i \in Rows : log[i].stamp \in Nat /\ log[i].asOf \in Nat
  <2>1. ASSUME NEW i \in Rows
        PROVE  log[i] \in Row
    BY DEF RowTypes, Rows
  <2>2. QED
    BY <2>1 DEF Row
<1>3. AllExcused(log, log[last].asOf)
  BY <1>1 DEF ExcusesInv, Asking
<1>4. log[last].asOf <= Len(log) /\ Len(log) \in Nat
  BY <1>1 DEF RowTypes
<1>5. ASSUME NEW r \in 1 .. Len(log), log[r].status = "cancel_requested"
      PROVE  Excused(log, r, Len(log))
  <2>1. r \in Rows /\ r # last
    BY <1>1, <1>5 DEF Rows
  <2>2. log[r].stamp < log[last].stamp
    BY <1>1, <1>2, <2>1 DEF StampsInv
  <2>3. CASE log[last].asOf < r
    BY <1>1, <2>2, <2>3 DEF Excused, Rows
  <2>4. CASE ~ (log[last].asOf < r)
    <3>1. r \in 1 .. log[last].asOf
      BY <1>1, <1>2, <1>4, <1>5, <2>4
    <3>2. Excused(log, r, log[last].asOf)
      BY <1>3, <1>5, <3>1 DEF AllExcused
    <3>3. QED
      BY <1>1, <1>2, <1>4, <3>2 DEF Excused
  <2>5. QED
    BY <2>3, <2>4
<1>6. QED
  BY <1>5 DEF AllExcused

-----------------------------------------------------------------------------

\* An actor takes an event in hand that is well founded on the log.
Created(a) ==
  \E s \in Statuses, n \in 0 .. Len(log) :
    /\ Create(a, s, n)
    /\ s \in Asking => Asked'
    /\ s \notin Asking => AllExcused(log, n)

\* What every step but the store's does to events and snapshots.
EventStep ==
  \/ UNCHANGED <<log, clock, pending>>
  \/ \E a \in Actors : Interrupted(a)
  \/ \E a \in Actors : Created(a)

SnapshotStep ==
  \/ monitorSaw' = monitorSaw
  \/ monitorSaw' = NoSnapshot
  \/ monitorSaw' = [status |-> Status, asOf |-> Len(log)] /\ Status \notin Endings

AskedStep ==
  /\ requests' \in Nat /\ cancelSaw' \in 0 .. Len(log)
  /\ Asked => Asked'
  /\ taskCancel' \/ runnerCancel' \/ runner' = "cancelled" \/ canceller' # "idle" => Asked'

LEMMA EventKeeps ==
  ASSUME HeedInv, EventStep, SnapshotStep, AskedStep
  PROVE  HeedInv'
<1> USE DEF HeedInv
<1>0. /\ log' = log /\ Len(log) \in Nat /\ Rows' = Rows
      /\ NoEvent \in Row /\ NoEvent.asOf = 0 /\ NoEvent.status = "queued"
      /\ NoSnapshot \in [status : Statuses, asOf : Nat] /\ NoSnapshot.asOf = 0
      /\ NoSnapshot.status = "queued"
      /\ \A lg : AllExcused(lg, 0)
      /\ "queued" \notin Asking
  BY DEF EventStep, Interrupted, Created, Create, RowTypes, Rows, NoEvent, NoSnapshot, Row,
         Statuses, AllExcused, Asking
<1>1. /\ monitorSaw' \in [status : Statuses, asOf : Nat] /\ monitorSaw'.asOf <= Len(log)
      /\ monitorSaw'.status \in Asking => Asked'
      /\ monitorSaw'.status \notin Asking => AllExcused(log, monitorSaw'.asOf)
  <2>1. CASE monitorSaw' = monitorSaw
    BY <2>1 DEF RowTypes, AskedInv, ExcusesInv, AskedStep
  <2>2. CASE monitorSaw' = NoSnapshot
    BY <1>0, <2>2
  <2>3. CASE monitorSaw' = [status |-> Status, asOf |-> Len(log)] /\ Status \notin Endings
    <3>1. Status \in Statuses
      BY LatestStatus
    <3>2. Status \in Asking => Asked
      BY LatestStatus DEF AskedInv, Status, StatusAt
    <3>3. Status \notin Asking => AllExcused(log, Len(log))
      BY <2>3, LatestExcuses DEF Asking
    <3>4. QED
      BY <1>0, <2>3, <3>1, <3>2, <3>3 DEF AskedStep
  <2>4. QED
    BY <2>1, <2>2, <2>3 DEF SnapshotStep
<1>2. CASE UNCHANGED <<log, clock, pending>>
  <2>1. RowTypes'
    BY <1>0, <1>1, <1>2 DEF RowTypes, AskedStep
  <2>2. StampsInv' /\ ExcusesInv'
    BY <1>0, <1>1, <1>2 DEF StampsInv, ExcusesInv
  <2>3. AskedInv'
    BY <1>0, <1>1, <1>2 DEF AskedInv, AskedStep
  <2>4. QED
    BY <2>1, <2>2, <2>3
<1>3. ASSUME NEW a \in Actors, Interrupted(a)
      PROVE  HeedInv'
  <2>1. /\ clock' = clock /\ pending' \in [Actors -> Row] /\ pending'[a] = NoEvent
        /\ \A b \in Actors \ {a} : pending'[b] = pending[b]
    BY <1>0, <1>3 DEF Interrupted, RowTypes
  <2>2. RowTypes'
    BY <1>0, <1>1, <2>1 DEF RowTypes, AskedStep
  <2>3. StampsInv'
    BY <1>0, <2>1 DEF StampsInv
  <2>4. ExcusesInv'
    BY <1>0, <1>1, <2>1 DEF ExcusesInv
  <2>5. AskedInv'
    BY <1>0, <1>1, <2>1 DEF AskedInv, AskedStep
  <2>6. QED
    BY <2>2, <2>3, <2>4, <2>5
<1>4. ASSUME NEW a \in Actors, Created(a)
      PROVE  HeedInv'
  <2>1. PICK s \in Statuses, n \in 0 .. Len(log) :
          /\ Create(a, s, n)
          /\ s \in Asking => Asked'
          /\ s \notin Asking => AllExcused(log, n)
    BY <1>4 DEF Created
  <2>2. /\ clock' = clock + 1 /\ clock \in Nat
        /\ pending' = [pending EXCEPT ![a] = [stamp |-> clock + 1, status |-> s, asOf |-> n]]
    BY <2>1 DEF Create, RowTypes
  <2>3. /\ pending'[a] = [stamp |-> clock + 1, status |-> s, asOf |-> n]
        /\ [stamp |-> clock + 1, status |-> s, asOf |-> n] \in Row
        /\ pending' \in [Actors -> Row]
        /\ \A b \in Actors \ {a} : pending'[b] = pending[b]
    BY <1>0, <2>2 DEF RowTypes, Row
  <2>4. RowTypes'
    BY <1>0, <1>1, <2>1, <2>2, <2>3 DEF RowTypes, AskedStep
  <2>5. StampsInv'
    <3>1. \A i \in Rows : log[i].stamp \in Nat
      <4>1. \A i \in Rows : log[i] \in Row
        BY DEF RowTypes, Rows
      <4>2. QED
        BY <4>1 DEF Row
    <3>2. \A b \in Actors : pending[b].stamp \in Nat
      BY DEF RowTypes, Row
    <3>3. QED
      BY <1>0, <2>2, <2>3, <3>1, <3>2 DEF StampsInv
  <2>6. ExcusesInv'
    BY <1>0, <1>1, <2>1, <2>3 DEF ExcusesInv
  <2>7. AskedInv'
    BY <1>0, <1>1, <2>1, <2>3 DEF AskedInv, AskedStep
  <2>8. QED
    BY <2>4, <2>5, <2>6, <2>7
<1>5. QED
  BY <1>2, <1>3, <1>4 DEF EventStep

\* The store only moves an event from its writer's hand to the log.
LEMMA StoreHeeds ==
  ASSUME HeedInv, NEW actor \in Actors, Store(actor)
  PROVE  HeedInv'
<1> USE DEF HeedInv
<1> DEFINE n == Len(log)
           e == pending[actor]
<1>1. /\ log' \in Seq(Row) /\ e \in Row
      /\ Len(log') = n + 1 /\ n \in Nat /\ n >= 1
      /\ \A i \in 1 .. n : log'[i] = log[i]
      /\ log'[n + 1] = e
      /\ Rows' = 1 .. n + 1 /\ Rows = 1 .. n
  BY DEF Store, RowTypes, Rows
<1>2. /\ pending'[actor] = NoEvent /\ e # NoEvent
      /\ \A b \in Actors \ {actor} : pending'[b] = pending[b]
      /\ pending' \in [Actors -> Row]
      /\ NoEvent \in Row /\ NoEvent.asOf = 0 /\ NoEvent.status = "queued"
      /\ "queued" \notin Asking
  BY DEF Store, RowTypes, NoEvent, Row, Statuses, Asking
<1>3. UNCHANGED <<clock, monitorSaw, cancelSaw, requests, server, taskCancel, runnerCancel, runner,
                  canceller>>
  BY DEF Store, taskVars, runnerVars, monitorVars, cancelVars
<1>4. ASSUME NEW k \in Nat, k <= n, AllExcused(log, k)
      PROVE  AllExcused(log', k)
  <2>1. \A i \in 1 .. k : i \in 1 .. n /\ log'[i] = log[i]
    BY <1>1, <1>4
  <2>2. QED
    BY <1>4, <2>1 DEF AllExcused, Excused
<1>5. AllExcused(log', 0)
  BY DEF AllExcused
<1>6. RowTypes'
  <2>1. \A i \in Rows' : log'[i].asOf <= n + 1
    <3>1. \A i \in Rows : log'[i] = log[i] /\ log[i] \in Row /\ log[i].asOf <= n
      BY <1>1 DEF RowTypes
    <3>2. e.asOf <= n
      BY DEF RowTypes
    <3>3. \A x \in Row : x.asOf \in Nat
      BY DEF Row
    <3>4. QED
      BY <1>1, <3>1, <3>2, <3>3
  <2>2. \A b \in Actors : pending'[b].asOf <= n + 1
    <3>1. \A b \in Actors : pending[b].asOf \in Nat /\ pending[b].asOf <= n
      BY DEF RowTypes, Row
    <3>2. QED
      BY <1>1, <1>2, <3>1
  <2>3. monitorSaw'.asOf <= n + 1 /\ cancelSaw' \in 0 .. n + 1
    BY <1>1, <1>3 DEF RowTypes
  <2>4. QED
    BY <1>1, <1>2, <1>3, <2>1, <2>2, <2>3 DEF RowTypes
<1>7. StampsInv'
  <2>1. \A i \in Rows' : i = n + 1 \/ (i \in Rows /\ log'[i] = log[i])
    BY <1>1
  <2>2. QED
    BY <1>1, <1>2, <1>3, <2>1 DEF StampsInv
<1>8. ExcusesInv'
  <2>1. ASSUME NEW i \in Rows', log'[i].status \notin Asking
        PROVE  AllExcused(log', log'[i].asOf)
    <3>1. CASE i \in Rows
      <4>1. log'[i] = log[i] /\ log[i] \in Row
        BY <1>1, <3>1 DEF RowTypes
      <4>2. log[i].asOf \in Nat /\ log[i].asOf <= n
        BY <3>1, <4>1 DEF RowTypes, Row
      <4>3. QED
        BY <1>4, <2>1, <3>1, <4>1, <4>2 DEF ExcusesInv
    <3>2. CASE i = n + 1
      <4>1. e.asOf \in Nat /\ e.asOf <= n
        BY <1>1 DEF RowTypes, Row
      <4>2. QED
        BY <1>1, <1>4, <2>1, <3>2, <4>1 DEF ExcusesInv
    <3>3. QED
      BY <1>1, <3>1, <3>2
  <2>2. ASSUME NEW a \in Actors, pending'[a].status \notin Asking
        PROVE  AllExcused(log', pending'[a].asOf)
    <3>1. CASE a = actor
      BY <1>2, <1>5, <3>1
    <3>2. CASE a # actor
      <4>1. pending[a].asOf \in Nat /\ pending[a].asOf <= n
        BY DEF RowTypes, Row
      <4>2. QED
        BY <1>2, <1>4, <2>2, <3>2, <4>1 DEF ExcusesInv
    <3>3. QED
      BY <3>1, <3>2
  <2>3. monitorSaw'.status \notin Asking => AllExcused(log', monitorSaw'.asOf)
    <3>1. monitorSaw.asOf \in Nat /\ monitorSaw.asOf <= n
      BY DEF RowTypes
    <3>2. QED
      BY <1>3, <1>4, <3>1 DEF ExcusesInv
  <2>4. QED
    BY <2>1, <2>2, <2>3 DEF ExcusesInv
<1>9. AskedInv'
  <2>1. \A i \in Rows' : i = n + 1 \/ (i \in Rows /\ log'[i] = log[i])
    BY <1>1
  <2>2. QED
    BY <1>1, <1>2, <1>3, <2>1 DEF AskedInv, Asked
<1>10. QED
  BY <1>6, <1>7, <1>8, <1>9

\* An ending that fails or is cancelled claims to have read nothing.
LEMMA TaskHeeds == EndingInv /\ HeedInv /\ TaskStep => HeedInv'
<1> SUFFICES ASSUME EndingInv, HeedInv, TaskStep
             PROVE  HeedInv'
  OBVIOUS
<1> USE DEF Actors
<1>0. "failed" \in Statuses /\ "cancelled" \in Statuses /\ "failed" \notin Asking
      /\ 0 \in 0 .. Len(log) /\ Len(log) \in 0 .. Len(log) /\ \A lg : AllExcused(lg, 0)
  BY DEF Statuses, Endings, Asking, HeedInv, RowTypes, AllExcused
<1>1. AskedStep
  BY DEF TaskStep, TaskStarts, TaskAbandoned, TaskGetsResult, TaskGetsFailure, TaskGetsCancelled,
         TaskDecides, TaskEnds, TaskInterrupted, TaskJoins, Finally, Stored, Interrupted, Create,
         runnerVars, monitorVars, cancelVars, AskedStep, Asked, HeedInv, AskedInv, RowTypes
<1>2. SnapshotStep
  BY DEF TaskStep, TaskStarts, TaskAbandoned, TaskGetsResult, TaskGetsFailure, TaskGetsCancelled,
         TaskDecides, TaskEnds, TaskInterrupted, TaskJoins, Finally, monitorVars, SnapshotStep
<1>3. EventStep
  <2>1. CASE TaskStarts \/ TaskGetsResult \/ TaskEnds \/ TaskJoins
    BY <2>1 DEF TaskStarts, TaskGetsResult, TaskEnds, TaskJoins, Stored, EventStep
  <2>2. CASE TaskAbandoned \/ TaskInterrupted
    BY <2>2 DEF TaskAbandoned, TaskInterrupted, EventStep
  <2>3. CASE TaskGetsFailure
    BY <1>0, <2>3 DEF TaskGetsFailure, EventStep, Created
  <2>4. CASE TaskGetsCancelled
    <3>1. Asked'
      BY <2>4 DEF TaskGetsCancelled, HeedInv, AskedInv, Asked, cancelVars
    <3>2. "cancelled" \in Asking
      BY DEF Asking
    <3>3. QED
      BY <1>0, <2>4, <3>1, <3>2 DEF TaskGetsCancelled, EventStep, Created
  <2>5. CASE TaskDecides
    <3> DEFINE s == Ending(Status, runner)
    <3>1. s \in Statuses /\ (s \in Asking => Status = "cancel_requested")
          /\ (s \notin Asking => Status # "cancel_requested")
      BY DEF Ending, Asking, Statuses, Endings
    <3>2. Status = "cancel_requested" => Asked
      BY LatestStatus DEF HeedInv, AskedInv, Asking, Status, StatusAt
    <3>3. Status \notin Endings
      <4>1. \A i \in Rows : ~ IsEnding(i)
        BY <2>5 DEF TaskDecides, EndingInv, RowsInv
      <4>2. QED
        BY <4>1, LatestStatus DEF HeedInv, Status, StatusAt, IsEnding
    <3>4. s \notin Asking => AllExcused(log, Len(log))
      BY <3>1, <3>3, LatestExcuses DEF HeedInv
    <3>5. Create("task", s, Len(log))
      BY <2>5 DEF TaskDecides
    <3> HIDE DEF s
    <3>6. QED
      BY <1>0, <1>1, <3>1, <3>2, <3>4, <3>5 DEF EventStep, Created, AskedStep
  <2>6. QED
    BY <2>1, <2>2, <2>3, <2>4, <2>5 DEF TaskStep
<1>4. QED
  BY <1>1, <1>2, <1>3, EventKeeps

LEMMA RunnerHeeds ==
  ASSUME HeedInv, NEW outcome \in Outcomes, RunnerEnds(outcome)
  PROVE  HeedInv'
<1>1. AskedStep
  BY DEF RunnerEnds, AskedStep, Asked, HeedInv, AskedInv, RowTypes, taskVars, cancelVars
<1>2. SnapshotStep /\ EventStep
  BY DEF RunnerEnds, SnapshotStep, EventStep, monitorVars
<1>3. QED
  BY <1>1, <1>2, EventKeeps

LEMMA MonitorHeeds == HeedInv /\ MonitorStep => HeedInv'
<1> SUFFICES ASSUME HeedInv, MonitorStep
             PROVE  HeedInv'
  OBVIOUS
<1>1. AskedStep
  BY DEF MonitorStep, MonitorReads, MonitorSkips, MonitorUpdates, MonitorWrites, MonitorStops,
         taskVars, runnerVars, cancelVars, AskedStep, Asked, HeedInv, AskedInv, RowTypes
<1>2. SnapshotStep
  BY DEF MonitorStep, MonitorReads, MonitorSkips, MonitorUpdates, MonitorWrites, MonitorStops,
         SnapshotStep
<1>3. EventStep
  <2>1. CASE MonitorUpdates
    <3>1. /\ monitorSaw.status \in Statuses
          /\ monitorSaw.asOf \in 0 .. Len(log)
          /\ monitorSaw.status \in Asking => Asked
          /\ monitorSaw.status \notin Asking => AllExcused(log, monitorSaw.asOf)
      BY DEF HeedInv, RowTypes, AskedInv, ExcusesInv
    <3>2. QED
      BY <1>1, <2>1, <3>1 DEF MonitorUpdates, EventStep, Created, AskedStep, Actors
  <2>2. CASE MonitorReads \/ MonitorSkips \/ MonitorWrites \/ MonitorStops
    BY <2>2 DEF MonitorReads, MonitorSkips, MonitorWrites, MonitorStops, Stored, EventStep, Actors
  <2>3. QED
    BY <2>1, <2>2 DEF MonitorStep
<1>4. QED
  BY <1>1, <1>2, <1>3, EventKeeps

LEMMA CancelHeeds == HeedInv /\ CancelStep => HeedInv'
<1> SUFFICES ASSUME HeedInv, CancelStep
             PROVE  HeedInv'
  OBVIOUS
<1>0. Len(log) \in 0 .. Len(log) /\ requests \in Nat /\ cancelSaw \in 0 .. Len(log)
      /\ "cancel_requested" \in Statuses /\ "cancel_requested" \in Asking
  BY DEF HeedInv, RowTypes, Statuses, Asking
<1>1. AskedStep
  BY <1>0 DEF CancelStep, CancelReads, CancelInspects, CancelWrites, taskVars, runnerVars,
              AskedStep, Asked, HeedInv, AskedInv
<1>2. SnapshotStep
  BY DEF CancelStep, CancelReads, CancelInspects, CancelWrites, monitorVars, SnapshotStep
<1>3. EventStep
  <2>1. CASE CancelReads
    BY <1>0, <2>1 DEF CancelReads, EventStep, Created, Asked, Actors
  <2>2. CASE CancelInspects
    <3>1. Asked
      BY <2>2 DEF CancelInspects, HeedInv, AskedInv
    <3>2. QED
      BY <1>0, <1>1, <2>2, <3>1 DEF CancelInspects, EventStep, Created, AskedStep, Actors
  <2>3. CASE CancelWrites
    BY <2>3 DEF CancelWrites, Stored, EventStep
  <2>4. QED
    BY <2>1, <2>2, <2>3 DEF CancelStep
<1>4. QED
  BY <1>1, <1>2, <1>3, EventKeeps

LEMMA ShutdownHeeds == HeedInv /\ Shutdown => HeedInv'
<1> SUFFICES ASSUME HeedInv, Shutdown
             PROVE  HeedInv'
  OBVIOUS
<1>1. AskedStep
  BY DEF Shutdown, Interrupted, AskedStep, Asked, HeedInv, RowTypes
<1>2. SnapshotStep /\ EventStep
  BY DEF Shutdown, SnapshotStep, EventStep, Actors
<1>3. QED
  BY <1>1, <1>2, EventKeeps

LEMMA RestartHeeds == HeedInv /\ Restart => HeedInv'
<1> SUFFICES ASSUME HeedInv, Restart
             PROVE  HeedInv'
  OBVIOUS
<1>1. /\ UNCHANGED <<log, clock, requests>> /\ Asked'
      /\ monitorSaw' = NoSnapshot /\ cancelSaw' = 0
      /\ pending' = [a \in Actors |-> NoEvent]
  BY DEF Restart, Asked
<1>2. /\ NoEvent \in Row /\ NoEvent.asOf = 0 /\ Len(log) \in Nat
      /\ NoSnapshot \in [status : Statuses, asOf : Nat] /\ NoSnapshot.asOf = 0
      /\ \A lg : AllExcused(lg, 0)
  BY DEF NoEvent, NoSnapshot, Row, Statuses, AllExcused, HeedInv, RowTypes
<1>3. RowTypes' /\ StampsInv'
  BY <1>1, <1>2 DEF HeedInv, RowTypes, StampsInv, Rows
<1>4. ExcusesInv' /\ AskedInv'
  BY <1>1, <1>2 DEF HeedInv, ExcusesInv, AskedInv, Rows
<1>5. QED
  BY <1>3, <1>4 DEF HeedInv

LEMMA HeedInit == Init => HeedInv
<1> SUFFICES ASSUME Init
             PROVE  HeedInv
  OBVIOUS
<1>1. /\ log = <<[stamp |-> 1, status |-> "queued", asOf |-> 0]>>
      /\ log \in Seq(Row) /\ Len(log) = 1
      /\ log[1].stamp = 1 /\ log[1].status = "queued" /\ log[1].asOf = 0
  BY DEF Init, Row, Statuses
<1>2. /\ pending["task"] = [stamp |-> 2, status |-> "running", asOf |-> 0]
      /\ pending["monitor"] = NoEvent /\ pending["canceller"] = NoEvent
      /\ pending \in [Actors -> Row]
  BY DEF Init, Row, Statuses, Actors, NoEvent
<1>3. \A lg : AllExcused(lg, 0)
  BY DEF AllExcused
<1>4. RowTypes
  BY <1>1, <1>2 DEF Init, RowTypes, Rows, NoSnapshot, NoEvent, Statuses, Actors
<1>5. StampsInv
  BY <1>1, <1>2 DEF Init, StampsInv, Rows, NoEvent, Actors
<1>6. ExcusesInv
  BY <1>1, <1>2, <1>3 DEF Init, ExcusesInv, Rows, NoEvent, NoSnapshot, Actors
<1>7. AskedInv
  BY <1>1, <1>2 DEF Init, AskedInv, Asking, Rows, NoEvent, NoSnapshot, Actors
<1>8. QED
  BY <1>4, <1>5, <1>6, <1>7 DEF HeedInv

LEMMA HeedStep == EndingInv /\ HeedInv /\ [Next]_vars => HeedInv'
<1>1. HeedInv /\ StoreStep => HeedInv'
  BY StoreHeeds DEF StoreStep
<1>2. HeedInv /\ RunnerStep => HeedInv'
  BY RunnerHeeds DEF RunnerStep
<1>3. HeedInv /\ UNCHANGED vars => HeedInv'
  BY DEF vars, taskVars, runnerVars, monitorVars, cancelVars, HeedInv, RowTypes, StampsInv,
         ExcusesInv, AskedInv, Asked, Rows
<1>4. QED
  BY <1>1, <1>2, <1>3, TaskHeeds, MonitorHeeds, CancelHeeds, ShutdownHeeds, RestartHeeds DEF Next

\* A job that ends otherwise than cancelled had seen no request to cancel
\* but such as the monitor had since written over from an older snapshot,
\* and no job ends cancelled that nobody has asked to stop.
THEOREM CancellationsAreHeeded == Spec => []CancelHeeded
<1>1. HeedInv => CancelHeeded
  BY DEF HeedInv, ExcusesInv, AskedInv, AllExcused, Excused, Asking, Asked, CancelHeeded, IsEnding,
         Endings
<1>2. QED
  BY EndingInit, EndingStep, HeedInit, HeedStep, <1>1, PTL DEF Spec

-----------------------------------------------------------------------------
(* Types                                                                   *)

\* TypeOK without the log and what is read from it.
TaskTypes ==
  /\ task \in {"starting", "awaiting", "deciding", "ending", "joining",
               "done", "dead", "gone"}
  /\ taskCancel \in BOOLEAN
  /\ runner \in Outcomes \cup {"running", "gone"}
  /\ runnerCancel \in BOOLEAN

OtherTypes ==
  /\ linked \in Links
  /\ monitor \in {"sleeping", "deriving", "updating", "done", "gone"}
  /\ monitorCancel \in BOOLEAN
  /\ progress \in 0 .. MaxProgress
  /\ canceller \in {"idle", "inspecting", "requesting"}
  /\ requests \in 0 .. MaxRequests
  /\ server \in {"up", "stopping", "restarted"}

\* Every event has been given a time.
TimesInv ==
  /\ \A i \in Rows : log[i].stamp >= 1
  /\ \A a \in Actors : pending[a] # NoEvent => pending[a].stamp >= 1

JobTypes == TaskTypes /\ OtherTypes /\ TimesInv

\* The types that do not depend on the log are those of each step.
LEMMA TaskTypesStep == TaskTypes /\ [Next]_vars => TaskTypes'
<1> SUFFICES ASSUME TaskTypes, [Next]_vars
             PROVE  TaskTypes'
  OBVIOUS
<1> USE DEF TaskTypes, taskVars, runnerVars
<1>1. CASE TaskStep
  BY <1>1 DEF TaskStep, TaskStarts, TaskAbandoned, TaskGetsResult, TaskGetsFailure,
              TaskGetsCancelled, TaskDecides, TaskEnds, TaskInterrupted, TaskJoins, Finally
<1>2. CASE RunnerStep
  BY <1>2 DEF RunnerStep, RunnerEnds
<1>3. CASE MonitorStep
  BY <1>3 DEF MonitorStep, MonitorReads, MonitorSkips, MonitorUpdates, MonitorWrites, MonitorStops
<1>4. CASE CancelReads \/ CancelInspects
  BY <1>4 DEF CancelReads, CancelInspects
<1>5. CASE CancelWrites
  <2>1. (taskCancel \/ (~ linked /\ TaskInterruptible)) \in BOOLEAN
        /\ (runnerCancel \/ (runner = "running" /\ RunnerHeld)) \in BOOLEAN
    OBVIOUS
  <2>2. QED
    BY <1>5, <2>1, Zenon DEF CancelWrites
<1>6. CASE StoreStep
  BY <1>6 DEF StoreStep, Store
<1>7. CASE Shutdown
  <2>1. (taskCancel \/ TaskInterruptible) \in BOOLEAN
        /\ (runnerCancel \/ runner = "running") \in BOOLEAN
    OBVIOUS
  <2>2. QED
    BY <1>7, <2>1, Zenon DEF Shutdown
<1>8. CASE Restart
  BY <1>8 DEF Restart
<1>9. CASE UNCHANGED vars
  BY <1>9 DEF vars
<1>10. QED
  BY <1>1, <1>2, <1>3, <1>4, <1>5, <1>6, <1>7, <1>8, <1>9 DEF Next, CancelStep

LEMMA OtherTypesStep == OtherTypes /\ [Next]_vars => OtherTypes'
<1> SUFFICES ASSUME OtherTypes, [Next]_vars
             PROVE  OtherTypes'
  OBVIOUS
<1> USE JobAssumption DEF OtherTypes, monitorVars, cancelVars
<1>1. CASE TaskStep
  <2>1. (monitor # "done") \in BOOLEAN
    OBVIOUS
  <2>2. /\ UNCHANGED <<linked, monitor, progress, canceller, requests, server>>
        /\ monitorCancel' = monitorCancel \/ monitorCancel' = (monitor # "done")
    BY <1>1 DEF TaskStep, TaskStarts, TaskAbandoned, TaskGetsResult, TaskGetsFailure,
                TaskGetsCancelled, TaskDecides, TaskEnds, TaskInterrupted, TaskJoins, Finally
  <2>3. monitorCancel' \in BOOLEAN
    BY <2>1, <2>2, Zenon
  <2>4. QED
    BY <2>2, <2>3
<1>2. CASE RunnerStep
  BY <1>2 DEF RunnerStep, RunnerEnds
<1>3. CASE MonitorStep
  <2>1. CASE MonitorReads \/ MonitorSkips
    BY <2>1 DEF MonitorReads, MonitorSkips
  <2>2. CASE MonitorUpdates
    BY <2>2 DEF MonitorUpdates
  <2>3. CASE MonitorWrites \/ MonitorStops
    BY <2>3 DEF MonitorWrites, MonitorStops
  <2>4. QED
    BY <1>3, <2>1, <2>2, <2>3 DEF MonitorStep
<1>4. CASE CancelStep
  BY <1>4 DEF CancelStep, CancelReads, CancelInspects, CancelWrites
<1>5. CASE StoreStep
  BY <1>5 DEF StoreStep, Store
<1>6. CASE Shutdown
  <2>1. (monitorCancel \/ monitor # "done") \in BOOLEAN
    OBVIOUS
  <2>2. monitorCancel' \in BOOLEAN
    BY <1>6, <2>1, Zenon DEF Shutdown
  <2>3. QED
    BY <1>6, <2>2 DEF Shutdown
<1>7. CASE Restart
  BY <1>7 DEF Restart
<1>8. CASE UNCHANGED vars
  BY <1>8 DEF vars
<1>9. QED
  BY <1>1, <1>2, <1>3, <1>4, <1>5, <1>6, <1>7, <1>8 DEF Next

\* A step stores an event, gives a new one its time, or drops some.
LEMMA TimesStep == HeedInv /\ TimesInv /\ [Next]_vars => TimesInv'
<1> SUFFICES ASSUME HeedInv, TimesInv, [Next]_vars
             PROVE  TimesInv'
  OBVIOUS
<1> USE DEF TimesInv
<1>1. log \in Seq(Row) /\ clock \in Nat /\ pending \in [Actors -> Row]
  BY DEF HeedInv, RowTypes
<1>2. ASSUME NEW a \in Actors, Store(a)
      PROVE  TimesInv'
  <2>1. /\ log' = Append(log, pending[a]) /\ pending[a] # NoEvent
        /\ \A b \in Actors : pending'[b] = pending[b] \/ pending'[b] = NoEvent
    BY <1>1, <1>2 DEF Store
  <2>2. \A i \in Rows' : log'[i] = pending[a] \/ (i \in Rows /\ log'[i] = log[i])
    BY <1>1, <2>1 DEF Rows
  <2>3. QED
    BY <2>1, <2>2
<1>3. ASSUME UNCHANGED log,
             \A b \in Actors : \/ pending'[b] = pending[b] \/ pending'[b] = NoEvent
                               \/ pending'[b].stamp = clock + 1
      PROVE  TimesInv'
  BY <1>1, <1>3 DEF Rows
<1>4. \A a, s, n : a \in Actors /\ Create(a, s, n) =>
        UNCHANGED log /\ \A b \in Actors : pending'[b] = pending[b] \/ pending'[b].stamp = clock + 1
  BY <1>1 DEF Create
<1>5. \A a : a \in Actors /\ (Interrupted(a) \/ Stored(a)) =>
        UNCHANGED log /\ \A b \in Actors : pending'[b] = pending[b] \/ pending'[b] = NoEvent
  BY <1>1 DEF Interrupted, Stored
<1>6. "task" \in Actors /\ "monitor" \in Actors /\ "canceller" \in Actors
  BY DEF Actors
<1>7. CASE TaskStep
  <2>1. \/ UNCHANGED <<log, pending>> \/ Stored("task") \/ Interrupted("task")
        \/ \E s, n : Create("task", s, n)
    BY <1>7 DEF TaskStep, TaskStarts, TaskAbandoned, TaskGetsResult, TaskGetsFailure,
                TaskGetsCancelled, TaskDecides, TaskEnds, TaskInterrupted, TaskJoins
  <2>2. QED
    BY <1>3, <1>4, <1>5, <1>6, <2>1
<1>8. CASE MonitorStep
  <2>1. \/ UNCHANGED <<log, pending>> \/ Stored("monitor") \/ Interrupted("monitor")
        \/ \E s, n : Create("monitor", s, n)
    BY <1>8 DEF MonitorStep, MonitorReads, MonitorSkips, MonitorUpdates, MonitorWrites, MonitorStops
  <2>2. QED
    BY <1>3, <1>4, <1>5, <1>6, <2>1
<1>9. CASE CancelStep \/ Shutdown
  <2>1. \/ UNCHANGED <<log, pending>> \/ Stored("canceller") \/ Interrupted("canceller")
        \/ \E s, n : Create("canceller", s, n)
    BY <1>9 DEF CancelStep, CancelReads, CancelInspects, CancelWrites, Shutdown
  <2>2. QED
    BY <1>3, <1>4, <1>5, <1>6, <2>1
<1>10. CASE Restart
  BY <1>3, <1>10 DEF Restart
<1>11. CASE RunnerStep \/ UNCHANGED vars
  BY <1>3, <1>11 DEF RunnerStep, RunnerEnds, vars
<1>12. QED
  BY <1>2, <1>7, <1>8, <1>9, <1>10, <1>11 DEF Next, StoreStep

LEMMA JobTypesInit == Init => JobTypes
<1> SUFFICES ASSUME Init
             PROVE  JobTypes
  OBVIOUS
<1>1. TaskTypes
  BY DEF Init, TaskTypes
<1>2. OtherTypes
  <2>1. progress \in 0 .. MaxProgress /\ requests \in 0 .. MaxRequests
    BY JobAssumption DEF Init
  <2>2. QED
    BY <2>1, Zenon DEF Init, OtherTypes
<1>3. TimesInv
  BY DEF Init, TimesInv, Rows, Actors
<1>4. QED
  BY <1>1, <1>2, <1>3 DEF JobTypes

\* No more events are stored than times were given.
LEMMA RowsHaveTimes == HeedInv /\ TimesInv => Len(log) \in 1 .. clock
<1> SUFFICES ASSUME HeedInv, TimesInv
             PROVE  Len(log) \in 1 .. clock
  OBVIOUS
<1> DEFINE f == [i \in Rows |-> log[i].stamp]
<1>1. log \in Seq(Row) /\ clock \in Nat /\ Len(log) >= 1 /\ Len(log) \in Nat
  BY DEF HeedInv, RowTypes
<1>2. ASSUME NEW i \in Rows
      PROVE  log[i].stamp \in 1 .. clock
  <2>1. log[i] \in Row
    BY <1>1 DEF Rows
  <2>2. log[i].stamp \in Nat /\ log[i].stamp <= clock /\ log[i].stamp >= 1
    BY <2>1 DEF Row, HeedInv, StampsInv, TimesInv
  <2>3. QED
    BY <1>1, <2>2
<1>3. f \in Injection(Rows, 1 .. clock)
  <2>1. f \in [Rows -> 1 .. clock]
    BY <1>2
  <2>2. \A i, j \in Rows : f[i] = f[j] => i = j
    BY DEF HeedInv, StampsInv
  <2> HIDE DEF f
  <2>3. QED
    BY <2>1, <2>2 DEF Injection, IsInjective
<1>4. IsFiniteSet(1 .. clock) /\ Cardinality(1 .. clock) = clock /\ Cardinality(Rows) = Len(log)
  <2>1. \A n \in Nat : IsFiniteSet(1 .. n) /\ Cardinality(1 .. n) = n
    BY FS_Interval
  <2>2. QED
    BY <1>1, <2>1 DEF Rows
<1>5. Cardinality(Rows) <= Cardinality(1 .. clock)
  <2> HIDE DEF f
  <2>1. QED
    BY <1>3, <1>4, FS_Injection
<1>6. QED
  BY <1>1, <1>4, <1>5

\* Every state of the job, its tasks and its log is of its type: what is
\* stored or on its way had been read from rows that are there, and has a
\* time that had been given.
THEOREM JobIsTyped == Spec => []TypeOK
<1>1. EndingInv /\ HeedInv /\ JobTypes => TypeOK
  <2> SUFFICES ASSUME EndingInv, HeedInv, JobTypes
               PROVE  TypeOK
    OBVIOUS
  <2>1. Len(log) \in 1 .. clock /\ clock \in Nat /\ Len(log) \in Nat
    BY RowsHaveTimes DEF JobTypes, HeedInv, RowTypes
  <2>2. ASSUME NEW e \in Row, e.stamp >= 1, e.stamp <= clock, e.asOf <= Len(log)
        PROVE  e \in Event
    <3>1. /\ e = [stamp |-> e.stamp, status |-> e.status, asOf |-> e.asOf]
          /\ e.stamp \in Nat /\ e.status \in Statuses /\ e.asOf \in Nat
      BY DEF Row
    <3>2. e.stamp \in 1 .. clock /\ e.asOf \in 0 .. Len(log)
      BY <2>1, <2>2, <3>1
    <3>3. QED
      BY <3>1, <3>2 DEF Event
  <2>3. log \in Seq(Event)
    <3>1. log \in Seq(Row)
      BY DEF HeedInv, RowTypes
    <3>2. ASSUME NEW i \in 1 .. Len(log)
          PROVE  log[i] \in Event
      <4>1. log[i] \in Row /\ i \in Rows
        BY <3>1 DEF Rows
      <4>2. QED
        BY <2>2, <4>1 DEF HeedInv, StampsInv, RowTypes, JobTypes, TimesInv
    <3>3. QED
      BY <3>1, <3>2
  <2>4. pending \in [Actors -> Event \cup {NoEvent}]
    <3>1. pending \in [Actors -> Row]
      BY DEF HeedInv, RowTypes
    <3>2. ASSUME NEW a \in Actors, pending[a] # NoEvent
          PROVE  pending[a] \in Event
      BY <2>2, <3>1, <3>2 DEF HeedInv, StampsInv, RowTypes, JobTypes, TimesInv
    <3>3. QED
      BY <3>1, <3>2
  <2>5. monitorSaw \in [status : Statuses \ Endings, asOf : 0 .. Len(log)]
    <3>1. /\ monitorSaw \in [status : Statuses, asOf : Nat] /\ monitorSaw.asOf <= Len(log)
          /\ monitorSaw.status \notin Endings
      BY DEF HeedInv, RowTypes, EndingInv, PendingInv
    <3>2. QED
      BY <2>1, <3>1
  <2>6. cancelSaw \in 0 .. Len(log)
    BY DEF HeedInv, RowTypes
  <2>7. QED
    BY <2>1, <2>3, <2>4, <2>5, <2>6 DEF TypeOK, JobTypes, TaskTypes, OtherTypes
<1>2. HeedInv /\ JobTypes /\ [Next]_vars => JobTypes'
  BY TaskTypesStep, OtherTypesStep, TimesStep DEF JobTypes
<1>3. QED
  BY EndingInit, EndingStep, HeedInit, HeedStep, JobTypesInit, <1>1, <1>2, PTL DEF Spec

=============================================================================
