---------------------------- MODULE JobManager ----------------------------
(***************************************************************************)
(* A background job of the MCP server: ouroboros/mcp/job_manager.py,       *)
(* JobManager.  The state of a job is the log of its events in the event   *)
(* store; the job's task, the runner it awaits, the monitor that mirrors   *)
(* progress and a call of cancel_job read that log and append to it.  An     *)
(* action is the code between two awaits.                                  *)
(*                                                                         *)
(* An event is created, with its timestamp, before the await that stores   *)
(* it, and the store replays by timestamp: the position in log is the row  *)
(* number, and stamp decides the order of replay.  asOf is the number of   *)
(* rows the writer had read when it chose the status; the code keeps no    *)
(* such field, the properties do.                                          *)
(***************************************************************************)
EXTENDS Naturals, Sequences, FiniteSets

CONSTANTS
  Links,       \* the kinds of job: TRUE for one linked to a session
  MaxProgress, \* bound: updates the monitor writes
  MaxRequests  \* bound: calls of cancel_job that find the job unfinished

ASSUME JobAssumption == /\ Links \subseteq BOOLEAN
                        /\ MaxProgress \in Nat
                        /\ MaxRequests \in Nat

Actors == {"task", "monitor", "canceller"}
Endings == {"completed", "failed", "cancelled", "interrupted"}
Statuses == Endings \cup {"queued", "running", "cancel_requested"}

\* What the runner's coroutine can come to; the first three are results.
Results == {"ok", "error", "interrupted"}
Outcomes == Results \cup {"raised", "cancelled"}

NoSnapshot == [status |-> "queued", asOf |-> 0]
NoEvent == [stamp |-> 0, status |-> "queued", asOf |-> 0]

VARIABLES
  linked,        \* the job carries a session id
  log,           \* the stored events, in row order
  clock,         \* the last timestamp given
  pending,       \* actor |-> the event it is storing, or NoEvent
  task,          \* where _run_job stands
  taskCancel,    \* a CancelledError waits for the task
  runner,        \* "running" or its outcome
  runnerCancel,
  monitor,       \* where _monitor_job stands
  monitorSaw,    \* the snapshot it works from
  monitorCancel,
  progress,      \* updates written by the monitor
  canceller,     \* where cancel_job stands
  cancelSaw,     \* rows it had read
  requests,      \* calls made
  server         \* "up", "stopping", "restarted"

taskVars == <<task, taskCancel>>
runnerVars == <<runner, runnerCancel>>
monitorVars == <<monitor, monitorSaw, monitorCancel, progress>>
cancelVars == <<canceller, cancelSaw, requests>>
vars == <<linked, log, clock, pending, taskVars, runnerVars, monitorVars,
          cancelVars, server>>

Event == [stamp : 1 .. clock, status : Statuses, asOf : 0 .. Len(log)]

TypeOK ==
  /\ linked \in Links
  /\ clock \in Nat
  /\ log \in Seq(Event) /\ Len(log) \in 1 .. clock
  /\ pending \in [Actors -> Event \cup {NoEvent}]
  /\ task \in {"starting", "awaiting", "deciding", "ending", "joining",
               "done", "dead", "gone"}
  /\ taskCancel \in BOOLEAN
  /\ runner \in Outcomes \cup {"running", "gone"}
  /\ runnerCancel \in BOOLEAN
  /\ monitor \in {"sleeping", "deriving", "updating", "done", "gone"}
  /\ monitorSaw \in [status : Statuses \ Endings, asOf : 0 .. Len(log)]
  /\ monitorCancel \in BOOLEAN
  /\ progress \in 0 .. MaxProgress
  /\ canceller \in {"idle", "inspecting", "requesting"}
  /\ cancelSaw \in 0 .. Len(log)
  /\ requests \in 0 .. MaxRequests
  /\ server \in {"up", "stopping", "restarted"}

\* start_job has stored the first event and made the three tasks, and the
\* task has created its first update.
Init ==
  /\ linked \in Links
  /\ log = <<[stamp |-> 1, status |-> "queued", asOf |-> 0]>>
  /\ clock = 2
  /\ pending = [a \in Actors |->
                  IF a = "task" THEN [stamp |-> 2, status |-> "running", asOf |-> 0]
                  ELSE NoEvent]
  /\ task = "starting" /\ taskCancel = FALSE
  /\ runner = "running" /\ runnerCancel = FALSE
  /\ monitor = "sleeping" /\ monitorCancel = FALSE
  /\ monitorSaw = NoSnapshot
  /\ progress = 0
  /\ canceller = "idle" /\ cancelSaw = 0 /\ requests = 0
  /\ server = "up"

-----------------------------------------------------------------------------
(* The event log                                                           *)

\* The row the replay of the first n rows ends with.
Latest(n) == CHOOSE i \in 1 .. n : \A j \in 1 .. n : log[j].stamp <= log[i].stamp

\* The status get_snapshot finds in the first n rows.
StatusAt(n) == log[Latest(n)].status
Status == StatusAt(Len(log))

Create(actor, status, asOf) ==
  /\ clock' = clock + 1
  /\ pending' = [pending EXCEPT ![actor] =
                   [stamp |-> clock + 1, status |-> status, asOf |-> asOf]]
  /\ UNCHANGED log

\* The store commits the row; every reader finds it from here on, and the
\* writer resumes some time later.
Store(actor) ==
  /\ pending[actor] # NoEvent
  /\ log' = Append(log, pending[actor])
  /\ pending' = [pending EXCEPT ![actor] = NoEvent]
  /\ UNCHANGED <<linked, clock, taskVars, runnerVars, monitorVars, cancelVars, server>>

Stored(actor) == pending[actor] = NoEvent /\ UNCHANGED <<log, clock, pending>>

\* A CancelledError that arrives before the row is committed undoes it.
Interrupted(actor) ==
  /\ pending' = [pending EXCEPT ![actor] = NoEvent]
  /\ UNCHANGED <<log, clock>>

-----------------------------------------------------------------------------
(* The job's task and its runner                                           *)

TaskStarts ==
  /\ task = "starting" /\ ~ taskCancel
  /\ Stored("task")
  /\ task' = "awaiting"
  /\ UNCHANGED <<linked, taskCancel, runnerVars, monitorVars, cancelVars, server>>

\* The first update is outside the try: cancelled there, the task neither
\* records an ending nor releases its runner and its monitor.
TaskAbandoned ==
  /\ task = "starting" /\ taskCancel
  /\ Interrupted("task")
  /\ task' = "dead" /\ taskCancel' = FALSE
  /\ UNCHANGED <<linked, runnerVars, monitorVars, cancelVars, server>>

RunnerEnds(outcome) ==
  /\ runner = "running"
  /\ outcome = "cancelled" => runnerCancel
  /\ runner' = outcome /\ runnerCancel' = FALSE
  /\ UNCHANGED <<linked, log, clock, pending, taskVars, monitorVars, cancelVars,
                 server>>

TaskGetsResult ==
  /\ task = "awaiting" /\ ~ taskCancel
  /\ runner \in Results
  /\ task' = "deciding"
  /\ UNCHANGED <<linked, log, clock, pending, taskCancel, runnerVars, monitorVars,
                 cancelVars, server>>

TaskGetsFailure ==
  /\ task = "awaiting" /\ ~ taskCancel
  /\ runner = "raised"
  /\ Create("task", "failed", 0)
  /\ task' = "ending"
  /\ UNCHANGED <<linked, taskCancel, runnerVars, monitorVars, cancelVars, server>>

\* The runner was cancelled, or had ended when the task was.  A task that
\* is cancelled while its runner runs passes the cancellation on to it, so
\* the runner has always ended here.
TaskGetsCancelled ==
  /\ task = "awaiting"
  /\ taskCancel \/ runner = "cancelled"
  /\ Create("task", "cancelled", 0)
  /\ task' = "ending" /\ taskCancel' = FALSE
  /\ UNCHANGED <<linked, runnerVars, monitorVars, cancelVars, server>>

\* Mutant: an error result is not told from a good one.
ErrorUnseen(status, result) ==
  CASE status = "cancel_requested" -> "cancelled"
    [] status # "cancel_requested" /\ result = "interrupted" -> "interrupted"
    [] OTHER -> "completed"

\* Mutant: the request is not looked for.
RequestUnseen(status, result) ==
  CASE result = "interrupted" -> "interrupted"
    [] result = "error" -> "failed"
    [] OTHER -> "completed"

\* The status of the ending, from the snapshot's status and the result.
Ending(status, result) ==
  IF status = "cancel_requested" THEN "cancelled"
  ELSE CASE result = "interrupted" -> "interrupted"
         [] result = "error" -> "failed"
         [] OTHER -> "completed"

TaskDecides ==
  /\ task = "deciding" /\ ~ taskCancel
  /\ Create("task", Ending(Status, runner), Len(log))
  /\ task' = "ending"
  /\ UNCHANGED <<linked, taskCancel, runnerVars, monitorVars, cancelVars, server>>

\* Mutant: the finally clause leaves the monitor to itself.
MonitorForgotten ==
  /\ task' = "joining" /\ taskCancel' = FALSE
  /\ UNCHANGED monitorCancel
  /\ UNCHANGED <<linked, runnerVars, monitor, monitorSaw, progress, cancelVars,
                 server>>

\* The finally clause, up to its await of the monitor.
Finally ==
  /\ task' = "joining" /\ taskCancel' = FALSE
  /\ monitorCancel' = (monitor # "done")
  /\ UNCHANGED <<linked, runnerVars, monitor, monitorSaw, progress, cancelVars,
                 server>>

TaskEnds == task = "ending" /\ ~ taskCancel /\ Stored("task") /\ Finally

\* Cancelled while it stores its ending, or while it reads the log to choose
\* one: then no ending is ever stored.
TaskInterrupted ==
  /\ taskCancel
  /\ task \in {"deciding", "ending"}
  /\ Interrupted("task")
  /\ Finally

TaskJoins ==
  /\ task = "joining" /\ monitor = "done"
  /\ task' = "done"
  /\ UNCHANGED <<linked, log, clock, pending, taskCancel, runnerVars, monitorVars,
                 cancelVars, server>>

-----------------------------------------------------------------------------
(* The monitor                                                             *)

\* Mutant: the monitor does not stop at an ending.
MonitorReadsOn ==
  /\ monitor = "sleeping" /\ ~ monitorCancel
  /\ monitor' = "deriving"
  /\ monitorSaw' = [status |-> Status, asOf |-> Len(log)]
  /\ UNCHANGED <<linked, log, clock, pending, taskVars, runnerVars, monitorCancel,
                 progress, cancelVars, server>>

MonitorReads ==
  /\ monitor = "sleeping" /\ ~ monitorCancel
  /\ IF Status \in Endings
     THEN monitor' = "done" /\ UNCHANGED monitorSaw
     ELSE /\ monitor' = "deriving"
          /\ monitorSaw' = [status |-> Status, asOf |-> Len(log)]
  /\ UNCHANGED <<linked, log, clock, pending, taskVars, runnerVars, monitorCancel,
                 progress, cancelVars, server>>

\* The message derived is the one written last, or there is none.
MonitorSkips ==
  /\ monitor = "deriving" /\ ~ monitorCancel
  /\ monitor' = "sleeping" /\ monitorSaw' = NoSnapshot
  /\ UNCHANGED <<linked, log, clock, pending, taskVars, runnerVars, monitorCancel,
                 progress, cancelVars, server>>

\* A new message is written with the status of the snapshot read before it
\* was derived.
MonitorUpdates ==
  /\ monitor = "deriving" /\ ~ monitorCancel
  /\ progress < MaxProgress
  /\ Create("monitor", monitorSaw.status, monitorSaw.asOf)
  /\ monitor' = "updating" /\ monitorSaw' = NoSnapshot /\ progress' = progress + 1
  /\ UNCHANGED <<linked, taskVars, runnerVars, monitorCancel, cancelVars, server>>

MonitorWrites ==
  /\ monitor = "updating" /\ ~ monitorCancel
  /\ Stored("monitor")
  /\ monitor' = "sleeping"
  /\ UNCHANGED <<linked, taskVars, runnerVars, monitorSaw, monitorCancel, progress,
                 cancelVars, server>>

MonitorStops ==
  /\ monitorCancel
  /\ Interrupted("monitor")
  /\ monitor' = "done" /\ monitorSaw' = NoSnapshot /\ monitorCancel' = FALSE
  /\ UNCHANGED <<linked, taskVars, runnerVars, progress, cancelVars, server>>

-----------------------------------------------------------------------------
(* cancel_job                                                              *)

\* An unfinished job is asked to stop; a linked session is looked at first.
CancelReads ==
  /\ canceller = "idle" /\ server # "stopping"
  /\ requests < MaxRequests
  /\ Status \notin Endings
  /\ requests' = requests + 1
  /\ IF linked
     THEN /\ canceller' = "inspecting" /\ cancelSaw' = Len(log)
          /\ UNCHANGED <<log, clock, pending>>
     ELSE /\ canceller' = "requesting" /\ UNCHANGED cancelSaw
          /\ Create("canceller", "cancel_requested", Len(log))
  /\ UNCHANGED <<linked, taskVars, runnerVars, monitorVars, server>>

CancelInspects ==
  /\ canceller = "inspecting"
  /\ canceller' = "requesting"
  /\ Create("canceller", "cancel_requested", cancelSaw)
  /\ cancelSaw' = 0
  /\ UNCHANGED <<linked, taskVars, runnerVars, monitorVars, requests, server>>

\* task.cancel(): a task that awaits a running runner passes it on.
TaskInterruptible ==
  \/ task \in {"starting", "deciding", "ending"}
  \/ task = "awaiting" /\ runner # "running"

\* The job manager has dropped the runner once the finally clause has run.
RunnerHeld == task \in {"starting", "awaiting", "deciding", "ending", "dead"}

\* The request is stored, and the tasks found are cancelled: the job's own
\* only when it has no session.
CancelWrites ==
  /\ canceller = "requesting"
  /\ Stored("canceller")
  /\ canceller' = "idle"
  /\ taskCancel' = (taskCancel \/ (~ linked /\ TaskInterruptible))
  /\ runnerCancel' = (runnerCancel \/ (runner = "running" /\ RunnerHeld))
  /\ UNCHANGED <<linked, task, runner, monitorVars, cancelSaw, requests, server>>

-----------------------------------------------------------------------------
(* The server                                                              *)

\* asyncio.run ends and cancels every task it still has.
Shutdown ==
  /\ server = "up"
  /\ server' = "stopping"
  /\ taskCancel' = (taskCancel \/ TaskInterruptible)
  /\ runnerCancel' = (runnerCancel \/ runner = "running")
  /\ monitorCancel' = (monitorCancel \/ monitor # "done")
  /\ Interrupted("canceller")
  /\ canceller' = "idle" /\ cancelSaw' = 0
  /\ UNCHANGED <<linked, task, runner, monitor, monitorSaw, progress, requests>>

\* The process dies and a new one serves the same event store.  Nothing is
\* resumed: the job has no task, runner or monitor any more.
Restart ==
  /\ server # "restarted"
  /\ server' = "restarted"
  /\ task' = "gone" /\ runner' = "gone" /\ monitor' = "gone"
  /\ taskCancel' = FALSE /\ runnerCancel' = FALSE /\ monitorCancel' = FALSE
  /\ pending' = [a \in Actors |-> NoEvent]
  /\ monitorSaw' = NoSnapshot
  /\ canceller' = "idle" /\ cancelSaw' = 0
  /\ UNCHANGED <<linked, log, clock, progress, requests>>

TaskStep == TaskStarts \/ TaskAbandoned \/ TaskGetsResult \/ TaskGetsFailure
            \/ TaskGetsCancelled \/ TaskDecides \/ TaskEnds \/ TaskInterrupted \/ TaskJoins
RunnerStep == \E outcome \in Outcomes : RunnerEnds(outcome)
MonitorStep == MonitorReads \/ MonitorSkips \/ MonitorUpdates \/ MonitorWrites \/ MonitorStops
StoreStep == \E actor \in Actors : Store(actor)
CancelStep == CancelReads \/ CancelInspects \/ CancelWrites

Next == TaskStep \/ RunnerStep \/ MonitorStep \/ CancelStep \/ StoreStep \/ Shutdown \/ Restart

Spec == Init /\ [][Next]_vars

\* The event loop runs every coroutine that is ready, and the runner ends.
Fairness == WF_vars(StoreStep) /\ WF_vars(TaskStep) /\ WF_vars(RunnerStep) /\ WF_vars(MonitorStep)

FairSpec == Spec /\ Fairness

-----------------------------------------------------------------------------
(* Properties                                                              *)

Rows == 1 .. Len(log)
IsEnding(i) == log[i].status \in Endings
EndingOf == [ok |-> {"completed", "cancelled"}, error |-> {"failed", "cancelled"},
             interrupted |-> {"interrupted", "cancelled"},
             raised |-> {"failed", "cancelled"}, cancelled |-> {"cancelled"}]

\* At most one ending is ever stored, though a stale update can be stored
\* after it, and it is the one the runner came to or a cancellation.
OneTrueEnding ==
  /\ \A i, j \in Rows : IsEnding(i) /\ IsEnding(j) => i = j
  /\ \A i \in Rows : IsEnding(i) /\ runner # "gone" =>
       runner \in Outcomes /\ log[i].status \in EndingOf[runner]

\* A job whose runner returned after a cancellation was stored ends
\* cancelled, unless the monitor has written, later in time, the status of
\* a snapshot it had read before the request; and no job ends cancelled
\* that nobody has asked to stop.
CancelHeeded ==
  \A e \in Rows : IsEnding(e) =>
    IF log[e].status = "cancelled"
    THEN server # "up" \/ requests > 0
    ELSE \A r \in 1 .. log[e].asOf : log[r].status = "cancel_requested" =>
           \E m \in 1 .. log[e].asOf : /\ log[m].status \in {"queued", "running"}
                                       /\ log[m].stamp > log[r].stamp
                                       /\ log[m].asOf < r

\* Once the runner has ended the task does, and its monitor with it; a task
\* cancelled before its first update was stored is the exception.
JobSettles ==
  <>[](/\ task \in {"done", "dead", "gone"}
       /\ runner # "running"
       /\ task = "done" => monitor = "done")

=============================================================================
