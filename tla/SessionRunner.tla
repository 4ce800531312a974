--------------------------- MODULE SessionRunner ---------------------------
(***************************************************************************)
(* A session and those who write its ending: ouroboros/orchestrator/       *)
(* runner.py (OrchestratorRunner), session.py (SessionRepository) and      *)
(* heartbeat.py; the execute_seed handler that awaits the runner in a      *)
(* background job of the MCP server; cancel_job for a job linked to the    *)
(* session; `ouroboros cancel` in another process; and the clean-up of     *)
(* orphans when a server starts.                                           *)
(*                                                                         *)
(* They meet in the event store, where the last status event of a session  *)
(* counts, in the registry of cancellations, which lives in the server,    *)
(* and in the lock file that names the process at work.  An action is the  *)
(* code between two awaits: a value of run names the await reached.        *)
(***************************************************************************)
EXTENDS Naturals, FiniteSets

CONSTANTS
  Modes,       \* the ways the session may be run
  MaxCalls,    \* bound: calls of cancel_job
  MaxFaults,   \* bound: exceptions from the agent or the store
  MaxRestarts  \* bound: ends of the server process

ASSUME SessionAssumption ==
  /\ Modes \subseteq {"parallel", "sequential", "resume"}
  /\ MaxCalls \in Nat /\ MaxFaults \in Nat /\ MaxRestarts \in Nat

Terminal == {"completed", "failed", "cancelled"}
Statuses == Terminal \cup {"none", "running", "paused"}

VARIABLES
  status,    \* what reconstruct_session finds; "none" before the session
  ends,      \* the terminal events of the session
  told,      \* the statuses of the execution.terminal events
  flag,      \* the session is in the cancellation registry
  lock,      \* the lock file: "none", "server", "dead"
  mode,      \* how the session is run
  run,       \* where the handler and the runner stand
  verdict,   \* the ending it is about to write
  guarded,   \* an exception would reach the runner's handlers
  doomed,    \* a CancelledError waits for the task
  recovered, \* a first stream has failed and a second one was begun
  job,       \* the job of the run is open
  lost,      \* so is the job of a former server
  canceller, \* where cancel_job stands
  saw,       \* what it has found out
  calls,
  outsider,  \* where `ouroboros cancel` stands
  cleaner,   \* where the clean-up of orphans stands
  faults,
  stopping,  \* the event loop of the server is being stopped
  restarts

events == <<status, ends, told>>
server == <<stopping, restarts>>
runVars == <<mode, run, verdict, guarded, doomed, recovered>>
cancelVars == <<canceller, saw, calls>>
vars == <<events, flag, lock, runVars, job, lost, cancelVars, outsider, cleaner,
          faults, server>>

Unregistered == {"queued", "prepared", "reporting", "gone"}
Registered == {"starting", "working", "ended", "recorded", "marked", "announced",
               "handling", "telling"}
NothingSeen == [known |-> FALSE, terminal |-> FALSE, started |-> FALSE, own |-> FALSE]

TypeOK ==
  /\ status \in Statuses /\ ends \subseteq Terminal
  /\ told \subseteq Terminal \cup {"paused"}
  /\ flag \in BOOLEAN
  /\ lock \in {"none", "server", "dead"}
  /\ mode \in Modes
  /\ run \in Unregistered \cup Registered
  /\ verdict \in Terminal \cup {"paused", "open"}
  /\ guarded \in BOOLEAN /\ doomed \in BOOLEAN /\ recovered \in BOOLEAN
  /\ job \in BOOLEAN /\ lost \in BOOLEAN
  /\ canceller \in {"idle", "looking", "requesting", "waiting", "marking", "telling"}
  /\ saw \in [known : BOOLEAN, terminal : BOOLEAN, started : BOOLEAN, own : BOOLEAN]
  /\ calls \in 0 .. MaxCalls
  /\ outsider \in {"idle", "marking", "done"}
  /\ cleaner \in {"idle", "scanning", "reading", "marking"}
  /\ faults \in 0 .. MaxFaults
  /\ stopping \in BOOLEAN
  /\ restarts \in 0 .. MaxRestarts

\* A new session, or one that an earlier server has left or paused.
Init ==
  /\ mode \in Modes
  /\ \/ mode # "resume" /\ status = "none" /\ lock = "none" /\ lost = FALSE
     \/ mode = "resume" /\ status = "paused" /\ lock = "none" /\ lost = FALSE
     \/ mode = "resume" /\ status = "running" /\ lock \in {"none", "dead"} /\ lost = TRUE
  /\ ends = {} /\ told = {}
  /\ flag = FALSE
  /\ run = "queued" /\ verdict = "open" /\ guarded = TRUE /\ doomed = FALSE
  /\ recovered = FALSE
  /\ job = TRUE
  /\ canceller = "idle" /\ saw = NothingSeen /\ calls = 0
  /\ outsider = "idle" /\ cleaner = "idle"
  /\ faults = 0 /\ stopping = FALSE /\ restarts = 0

-----------------------------------------------------------------------------
(* The runner                                                              *)

Others == UNCHANGED <<job, lost, cancelVars, outsider, cleaner, server>>
NoFault == UNCHANGED faults
Quiet == UNCHANGED events
Untracked == UNCHANGED <<flag, lock>>

Release == lock' = IF lock = "server" THEN "none" ELSE lock

\* The await reached next; what the coroutine keeps ends with it.
GoWith(place, v, inTry) ==
  /\ run' = place
  /\ verdict' = IF place = "gone" THEN "open" ELSE v
  /\ guarded' = IF place = "gone" THEN TRUE ELSE inTry
  /\ UNCHANGED <<mode, recovered>>
Go(place) == GoWith(place, verdict, guarded) /\ UNCHANGED doomed

Append(s) == /\ status' = s
             /\ ends' = IF s \in Terminal THEN ends \cup {s} ELSE ends
             /\ UNCHANGED told

\* The repository's mark_*: an error of the store is returned, not raised.
Marked(s) == \/ Append(s) /\ NoFault
             \/ faults < MaxFaults /\ faults' = faults + 1 /\ Quiet

Tell(s) == told' = told \cup {s} /\ UNCHANGED <<status, ends>>

\* _check_cancellation.
Requested == flag \/ "cancelled" \in ends

\* _handle_cancellation up to its first await.
Handle(inTry) ==
  /\ flag' = FALSE /\ Release
  /\ GoWith("handling", verdict, inTry)
  /\ Quiet

\* The handler prepares a new session, or finds that the one to resume has
\* ended.
Prepare ==
  /\ run = "queued"
  /\ IF mode # "resume" THEN Append("running") /\ Go("prepared")
     ELSE Quiet /\ Go(IF status \in Terminal THEN "gone" ELSE "prepared")
  /\ Untracked /\ NoFault /\ Others

Register ==
  /\ run = "prepared"
  /\ IF mode = "resume" /\ status \in Terminal
     THEN Go("reporting") /\ Untracked /\ Quiet
     ELSE IF mode # "resume" /\ flag THEN Handle(TRUE) /\ UNCHANGED doomed
     ELSE lock' = "server" /\ Go("starting") /\ UNCHANGED flag /\ Quiet
  /\ NoFault /\ Others

\* The check at the start, and in the parallel mode the one before the
\* execution.
StartUp ==
  /\ run = "starting"
  /\ IF mode # "resume" /\ Requested THEN Handle(TRUE) /\ UNCHANGED doomed
     ELSE Go("working") /\ Untracked /\ Quiet
  /\ NoFault /\ Others

\* A progress event that carries the agent's own status.
Report ==
  /\ run = "working" /\ status # "running"
  /\ Append("running")
  /\ UNCHANGED runVars /\ Untracked /\ NoFault /\ Others

\* The first stream of messages has ended with an error, which its progress
\* event may already have made the status, and a second one is begun.
Recover ==
  /\ run = "working" /\ mode = "sequential" /\ ~ recovered
  /\ recovered' = TRUE
  /\ status' \in {status, "failed"} /\ UNCHANGED <<ends, told>>
  /\ UNCHANGED <<mode, run, verdict, guarded, doomed>>
  /\ Untracked /\ NoFault /\ Others

\* The check at every CANCELLATION_CHECK_INTERVAL-th message.
Checkpoint ==
  /\ run = "working" /\ mode # "parallel" /\ Requested
  /\ Handle(TRUE) /\ UNCHANGED doomed
  /\ NoFault /\ Others

\* The agent's last message; its progress event may already read as an end.
Finish(v) ==
  /\ run = "working"
  /\ v = "paused" => mode = "resume"
  /\ \/ status' = status
     \/ v # "paused" /\ status' = v
  /\ UNCHANGED <<ends, told>>
  /\ GoWith("ended", v, guarded) /\ UNCHANGED doomed
  /\ Untracked /\ NoFault /\ Others

\* After the parallel execution the cancellation is checked once more.
CheckEnd ==
  /\ run = "ended" /\ mode = "parallel" /\ guarded /\ Requested
  /\ Handle(TRUE) /\ UNCHANGED doomed
  /\ NoFault /\ Others

\* The session's ending: an event, in a new session written once more by
\* the repository.
RecordEnd ==
  /\ run = "ended"
  /\ ~ (mode = "parallel" /\ guarded /\ Requested)
  /\ IF mode = "resume" THEN Marked(verdict) /\ Go("marked")
     ELSE Append(verdict) /\ NoFault /\ Go("recorded")
  /\ Untracked /\ Others

MarkEnd ==
  /\ run = "recorded"
  /\ Marked(verdict)
  /\ Go("marked")
  /\ Untracked /\ Others

Announce ==
  /\ run = "marked"
  /\ Tell(verdict)
  /\ Go("announced")
  /\ Untracked /\ NoFault /\ Others

\* The runner returns; an error makes the handler mark the session failed.
Leave ==
  /\ run = "announced"
  /\ Release
  /\ flag' = IF guarded /\ mode # "sequential" THEN FALSE ELSE flag
  /\ Go(IF guarded THEN "gone" ELSE "reporting")
  /\ Quiet /\ NoFault /\ Others

\* _handle_cancellation goes on: an ending is only mirrored, and only once.
HandleEnded ==
  /\ run = "handling" /\ status \in Terminal
  /\ GoWith(IF told = {} THEN "telling" ELSE "gone", status, guarded)
  /\ UNCHANGED doomed /\ Quiet /\ Untracked /\ NoFault /\ Others

\* Mutant: it is announced with the verdict as it stands.
VerdictUnset ==
  /\ run = "handling" /\ status \notin Terminal
  /\ Marked("cancelled")
  /\ Go("telling") /\ Untracked /\ Others

HandleOpen ==
  /\ run = "handling" /\ status \notin Terminal
  /\ Marked("cancelled")
  /\ GoWith("telling", "cancelled", guarded) /\ UNCHANGED doomed
  /\ Untracked /\ Others

HandleTells ==
  /\ run = "telling"
  /\ Tell(verdict)
  /\ Go("gone")
  /\ Untracked /\ NoFault /\ Others

\* An exception.  The parallel execution and the start have handlers that
\* only clean up; those of the message loop record the failure, and the one
\* of a resumed session only announces it.
Raise ==
  /\ \/ run \in {"starting", "working", "marked", "telling"}
     \/ run = "ended" /\ mode # "resume"
  /\ faults < MaxFaults /\ faults' = faults + 1
  /\ Release /\ UNCHANGED flag /\ Quiet
  /\ UNCHANGED doomed
  /\ IF ~ guarded \/ run = "starting" \/ mode = "parallel"
     THEN GoWith("reporting", verdict, FALSE)
     ELSE GoWith(IF mode = "resume" THEN "marked" ELSE "ended", "failed", FALSE)
  /\ Others

HandlerReports ==
  /\ run = "reporting"
  /\ Marked("failed")
  /\ Go("gone")
  /\ Untracked /\ Others

\* Mutant: the lock is left behind.
LockKept ==
  /\ doomed /\ run # "gone"
  /\ doomed' = FALSE
  /\ IF run \notin Unregistered /\ guarded /\ mode # "resume" /\ flag
     THEN Handle(FALSE)
     ELSE GoWith("gone", "open", TRUE) /\ Untracked /\ Quiet
  /\ NoFault /\ Others

\* Mutant: the registry is not asked why.
ReasonUnasked ==
  /\ doomed /\ run # "gone"
  /\ doomed' = FALSE /\ UNCHANGED flag /\ Quiet
  /\ GoWith("gone", "open", TRUE)
  /\ IF run \in Unregistered \/ ~ guarded \/ mode = "resume" THEN UNCHANGED lock ELSE Release
  /\ NoFault /\ Others

\* The CancelledError arrives at the await reached.  Before the runner's
\* handlers, inside one of them, and in a resumed session nothing catches
\* it; otherwise the registry tells whether it is a request to cancel.
Interrupted ==
  /\ doomed /\ run # "gone"
  /\ doomed' = FALSE
  /\ IF run \in Unregistered \/ ~ guarded \/ mode = "resume"
     THEN GoWith("gone", "open", TRUE) /\ Untracked /\ Quiet
     ELSE IF flag THEN Handle(FALSE)
     ELSE Release /\ UNCHANGED flag /\ GoWith("gone", "open", TRUE) /\ Quiet
  /\ NoFault /\ Others

RunStep ==
  IF doomed THEN Interrupted
  ELSE \/ Prepare \/ Register \/ StartUp \/ Report \/ Recover \/ Checkpoint
       \/ \E v \in {"completed", "failed", "paused"} : Finish(v)
       \/ CheckEnd \/ RecordEnd \/ MarkEnd \/ Announce \/ Leave
       \/ HandleEnded \/ HandleOpen \/ HandleTells \/ Raise \/ HandlerReports

JobEnds ==
  /\ job /\ run = "gone"
  /\ job' = FALSE
  /\ UNCHANGED <<events, flag, lock, runVars, lost, cancelVars, outsider, cleaner,
                 faults, server>>

-----------------------------------------------------------------------------
(* cancel_job                                                              *)

\* is_holder_alive removes the lock of a dead process.
HolderAlive == lock = "server"
RemoveStale == lock' = IF lock = "dead" THEN "none" ELSE lock

Elsewhere == UNCHANGED <<runVars, job, lost, outsider, cleaner, faults, server>>

\* The job of the run, or of a former server, is open; its session is
\* reconstructed, and a terminal event looked for among its last ten.
Ask(own) ==
  /\ canceller = "idle" /\ calls < MaxCalls
  /\ IF own THEN job ELSE lost
  /\ canceller' = "looking" /\ calls' = calls + 1
  /\ \E recent \in BOOLEAN :
       saw' = [NothingSeen EXCEPT !.own = own, !.known = status # "none",
                                  !.terminal = status \in Terminal \/ (recent /\ ends # {})]
  /\ Quiet /\ Untracked /\ Elsewhere

Look ==
  /\ canceller = "looking"
  /\ saw' = [saw EXCEPT !.started = HolderAlive]
  /\ RemoveStale
  /\ canceller' = "requesting"
  /\ UNCHANGED <<flag, calls>> /\ Quiet /\ Elsewhere

Request ==
  /\ canceller = "requesting"
  /\ flag' = (flag \/ ~ saw.terminal)
  /\ doomed' = (doomed \/ (saw.own /\ run # "gone"))
  /\ canceller' = "waiting"
  /\ UNCHANGED <<lock, saw, calls, mode, run, verdict, guarded, recovered, job, lost,
                 outsider, cleaner, faults, server>> /\ Quiet

\* The session was open and not yet at work in this process.
MustPersist == saw.known /\ ~ saw.terminal /\ ~ saw.started

\* The last statement: a request for a session that no process works on is
\* taken back.
Withdraw ==
  /\ canceller' = "idle" /\ saw' = NothingSeen
  /\ IF saw.started THEN UNCHANGED <<flag, lock>>
     ELSE flag' = (flag /\ HolderAlive) /\ RemoveStale

\* Mutant: the session is not read again.
NotRechecked ==
  /\ canceller = "waiting"
  /\ IF MustPersist
     THEN canceller' = "marking" /\ UNCHANGED <<flag, lock, saw>>
     ELSE Withdraw
  /\ UNCHANGED calls /\ Quiet /\ Elsewhere

\* The task has ended, or five seconds have passed.
Recheck ==
  /\ canceller = "waiting"
  /\ IF MustPersist /\ status \notin Terminal
     THEN canceller' = "marking" /\ UNCHANGED <<flag, lock, saw>>
     ELSE Withdraw
  /\ UNCHANGED calls /\ Quiet /\ Elsewhere

\* When the mark fails the call raises, and takes nothing back.
Persist ==
  /\ canceller = "marking"
  /\ \/ Append("cancelled") /\ canceller' = "telling" /\ UNCHANGED <<saw, faults>>
     \/ /\ faults < MaxFaults /\ faults' = faults + 1
        /\ canceller' = "idle" /\ saw' = NothingSeen /\ Quiet
  /\ UNCHANGED calls /\ Untracked
  /\ UNCHANGED <<runVars, job, lost, outsider, cleaner, server>>

CancelTells ==
  /\ canceller = "telling"
  /\ Tell("cancelled")
  /\ Withdraw
  /\ UNCHANGED calls /\ Elsewhere

CancelStep == Look \/ Request \/ Recheck \/ Persist \/ CancelTells

-----------------------------------------------------------------------------
(* Another process, and the life of the server                             *)

\* `ouroboros cancel` reads the status and then writes.
OutsideRead ==
  /\ outsider = "idle" /\ status \in {"running", "paused"}
  /\ outsider' = "marking"
  /\ Quiet /\ Untracked
  /\ UNCHANGED <<runVars, job, lost, cancelVars, cleaner, faults, server>>

OutsideMark ==
  /\ outsider = "marking"
  /\ Append("cancelled")
  /\ outsider' = "done"
  /\ Untracked /\ UNCHANGED <<runVars, job, lost, cancelVars, cleaner, faults, server>>

\* The server ends, and its tasks with it; the lock stays behind.
Restart ==
  /\ restarts < MaxRestarts /\ restarts' = restarts + 1 /\ stopping' = FALSE
  /\ flag' = FALSE
  /\ lock' = IF lock = "server" THEN "dead" ELSE lock
  /\ GoWith("gone", "open", TRUE) /\ doomed' = FALSE
  /\ lost' = (lost \/ job) /\ job' = FALSE
  /\ canceller' = "idle" /\ saw' = NothingSeen
  /\ cleaner' = "scanning"
  /\ Quiet /\ UNCHANGED <<calls, outsider, faults>>

\* The loop of the server is stopped, which cancels its tasks.
ShutDown ==
  /\ run # "gone" /\ ~ stopping /\ restarts < MaxRestarts
  /\ stopping' = TRUE /\ doomed' = TRUE
  /\ Quiet /\ Untracked
  /\ UNCHANGED <<mode, run, verdict, guarded, recovered, job, lost, cancelVars, outsider,
                 cleaner, faults, restarts>>

\* A job is started to resume the session that the former server has left.
Resume ==
  /\ run = "gone" /\ ~ job /\ restarts > 0
  /\ "resume" \in Modes /\ status \in {"running", "paused"}
  /\ mode' = "resume" /\ run' = "queued" /\ verdict' = "open" /\ guarded' = TRUE
  /\ recovered' = FALSE /\ job' = TRUE
  /\ Quiet /\ Untracked
  /\ UNCHANGED <<doomed, lost, cancelVars, outsider, cleaner, faults, server>>

\* cancel_orphaned_sessions: the locks are read, then the statuses.
CleanerStep ==
  /\ \/ /\ cleaner = "scanning"
        /\ cleaner' = IF HolderAlive THEN "idle" ELSE "reading"
        /\ RemoveStale /\ Quiet
     \/ /\ cleaner = "reading"
        /\ cleaner' = IF status \in {"running", "paused"} THEN "marking" ELSE "idle"
        /\ UNCHANGED lock /\ Quiet
     \/ /\ cleaner = "marking"
        /\ Append("cancelled")
        /\ cleaner' = "idle" /\ UNCHANGED lock
  /\ UNCHANGED <<flag, runVars, job, lost, cancelVars, outsider, faults, server>>

Next ==
  \/ RunStep \/ JobEnds
  \/ \E own \in BOOLEAN : Ask(own)
  \/ CancelStep
  \/ OutsideRead \/ OutsideMark
  \/ Restart \/ ShutDown \/ Resume \/ CleanerStep

Spec == Init /\ [][Next]_vars

\* The event loop runs every task that is ready; an agent's run ends.
FairSpec == Spec /\ WF_vars(RunStep) /\ WF_vars(JobEnds) /\ WF_vars(CancelStep)

-----------------------------------------------------------------------------
(* Properties                                                              *)

Clean == run \in Unregistered => lock # "server"

\* A run of a new session gives back its lock however it ends: returned,
\* refused, failed or cancelled at any await, in whatever order the requests
\* arrive.
FreshRunsCleanUp == mode # "resume" => Clean

\* So does every run: _unregister_session is "called at the end of execution
\* (success, failure, or cancellation)".
RunsCleanUp == Clean

\* The execution of a new session is told one ending, although the runner,
\* its handler of cancellations and cancel_job may each write one, and
\* others change the session in between.
EndingsAgree == mode # "resume" => Cardinality(told) <= 1

\* A new session that has been registered gets an ending, in spite of one
\* call of cancel_job or one exception at any point, and of `ouroboros
\* cancel`, as long as the server goes on.  Not so when cancel_job takes the
\* failure of a first stream for the end and the second one has begun: it
\* then cancels the task without a request in the registry.
SessionSettles ==
  (mode # "resume" /\ run = "starting")
    ~> (\/ run = "gone" /\ (status \in Terminal \/ ends # {})
        \/ stopping \/ restarts > 0 \/ calls + faults > 1
        \/ recovered /\ calls > 0)

=============================================================================
