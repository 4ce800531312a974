------------------------- MODULE SessionRunnerProofs -------------------------
(***************************************************************************)
(* A session run anew gives its lock back and is told one ending, for any  *)
(* number of calls of cancel_job, of exceptions and of restarts, at any    *)
(* await.                                                                  *)
(***************************************************************************)
EXTENDS SessionRunner, FiniteSetTheorems, TLAPS

-----------------------------------------------------------------------------
(* The lock                                                                *)

\* The lock of the live server is held only where one of the runner's own
\* handlers, or its normal end, will release it.
LockInv ==
  mode # "resume" =>
    /\ lock = "server" => guarded /\ run \in Registered \ {"handling", "telling"}
    /\ run \in {"queued", "prepared"} => guarded

LEMMA LockInit == Init => LockInv
BY DEF Init, LockInv

\* The runner takes the lock in Register and releases it on every way out.
LEMMA LockRunStep == LockInv /\ RunStep => LockInv'
<1> SUFFICES ASSUME LockInv, RunStep, mode # "resume"
             PROVE  LockInv'
  BY DEF LockInv, RunStep, Interrupted, Prepare, Register, StartUp, Report, Recover, Checkpoint,
         Finish, CheckEnd, RecordEnd, MarkEnd, Announce, Leave, HandleEnded, HandleOpen,
         HandleTells, Raise, HandlerReports, Go, GoWith, Handle, runVars
<1> USE DEF LockInv, Registered, Unregistered, Go, GoWith, Untracked
<1>1. CASE Interrupted
  BY <1>1 DEF Interrupted, Handle, Release
<1>2. CASE Prepare
  BY <1>2 DEF Prepare
<1>3. CASE Register
  BY <1>3 DEF Register, Handle, Release
<1>4. CASE StartUp
  BY <1>4 DEF StartUp, Handle, Release
<1>5. CASE Report
  BY <1>5 DEF Report, runVars
<1>6. CASE Recover
  BY <1>6 DEF Recover
<1>7. CASE Checkpoint
  BY <1>7 DEF Checkpoint, Handle, Release
<1>8. ASSUME NEW v \in {"completed", "failed", "paused"}, Finish(v)
      PROVE  LockInv'
  BY <1>8 DEF Finish
<1>9. CASE CheckEnd
  BY <1>9 DEF CheckEnd, Handle, Release
<1>10. CASE RecordEnd
  BY <1>10 DEF RecordEnd
<1>11. CASE MarkEnd
  BY <1>11 DEF MarkEnd
<1>12. CASE Announce
  BY <1>12 DEF Announce
<1>13. CASE Leave
  BY <1>13 DEF Leave, Release
<1>14. CASE HandleEnded
  BY <1>14 DEF HandleEnded
<1>15. CASE HandleOpen
  BY <1>15 DEF HandleOpen
<1>16. CASE HandleTells
  BY <1>16 DEF HandleTells
<1>17. CASE Raise
  BY <1>17 DEF Raise, Release
<1>18. CASE HandlerReports
  BY <1>18 DEF HandlerReports
<1>19. QED
  BY <1>1, <1>2, <1>3, <1>4, <1>5, <1>6, <1>7, <1>8, <1>9, <1>10, <1>11, <1>12, <1>13, <1>14,
     <1>15, <1>16, <1>17, <1>18 DEF RunStep

\* Everybody else at most removes the lock of a dead process, or turns the
\* lock into one.
LEMMA LockOtherStep == LockInv /\ [Next]_vars /\ ~ RunStep => LockInv'
<1> SUFFICES ASSUME LockInv, [Next]_vars, ~ RunStep
             PROVE  LockInv'
  OBVIOUS
<1> USE DEF LockInv, runVars, Untracked, Elsewhere, RemoveStale
<1>1. CASE JobEnds
  BY <1>1 DEF JobEnds
<1>2. ASSUME NEW own \in BOOLEAN, Ask(own)
      PROVE  LockInv'
  BY <1>2 DEF Ask
<1>3. CASE CancelStep
  BY <1>3 DEF CancelStep, Look, Request, Recheck, Persist, CancelTells, Withdraw
<1>4. CASE OutsideRead \/ OutsideMark
  BY <1>4 DEF OutsideRead, OutsideMark
<1>5. CASE Restart
  BY <1>5 DEF Restart, GoWith
<1>6. CASE ShutDown
  BY <1>6 DEF ShutDown
<1>7. CASE Resume
  BY <1>7 DEF Resume
<1>8. CASE CleanerStep
  BY <1>8 DEF CleanerStep
<1>9. CASE UNCHANGED vars
  BY <1>9 DEF vars
<1>10. QED
  BY <1>1, <1>2, <1>3, <1>4, <1>5, <1>6, <1>7, <1>8, <1>9 DEF Next

\* A run of a new session gives back its lock however it ends.
THEOREM LocksAreGivenBack == Spec => []FreshRunsCleanUp
<1>1. LockInv => FreshRunsCleanUp
  BY DEF LockInv, FreshRunsCleanUp, Clean, Registered, Unregistered
<1>2. LockInv /\ [Next]_vars => LockInv'
  BY LockRunStep, LockOtherStep
<1>3. QED
  BY LockInit, <1>1, <1>2, PTL DEF Spec

-----------------------------------------------------------------------------
(* The ending                                                              *)

\* What the runner is about to write or tell, and what it has written.
VerdictInv ==
  /\ run \in {"ended", "recorded", "marked"} => verdict \in Terminal
  /\ run \in {"recorded", "marked", "announced"} => status \in Terminal
  /\ run = "telling" => verdict = "cancelled" \/ status \in Terminal

\* Once told, the runner is over, or on a way on which it tells nothing else.
ToldInv ==
  told # {} =>
    \/ run \in {"reporting", "gone"}
    \/ status \in Terminal /\ (doomed \/ run \in {"announced", "handling"})
    \/ status \in Terminal /\ run = "telling" /\ ~ guarded /\ told = {verdict}

\* One ending is told, and it is a cancellation unless the session has ended.
OneEndingInv ==
  /\ \E e : told \subseteq {e}
  /\ status \in Terminal \/ told \subseteq {"cancelled"}

\* After the request of cancel_job the run is over, or cancelled.
RequestInv ==
  /\ lost => run = "gone"
  /\ canceller # "idle" /\ ~ saw.own => lost
  /\ canceller \in {"waiting", "marking", "telling"} =>
       \/ doomed
       \/ run \in {"reporting", "gone"}
       \/ run \in {"handling", "telling"} /\ ~ guarded

\* Where cancel_job goes on to write the ending itself, nobody else has
\* written or will tell another one.
PersistInv ==
  canceller \in {"marking", "telling"} =>
    /\ told \subseteq {"cancelled"}
    /\ run # "gone" /\ status \in Terminal => status = "cancelled"
    /\ run = "telling" /\ ~ doomed => verdict = "cancelled"
    /\ canceller = "telling" => status \in Terminal

EndingInv ==
  mode # "resume" => VerdictInv /\ ToldInv /\ OneEndingInv /\ RequestInv /\ PersistInv

LEMMA EndingInit == Init => EndingInv
BY DEF Init, EndingInv, VerdictInv, ToldInv, OneEndingInv, RequestInv, PersistInv

LEMMA EndingRunStep == EndingInv /\ RunStep => EndingInv'
<1> SUFFICES ASSUME EndingInv, RunStep, mode # "resume"
             PROVE  EndingInv'
  BY DEF EndingInv, RunStep, Interrupted, Prepare, Register, StartUp, Report, Recover, Checkpoint,
         Finish, CheckEnd, RecordEnd, MarkEnd, Announce, Leave, HandleEnded, HandleOpen,
         HandleTells, Raise, HandlerReports, Go, GoWith, Handle, runVars
<1> USE DEF EndingInv, VerdictInv, ToldInv, OneEndingInv, RequestInv, PersistInv, Registered,
            Unregistered, Terminal, Go, GoWith, Untracked, Quiet, Others, cancelVars, events
<1>1. CASE Interrupted
  BY <1>1 DEF Interrupted, Handle
<1>2. CASE ~ doomed /\ Prepare
  BY <1>2 DEF Prepare, Append
<1>3. CASE ~ doomed /\ Register
  BY <1>3 DEF Register, Handle
<1>4. CASE ~ doomed /\ StartUp
  BY <1>4 DEF StartUp, Handle
<1>5. CASE ~ doomed /\ Report
  BY <1>5 DEF Report, Append, runVars
<1>6. CASE ~ doomed /\ Recover
  BY <1>6 DEF Recover
<1>7. CASE ~ doomed /\ Checkpoint
  BY <1>7 DEF Checkpoint, Handle
<1>8. ASSUME NEW v \in {"completed", "failed", "paused"}, ~ doomed /\ Finish(v)
      PROVE  EndingInv'
  BY <1>8 DEF Finish
<1>9. CASE ~ doomed /\ CheckEnd
  BY <1>9 DEF CheckEnd, Handle
<1>10. CASE ~ doomed /\ RecordEnd
  BY <1>10 DEF RecordEnd, Append
<1>11. CASE ~ doomed /\ MarkEnd
  BY <1>11 DEF MarkEnd, Marked, Append
<1>12. CASE ~ doomed /\ Announce
  BY <1>12 DEF Announce, Tell
<1>13. CASE ~ doomed /\ Leave
  BY <1>13 DEF Leave
<1>14. CASE ~ doomed /\ HandleEnded
  BY <1>14 DEF HandleEnded
<1>15. CASE ~ doomed /\ HandleOpen
  BY <1>15 DEF HandleOpen, Marked, Append
<1>16. CASE ~ doomed /\ HandleTells
  BY <1>16 DEF HandleTells, Tell
<1>17. CASE ~ doomed /\ Raise
  BY <1>17 DEF Raise
<1>18. CASE ~ doomed /\ HandlerReports
  BY <1>18 DEF HandlerReports, Marked, Append
<1>19. QED
  BY <1>1, <1>2, <1>3, <1>4, <1>5, <1>6, <1>7, <1>8, <1>9, <1>10, <1>11, <1>12, <1>13, <1>14,
     <1>15, <1>16, <1>17, <1>18 DEF RunStep

LEMMA EndingCancelStep == EndingInv /\ (CancelStep \/ \E own \in BOOLEAN : Ask(own)) => EndingInv'
<1> SUFFICES ASSUME EndingInv, CancelStep \/ \E own \in BOOLEAN : Ask(own), mode # "resume"
             PROVE  EndingInv'
  BY DEF EndingInv, CancelStep, Ask, Look, Request, Recheck, Persist, CancelTells, Elsewhere,
         runVars
<1> USE DEF EndingInv, VerdictInv, ToldInv, OneEndingInv, RequestInv, PersistInv, Terminal,
            runVars, Untracked, Quiet, Elsewhere, events
<1>1. ASSUME NEW own \in BOOLEAN, Ask(own)
      PROVE  EndingInv'
  BY <1>1 DEF Ask, NothingSeen
<1>2. CASE Look
  BY <1>2 DEF Look
<1>3. CASE Request
  BY <1>3 DEF Request
<1>4. CASE Recheck
  BY <1>4 DEF Recheck, Withdraw
<1>5. CASE Persist
  BY <1>5 DEF Persist, Append
<1>6. CASE CancelTells
  BY <1>6 DEF CancelTells, Tell, Withdraw
<1>7. QED
  BY <1>1, <1>2, <1>3, <1>4, <1>5, <1>6 DEF CancelStep

LEMMA EndingOtherStep ==
  /\ EndingInv
  /\ \/ JobEnds \/ OutsideRead \/ OutsideMark \/ Restart \/ ShutDown \/ Resume \/ CleanerStep
     \/ UNCHANGED vars
  => EndingInv'
<1> SUFFICES ASSUME EndingInv,
                    \/ JobEnds \/ OutsideRead \/ OutsideMark \/ Restart \/ ShutDown \/ Resume
                    \/ CleanerStep \/ UNCHANGED vars
             PROVE  EndingInv'
  OBVIOUS
<1> USE DEF EndingInv, VerdictInv, ToldInv, OneEndingInv, RequestInv, PersistInv, Terminal,
            runVars, cancelVars, Quiet, Untracked, events
<1>1. CASE JobEnds
  BY <1>1 DEF JobEnds
<1>2. CASE OutsideRead \/ OutsideMark
  BY <1>2 DEF OutsideRead, OutsideMark, Append
<1>3. CASE Restart
  BY <1>3 DEF Restart, GoWith
<1>4. CASE ShutDown
  BY <1>4 DEF ShutDown
<1>5. CASE Resume
  BY <1>5 DEF Resume
<1>6. CASE CleanerStep
  BY <1>6 DEF CleanerStep, Append
<1>7. CASE UNCHANGED vars
  BY <1>7 DEF vars
<1>8. QED
  BY <1>1, <1>2, <1>3, <1>4, <1>5, <1>6, <1>7

\* The execution of a new session is told one ending, although the runner,
\* its handler of cancellations and cancel_job may each write one.
THEOREM OneEndingIsTold == Spec => []EndingsAgree
<1>1. EndingInv => EndingsAgree
  <2> SUFFICES ASSUME EndingInv, mode # "resume"
               PROVE  Cardinality(told) <= 1
    BY DEF EndingsAgree
  <2>1. PICK e : told \subseteq {e}
    BY DEF EndingInv, OneEndingInv
  <2>2. CASE told = {}
    BY <2>2, FS_EmptySet
  <2>3. CASE told = {e}
    <3>1. Cardinality({e}) = 1
      BY FS_Singleton, Zenon
    <3>2. QED
      BY <2>3, <3>1
  <2>4. QED
    BY <2>1, <2>2, <2>3
<1>2. EndingInv /\ [Next]_vars => EndingInv'
  BY EndingRunStep, EndingCancelStep, EndingOtherStep DEF Next
<1>3. QED
  BY EndingInit, <1>1, <1>2, PTL DEF Spec

-----------------------------------------------------------------------------
(* Types                                                                   *)

\* TypeOK by whose state it is.  The runner has a verdict wherever it writes
\* or tells one.
EventTypes ==
  /\ status \in Statuses /\ ends \subseteq Terminal
  /\ told \subseteq Terminal \cup {"paused"}

RunTypes ==
  /\ mode \in Modes
  /\ run \in Unregistered \cup Registered
  /\ verdict \in Terminal \cup {"paused", "open"}
  /\ guarded \in BOOLEAN /\ doomed \in BOOLEAN /\ recovered \in BOOLEAN
  /\ run \in {"ended", "recorded", "marked", "telling"} => verdict # "open"

CallTypes ==
  /\ canceller \in {"idle", "looking", "requesting", "waiting", "marking", "telling"}
  /\ saw \in [known : BOOLEAN, terminal : BOOLEAN, started : BOOLEAN, own : BOOLEAN]
  /\ calls \in 0 .. MaxCalls

OtherTypes ==
  /\ flag \in BOOLEAN
  /\ lock \in {"none", "server", "dead"}
  /\ job \in BOOLEAN /\ lost \in BOOLEAN
  /\ outsider \in {"idle", "marking", "done"}
  /\ cleaner \in {"idle", "scanning", "reading", "marking"}
  /\ faults \in 0 .. MaxFaults
  /\ stopping \in BOOLEAN
  /\ restarts \in 0 .. MaxRestarts

LEMMA NothingSeenIsTyped ==
  NothingSeen \in [known : BOOLEAN, terminal : BOOLEAN, started : BOOLEAN, own : BOOLEAN]
BY DEF NothingSeen

SessionTypes == EventTypes /\ RunTypes /\ CallTypes /\ OtherTypes

LEMMA TypesInit == Init => SessionTypes
<1> SUFFICES ASSUME Init
             PROVE  SessionTypes
  OBVIOUS
<1>1. EventTypes
  BY DEF Init, EventTypes, Statuses, Terminal
<1>2. RunTypes
  BY DEF Init, RunTypes, Terminal, Unregistered
<1>3. CallTypes
  BY NothingSeenIsTyped, SessionAssumption DEF Init, CallTypes
<1>4. OtherTypes
  <2>1. lost \in BOOLEAN /\ lock \in {"none", "server", "dead"}
    BY DEF Init
  <2>2. faults \in 0 .. MaxFaults /\ restarts \in 0 .. MaxRestarts
    BY SessionAssumption DEF Init
  <2>3. QED
    BY <2>1, <2>2, Zenon DEF Init, OtherTypes
<1>5. QED
  BY <1>1, <1>2, <1>3, <1>4 DEF SessionTypes

LEMMA TypesRunStep == SessionTypes /\ RunStep => SessionTypes'
<1> SUFFICES ASSUME SessionTypes, RunStep
             PROVE  SessionTypes'
  OBVIOUS
<1> USE DEF SessionTypes
<1>1. CallTypes'
  BY DEF CallTypes, RunStep, Interrupted, Prepare, Register, StartUp, Report, Recover, Checkpoint,
         Finish, CheckEnd, RecordEnd, MarkEnd, Announce, Leave, HandleEnded, HandleOpen,
         HandleTells, Raise, HandlerReports, Others, cancelVars
<1>2. EventTypes'
  <2> USE DEF EventTypes, RunTypes, Statuses, Terminal, Quiet, events, Append, Marked, Tell, Handle
  <2>1. CASE Interrupted \/ Register \/ StartUp \/ Checkpoint
    BY <2>1 DEF Interrupted, Register, StartUp, Checkpoint
  <2>2. CASE CheckEnd \/ Leave \/ HandleEnded \/ Raise
    BY <2>2 DEF CheckEnd, Leave, HandleEnded, Raise
  <2>3. CASE Prepare \/ Report \/ Recover \/ \E v \in {"completed", "failed", "paused"} : Finish(v)
    BY <2>3 DEF Prepare, Report, Recover, Finish
  <2>4. CASE RecordEnd \/ MarkEnd \/ Announce
    BY <2>4 DEF RecordEnd, MarkEnd, Announce
  <2>5. CASE HandleOpen \/ HandleTells \/ HandlerReports
    BY <2>5 DEF HandleOpen, HandleTells, HandlerReports
  <2>6. QED
    BY <2>1, <2>2, <2>3, <2>4, <2>5 DEF RunStep
<1>3. RunTypes'
  <2> USE DEF RunTypes, Registered, Unregistered, Terminal, Go, GoWith, Handle
  <2>1. CASE Interrupted \/ Checkpoint \/ CheckEnd
    BY <2>1 DEF Interrupted, Checkpoint, CheckEnd
  <2>2. CASE Prepare \/ Register \/ StartUp
    BY <2>2 DEF Prepare, Register, StartUp
  <2>3. CASE Report \/ Recover \/ \E v \in {"completed", "failed", "paused"} : Finish(v)
    BY <2>3 DEF Report, Recover, Finish, runVars
  <2>4. CASE RecordEnd \/ MarkEnd \/ Announce \/ Leave
    BY <2>4 DEF RecordEnd, MarkEnd, Announce, Leave
  <2>5. CASE HandleEnded \/ HandleOpen \/ HandleTells
    BY <2>5 DEF HandleEnded, HandleOpen, HandleTells
  <2>6. CASE Raise \/ HandlerReports
    BY <2>6 DEF Raise, HandlerReports
  <2>7. QED
    BY <2>1, <2>2, <2>3, <2>4, <2>5, <2>6 DEF RunStep
<1>4. OtherTypes'
  <2>1. /\ Others
        /\ UNCHANGED lock \/ Release \/ lock' = "server"
        /\ UNCHANGED flag \/ flag' = FALSE
        /\ UNCHANGED faults \/ (faults < MaxFaults /\ faults' = faults + 1)
    <3> USE DEF Untracked, NoFault, Marked, Handle
    <3>1. CASE Interrupted \/ Checkpoint \/ CheckEnd
      BY <3>1 DEF Interrupted, Checkpoint, CheckEnd
    <3>2. CASE Prepare \/ Register \/ StartUp
      BY <3>2 DEF Prepare, Register, StartUp
    <3>3. CASE Report \/ Recover \/ \E v \in {"completed", "failed", "paused"} : Finish(v)
      BY <3>3 DEF Report, Recover, Finish
    <3>4. CASE RecordEnd \/ MarkEnd \/ Announce \/ Leave
      BY <3>4 DEF RecordEnd, MarkEnd, Announce, Leave
    <3>5. CASE HandleEnded \/ HandleOpen \/ HandleTells
      BY <3>5 DEF HandleEnded, HandleOpen, HandleTells
    <3>6. CASE Raise \/ HandlerReports
      BY <3>6 DEF Raise, HandlerReports
    <3>7. QED
      BY <3>1, <3>2, <3>3, <3>4, <3>5, <3>6 DEF RunStep
  <2>2. lock' \in {"none", "server", "dead"} /\ flag' \in BOOLEAN
    BY <2>1 DEF OtherTypes, Release
  <2>3. faults' \in 0 .. MaxFaults
    BY <2>1, SessionAssumption DEF OtherTypes
  <2>4. QED
    BY <2>1, <2>2, <2>3 DEF OtherTypes, Others, server
<1>5. QED
  BY <1>1, <1>2, <1>3, <1>4

LEMMA TypesOtherStep == SessionTypes /\ [Next]_vars /\ ~ RunStep => SessionTypes'
<1> SUFFICES ASSUME SessionTypes, [Next]_vars, ~ RunStep
             PROVE  SessionTypes'
  OBVIOUS
<1> USE SessionAssumption
        DEF SessionTypes, Untracked, Elsewhere, Quiet, RemoveStale, HolderAlive, runVars,
            cancelVars, server, events
<1>1. CASE JobEnds
  <2>1. OtherTypes'
    BY <1>1 DEF JobEnds, OtherTypes
  <2>2. QED
    BY <1>1, <2>1 DEF JobEnds, EventTypes, RunTypes, CallTypes
<1>2. ASSUME NEW own \in BOOLEAN, Ask(own)
      PROVE  SessionTypes'
  <2>1. saw' \in [known : BOOLEAN, terminal : BOOLEAN, started : BOOLEAN, own : BOOLEAN]
    BY <1>2 DEF Ask, NothingSeen
  <2>2. CallTypes'
    BY <1>2, <2>1 DEF Ask, CallTypes
  <2>3. QED
    BY <1>2, <2>2 DEF Ask, EventTypes, RunTypes, OtherTypes
<1>3. CASE Look
  <2>1. CallTypes'
    BY <1>3 DEF Look, CallTypes
  <2>2. QED
    BY <1>3, <2>1 DEF Look, EventTypes, RunTypes, OtherTypes
<1>4. CASE Request
  <2>1. CallTypes'
    BY <1>4 DEF Request, CallTypes
  <2>2. QED
    BY <1>4, <2>1 DEF Request, EventTypes, RunTypes, OtherTypes
<1>5. CASE Recheck \/ CancelTells
  <2>1. CallTypes'
    <3>1. calls' = calls /\ canceller' \in {"idle", "marking"}
      BY <1>5 DEF Recheck, CancelTells, Withdraw
    <3>2. saw' = saw \/ saw' = NothingSeen
      BY <1>5 DEF Recheck, CancelTells, Withdraw
    <3>3. QED
      BY NothingSeenIsTyped, <3>1, <3>2 DEF CallTypes
  <2>2. OtherTypes'
    <3>1. CASE Recheck
      BY <3>1 DEF Recheck, Withdraw, OtherTypes
    <3>2. CASE CancelTells
      BY <3>2 DEF CancelTells, Withdraw, OtherTypes
    <3>3. QED
      BY <1>5, <3>1, <3>2
  <2>3. EventTypes' /\ RunTypes'
    BY NothingSeenIsTyped, <1>5 DEF Recheck, CancelTells, Tell, EventTypes, RunTypes, Terminal
  <2>4. QED
    BY <2>1, <2>2, <2>3
<1>6. CASE Persist
  <2>1. CallTypes'
    BY NothingSeenIsTyped, <1>6 DEF Persist, CallTypes
  <2>2. OtherTypes'
    BY <1>6 DEF Persist, OtherTypes
  <2>3. EventTypes' /\ RunTypes'
    BY <1>6 DEF Persist, Append, EventTypes, RunTypes, Statuses, Terminal
  <2>4. QED
    BY <2>1, <2>2, <2>3
<1>7. CASE OutsideRead \/ OutsideMark
  <2>1. EventTypes'
    BY <1>7 DEF OutsideRead, OutsideMark, Append, EventTypes, Statuses, Terminal
  <2>2. QED
    BY <1>7, <2>1 DEF OutsideRead, OutsideMark, RunTypes, CallTypes, OtherTypes
<1>8. CASE Restart
  <2>1. RunTypes'
    BY <1>8 DEF Restart, GoWith, RunTypes, Unregistered
  <2>2. CallTypes' /\ EventTypes'
    BY NothingSeenIsTyped, <1>8 DEF Restart, CallTypes, EventTypes
  <2>3. (lost \/ job) \in BOOLEAN
    OBVIOUS
  <2>4. restarts' \in 0 .. MaxRestarts
    BY <1>8 DEF Restart, OtherTypes
  <2>5. OtherTypes'
    BY <1>8, <2>3, <2>4, Zenon DEF Restart, OtherTypes
  <2>6. QED
    BY <2>1, <2>2, <2>5
<1>9. CASE ShutDown
  BY <1>9 DEF ShutDown, EventTypes, RunTypes, CallTypes, OtherTypes
<1>10. CASE Resume
  <2>1. RunTypes'
    BY <1>10 DEF Resume, RunTypes, Unregistered
  <2>2. QED
    BY <1>10, <2>1 DEF Resume, EventTypes, CallTypes, OtherTypes
<1>11. CASE CleanerStep
  <2>1. EventTypes'
    BY <1>11 DEF CleanerStep, Append, EventTypes, Statuses, Terminal
  <2>2. OtherTypes'
    BY <1>11 DEF CleanerStep, OtherTypes
  <2>3. QED
    BY <1>11, <2>1, <2>2 DEF CleanerStep, RunTypes, CallTypes
<1>12. CASE UNCHANGED vars
  BY <1>12 DEF vars, EventTypes, RunTypes, CallTypes, OtherTypes
<1>13. QED
  BY <1>1, <1>2, <1>3, <1>4, <1>5, <1>6, <1>7, <1>8, <1>9, <1>10, <1>11, <1>12 DEF Next, CancelStep

\* Every state of the session, the registry, the lock and the four who
\* write its ending is of its type: no ending is written that is not one.
THEOREM SessionIsTyped == Spec => []TypeOK
<1>1. SessionTypes => TypeOK
  BY DEF SessionTypes, EventTypes, RunTypes, CallTypes, OtherTypes, TypeOK
<1>2. SessionTypes /\ [Next]_vars => SessionTypes'
  BY TypesRunStep, TypesOtherStep
<1>3. QED
  BY TypesInit, <1>1, <1>2, PTL DEF Spec

=============================================================================
