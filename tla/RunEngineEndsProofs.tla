------------------------ MODULE RunEngineEndsProofs -------------------------
(***************************************************************************)
(* How runs end: completed only when every step is done, failed only with  *)
(* a report that was owed, and with every event of the drive streamed;     *)
(* and that the log then tells why each gated step was entered.            *)
(* And, from all the invariants together, that RunEngine implements        *)
(* GatedPlan: every step of a drive, of the user and of the host is a step *)
(* of the promise or leaves it alone.                                      *)
(***************************************************************************)
EXTENDS RunEngineProofs

\* What every action is built from.
USE DEF Goto, DrainThen, EndDrive, Decides, Ends, WritesRun, WritesStep,
        Appends, Emits, SetStep, Spend, Seen, HostEmit,
        run, ledger, snapshot, stream, control, observed

-----------------------------------------------------------------------------
\* A run is only ever declared completed with no step open, and nothing but its
\* own last writes is left to the drive then.
DoneInv ==
  /\ pc = "complete" \/ status = "completed" =>
       \A s \in StepIds : steps[s].status \in Closed \cup {Absent}
  /\ status = "completed" =>
       \/ pc \in {"idle", "completeEvent", "hook"}
       \/ pc = "drain" /\ after = "idle"

LEMMA DoneEngine == ASSUME TypeOK, PassInv, DoneInv, Engine PROVE DoneInv'
<1> USE DEF DoneInv
<1>1. CASE CompleteRun
  BY <1>1 DEF CompleteRun
<1>2. CASE FinalRead
  <2>1. \A s \in StepIds : steps[s].status \in Closed \cup {Absent}
    BY <1>2 DEF FinalRead, PassInv, NoneOpen, Closed, Absent
  <2> QED BY <1>2, <2>1 DEF FinalRead
<1>3. CASE RunCompletedEvent \/ CallHook
  BY <1>3 DEF RunCompletedEvent, CallHook
<1>4. CASE Loop
  BY <1>4 DEF Loop, TakeCursor, ClaimRun, Drain, ReadRun, ReadSteps,
    RefuseUnrecognized, Deciding, FindFailed, FailQuietly
<1>5. CASE Gates
  BY <1>5 DEF Gates, SkipUngranted, RefuseRunning, SkipEvent, PauseForBudget,
    BudgetPause, BudgetPauseEvent, Park, ParkEvent, StillAwaiting, ParkRun,
    AutoApprove, AutoApproveEvent, PassGate, PassApproved, ReachesApproval, Deciding
<1>6. CASE RunStep
  BY <1>6 DEF RunStep, EnterRunning, EntryRefused, StartedEvent, Invoke,
    HandlerAnswers, HandlerReturns, HandlerInapplicable, HandlerRaises,
    OutcomeUnknown, HandlerPrepares, Reread, CompleteStep, StepCompletedEvent,
    SkipStep, FailStep, StepFailedEvent
<1>7. CASE FailRun \/ FailRunStatus
  BY <1>7 DEF FailRun, FailRunStatus
<1> QED BY <1>1, <1>2, <1>3, <1>4, <1>5, <1>6, <1>7 DEF Engine, RunEnds

LEMMA DoneOutside == ASSUME TypeOK, DoneInv, Outside PROVE DoneInv'
<1> USE DEF DoneInv
<1>1. pc' = pc /\ after' = after
  BY OutsideLeavesDrive
<1>2. CASE pc \in {"idle", "working"} /\ status # "completed"
  <2>1. status' # "completed"
    BY <1>2 DEF Outside, Resume, Reopen, SetOptions, UserStops, StopStatuses, Approve,
      Rerun, Reclaim, HostFails, Reconcile, HandlerAppends
  <2> QED BY <1>1, <1>2, <2>1
<1>3. CASE status = "completed" \/ pc = "complete"
  <2>1. \A s \in StepIds : steps[s].status \in Closed \cup {Absent}
    BY <1>3
  <2>2. CASE \E s \in StepIds : Rerun(s)
    BY <1>1, <1>3, <2>2 DEF Rerun
  <2>3. ~(\E s \in StepIds : Approve(s) \/ Reclaim(s) \/ HostFails(s))
    BY <2>1 DEF Approve, Reclaim, HostFails, Closed, Absent
  <2>4. ~(\E s \in StepIds, result \in Results \ {"none"} : Reconcile(s, result))
    BY <2>1 DEF Reconcile, Closed, Absent
  <2>5. ~(\E s \in StepIds, type \in ExtensionTypes : HandlerAppends(s, type))
    BY <1>3 DEF HandlerAppends
  <2>6. CASE Resume \/ Reopen \/ (\E o \in Options : SetOptions(o))
             \/ (\E s \in StopStatuses : UserStops(s))
    BY <1>1, <1>3, <2>1, <2>6 DEF Resume, Reopen, SetOptions, UserStops, StopStatuses
  <2> QED BY <2>2, <2>3, <2>4, <2>5, <2>6 DEF Outside
<1>4. CASE pc \notin {"idle", "working", "complete"} /\ status # "completed"
  <2>1. status' # "completed"
    BY <1>4 DEF Outside, Resume, Reopen, SetOptions, UserStops, StopStatuses, Approve,
      Rerun, Reclaim, HostFails, Reconcile, HandlerAppends
  <2> QED BY <1>1, <1>4, <2>1
<1> QED BY <1>2, <1>3, <1>4

LEMMA DoneStep == ASSUME TypeOK, PassInv, DoneInv, [Next]_vars PROVE DoneInv'
<1>1. CASE StartDrive \/ EndEarly
  BY <1>1 DEF StartDrive, EndEarly, DoneInv, TERMINAL_RUN_STATUSES
<1>2. CASE UNCHANGED vars
  BY <1>2 DEF vars, DoneInv
<1> QED BY <1>1, <1>2, DoneEngine, DoneOutside DEF Next

\* A run is completed only while every step, those appended mid-run included, is
\* completed or skipped.
THEOREM CompletedMeansDoneHolds == Spec => []CompletedMeansDone
<1>1. Init => DoneInv
  BY DEF Init, DoneInv
<1>2. DoneInv => CompletedMeansDone
  BY DEF DoneInv, CompletedMeansDone, Closed
<1>3. TypeOK /\ PassInv /\ DoneInv /\ [Next]_vars => DoneInv'
  BY DoneStep
<1> QED BY <1>1, <1>2, <1>3, RecordHolds, PTL DEF Spec

-----------------------------------------------------------------------------
\* Every failed step's report is in the log or still owed, and a drive that is
\* about to report one owes it.
ReportInv ==
  /\ \A s \in StepIds : steps[s].status = "failed" => owed[s] \/ FailureReported(s)
  /\ pc \in {"failedEvent", "failRun"} \/ (pc = "drain" /\ after = "failRun") => owed[at]
  /\ pc = "reread" => steps[at].status \in SkippableWithoutGrant

\* What is in the log stays there.
LEMMA ReportsStay ==
  ASSUME TypeOK, NEW e, log' = Append(log, e) \/ log' = log
  PROVE  \A s \in StepIds : FailureReported(s) => FailureReported(s)'
<1>1. log \in Seq(Events)
  BY DEF TypeOK
<1> QED BY <1>1 DEF FailureReported

\* A step of anyone appends one event, or none.
LEMMA LogExtended ==
  ASSUME [Next]_vars PROVE log' = log \/ \E e : log' = Append(log, e)
<1>1. CASE Loop
  BY <1>1 DEF Loop, TakeCursor, ClaimRun, Drain, ReadRun, ReadSteps,
    RefuseUnrecognized, FindFailed, FailQuietly
<1>2. CASE Gates
  BY <1>2 DEF Gates, SkipUngranted, RefuseRunning, SkipEvent, PauseForBudget,
    BudgetPause, BudgetPauseEvent, Park, ParkEvent, StillAwaiting, ParkRun,
    AutoApprove, AutoApproveEvent, PassGate, PassApproved
<1>3. CASE RunStep
  BY <1>3 DEF RunStep, EnterRunning, EntryRefused, StartedEvent, Invoke,
    HandlerAnswers, HandlerReturns, HandlerInapplicable, HandlerRaises,
    OutcomeUnknown, HandlerPrepares, Reread, CompleteStep, StepCompletedEvent,
    SkipStep, FailStep, StepFailedEvent
<1>4. CASE RunEnds
  BY <1>4 DEF RunEnds, FailRun, FailRunStatus, FinalRead, CompleteRun,
    RunCompletedEvent, CallHook
<1>5. CASE StartDrive \/ EndEarly
  BY <1>5 DEF StartDrive, EndEarly
<1>6. CASE Outside
  BY <1>6 DEF Outside, Resume, Reopen, SetOptions, UserStops, Approve, Rerun, Reclaim,
    HostFails, HostFailure, Reconcile, HandlerAppends
<1>7. CASE UNCHANGED vars
  BY <1>7 DEF vars
<1> QED BY <1>1, <1>2, <1>3, <1>4, <1>5, <1>6, <1>7 DEF Next, Engine

LEMMA LogGrows ==
  ASSUME TypeOK, [Next]_vars
  PROVE  \A s \in StepIds : FailureReported(s) => FailureReported(s)'
BY LogExtended, ReportsStay

\* The report itself.
LEMMA ReportLogged ==
  ASSUME TypeOK, NEW s \in StepIds,
         log' = Append(log, [type |-> "RUN_FAILED", step |-> s])
  PROVE  FailureReported(s)'
<1>1. log \in Seq(Events)
  BY DEF TypeOK
<1>2. Len(log) + 1 \in DOMAIN log' /\ log'[Len(log) + 1] = [type |-> "RUN_FAILED", step |-> s]
  BY <1>1
<1> QED BY <1>2 DEF FailureReported

LEMMA ReportRows ==
  ASSUME TypeOK, ReportInv, PassInv, Engine
  PROVE  \A s \in StepIds : steps'[s].status = "failed" => owed'[s] \/ FailureReported(s)'
<1> USE DEF ReportInv
<1>0. \A s \in StepIds : FailureReported(s) => FailureReported(s)'
  BY LogGrows DEF Next
<1>1. CASE FailRun
  <2>1. at \in StepIds
    BY <1>1, AtStep DEF FailRun, StepPcs
  <2>2. FailureReported(at)'
    BY <1>1, <2>1, ReportLogged DEF FailRun
  <2> QED BY <1>0, <1>1, <2>1, <2>2 DEF FailRun, TypeOK
<1>2. CASE FailStep
  <2>1. at \in StepIds
    BY <1>2, AtStep DEF FailStep, StepPcs
  <2> QED BY <1>0, <1>2, <2>1, SetStepStatus DEF FailStep, TypeOK
<1>3. CASE Writers /\ ~FailStep
  <2>1. UNCHANGED owed
    BY <1>3 DEF Writers, SkipUngranted, Park, AutoApprove, PassGate, EnterRunning, Invoke,
      HandlerAnswers, HandlerReturns, HandlerInapplicable, HandlerRaises,
      HandlerPrepares, CompleteStep, SkipStep
  <2>2. at \in StepIds
    BY <1>3, DecidingReads, AtStep DEF Writers, SkipUngranted, Park, AutoApprove,
      PassGate, ReachesApproval, EnterRunning, Invoke, HandlerAnswers, HandlerReturns,
      HandlerInapplicable, HandlerRaises, HandlerPrepares, CompleteStep, SkipStep, StepPcs
  <2>3. UNCHANGED steps \/ \E x : x # "failed" /\ SetStep(at, x)
    BY <1>3 DEF Writers, SkipUngranted, Park, AutoApprove, PassGate, EnterRunning, Invoke,
      HandlerAnswers, HandlerReturns, HandlerInapplicable, HandlerRaises,
      HandlerPrepares, PendingOrAwaiting, CompleteStep, SkipStep
  <2>4. \A s \in StepIds : steps'[s].status = "failed" => steps[s].status = "failed"
    <3>1. CASE UNCHANGED steps
      BY <3>1
    <3>2. ASSUME NEW x, x # "failed", SetStep(at, x)
          PROVE  \A s \in StepIds : steps'[s].status = "failed" => steps[s].status = "failed"
      BY <2>2, <3>2, SetStepStatus
    <3> QED BY <2>3, <3>1, <3>2
  <2> QED BY <1>0, <2>1, <2>4
<1>4. CASE ~Writers /\ ~FailRun
  <2>1. UNCHANGED steps
    BY <1>4, OthersKeepRecord
  <2>2. UNCHANGED owed
    BY <1>4 DEF Writers, Engine, Loop, TakeCursor, ClaimRun, Drain, ReadRun, ReadSteps,
      RefuseUnrecognized, FindFailed, FailQuietly, Gates, RefuseRunning, SkipEvent,
      PauseForBudget, BudgetPause, BudgetPauseEvent, ParkEvent, StillAwaiting, ParkRun,
      AutoApproveEvent, PassApproved, RunStep, EntryRefused, StartedEvent,
      OutcomeUnknown, Reread, StepCompletedEvent, StepFailedEvent,
      RunEnds, FailRunStatus, FinalRead, CompleteRun, RunCompletedEvent, CallHook
  <2> QED BY <1>0, <2>1, <2>2
<1> QED BY <1>1, <1>2, <1>3, <1>4 DEF Writers

\* Where ReportInv has nothing to say of the step in hand.
NothingToReport(p, a) ==
  p \notin {"failedEvent", "failRun", "reread"} /\ ~(p = "drain" /\ a = "failRun")

LEMMA ReportEngine == ASSUME TypeOK, PassInv, ReportInv, Engine PROVE ReportInv'
<1> USE DEF ReportInv
<1>1. CASE FindFailed
  <2>1. at \in StepIds /\ steps[at].status = "failed"
    BY <1>1, DecidingReads DEF FindFailed
  <2> QED BY <1>1, <2>1, ReportRows DEF FindFailed
<1>2. CASE FailStep
  <2>1. at \in StepIds
    BY <1>2, AtStep DEF FailStep, StepPcs
  <2> QED BY <1>2, <2>1, ReportRows DEF FailStep, TypeOK
<1>3. CASE StepFailedEvent
  BY <1>3, ReportRows DEF StepFailedEvent
<1>4. CASE Drain
  BY <1>4, ReportRows DEF Drain
<1>5. CASE \E parked \in PendingOrAwaiting : HandlerPrepares(parked)
  <2>1. PICK parked \in PendingOrAwaiting : HandlerPrepares(parked)
    BY <1>5
  <2>2. at \in StepIds
    BY <2>1, AtStep DEF HandlerPrepares, StepPcs
  <2>3. steps'[at].status = parked
    BY <2>1, <2>2 DEF HandlerPrepares, TypeOK, StepRows
  <2> QED BY <2>1, <2>3, ReportRows
    DEF HandlerPrepares, PendingOrAwaiting, SkippableWithoutGrant
<1>6. CASE Reread
  BY <1>6, ReportRows DEF Reread, SkippableWithoutGrant
<1>7. CASE Loop /\ ~FindFailed /\ ~Drain
  <2>1. NothingToReport(pc', after')
    BY <1>7 DEF Loop, TakeCursor, ClaimRun, ReadRun, ReadSteps, RefuseUnrecognized,
      FailQuietly, NothingToReport
  <2> QED BY <2>1, ReportRows DEF NothingToReport
<1>8. CASE Gates
  <2>1. NothingToReport(pc', after')
    BY <1>8 DEF Gates, SkipUngranted, RefuseRunning, SkipEvent, PauseForBudget,
      BudgetPause, BudgetPauseEvent, Park, ParkEvent, StillAwaiting, ParkRun,
      AutoApprove, AutoApproveEvent, PassGate, PassApproved, NothingToReport
  <2> QED BY <2>1, ReportRows DEF NothingToReport
<1>9. CASE RunEnds
  <2>1. NothingToReport(pc', after')
    BY <1>9 DEF RunEnds, FailRun, FailRunStatus, FinalRead, CompleteRun,
      RunCompletedEvent, CallHook, NothingToReport
  <2> QED BY <2>1, ReportRows DEF NothingToReport
<1>10. CASE /\ RunStep /\ ~FailStep /\ ~StepFailedEvent /\ ~Reread
            /\ ~(\E parked \in PendingOrAwaiting : HandlerPrepares(parked))
  <2>1. NothingToReport(pc', after')
    BY <1>10 DEF RunStep, EnterRunning, EntryRefused, StartedEvent, Invoke,
      HandlerAnswers, HandlerReturns, HandlerInapplicable, HandlerRaises,
      OutcomeUnknown, CompleteStep, StepCompletedEvent, SkipStep, NothingToReport
  <2> QED BY <2>1, ReportRows DEF NothingToReport
<1> QED BY <1>1, <1>2, <1>3, <1>4, <1>5, <1>6, <1>7, <1>8, <1>9, <1>10 DEF Engine

LEMMA HostFailureReports ==
  ASSUME TypeOK, NEW s \in StepIds, HostFailure(s), ReportInv, Outside
  PROVE  \A t \in StepIds : steps'[t].status = "failed" => owed'[t] \/ FailureReported(t)'
<1>1. \A t \in StepIds : FailureReported(t) => FailureReported(t)'
  BY LogGrows DEF Next
<1>2. SetStep(s, "failed") /\ owed' = [owed EXCEPT ![s] = ~FailureReported(s)]
  BY DEF HostFailure
<1>3. \A t \in StepIds : steps'[t].status = (IF t = s THEN "failed" ELSE steps[t].status)
  BY <1>2 DEF TypeOK, StepRows
<1>4. \A t \in StepIds : owed'[t] = (IF t = s THEN ~FailureReported(s) ELSE owed[t])
  BY <1>2 DEF TypeOK
<1> QED BY <1>1, <1>3, <1>4 DEF ReportInv

LEMMA ReportOutside == ASSUME TypeOK, ReportInv, Outside PROVE ReportInv'
<1> USE DEF ReportInv
<1>0. /\ \A s \in StepIds : FailureReported(s) => FailureReported(s)'
      /\ UNCHANGED <<pc, after, at>>
  BY LogGrows, OutsideLeavesDrive DEF Next
<1>1. CASE Resume \/ Reopen \/ (\E o \in Options : SetOptions(o))
           \/ (\E s \in StopStatuses : UserStops(s))
  BY <1>0, <1>1 DEF Resume, Reopen, SetOptions, UserStops
<1>2. ASSUME NEW s \in StepIds, Approve(s) PROVE ReportInv'
  <2>1. \A t \in StepIds : steps'[t].status = (IF t = s THEN "approved" ELSE steps[t].status)
    BY <1>2 DEF Approve, TypeOK, StepRows
  <2>2. pc = "reread" => at \in StepIds
    BY AtStep DEF StepPcs
  <2> QED BY <1>0, <1>2, <2>1, <2>2 DEF Approve, SkippableWithoutGrant
<1>3. ASSUME NEW s \in StepIds, Rerun(s) \/ Reclaim(s) PROVE ReportInv'
  <2>1. \A t \in StepIds : steps'[t].status = (IF t = s THEN "pending" ELSE steps[t].status)
    <3>1. SetStep(s, "pending")
      BY <1>3 DEF Rerun, Reclaim
    <3> QED BY <3>1 DEF TypeOK, StepRows
  <2> QED BY <1>0, <1>3, <2>1 DEF Rerun, Reclaim, TypeOK
<1>4. ASSUME NEW s \in StepIds, HostFails(s) PROVE ReportInv'
  BY <1>0, <1>4, HostFailureReports DEF HostFails
<1>5. ASSUME NEW s \in StepIds, NEW result \in Results \ {"none"}, Reconcile(s, result)
      PROVE  ReportInv'
  <2>1. CASE result = "failed"
    BY <1>0, <1>5, <2>1, HostFailureReports DEF Reconcile
  <2>2. CASE result # "failed"
    <3>1. \A t \in StepIds : steps'[t].status = (IF t = s THEN result ELSE steps[t].status)
      BY <1>5, <2>2, SetStepStatus DEF Reconcile
    <3> QED BY <1>0, <1>5, <2>2, <3>1 DEF Reconcile
  <2> QED BY <2>1, <2>2
<1>6. ASSUME NEW s \in StepIds, NEW type \in ExtensionTypes, HandlerAppends(s, type)
      PROVE  ReportInv'
  <2>1. \A t \in StepIds : steps'[t].status = (IF t = s THEN "pending" ELSE steps[t].status)
    BY <1>6 DEF HandlerAppends, TypeOK
  <2> QED BY <1>0, <1>6, <2>1 DEF HandlerAppends
<1> QED BY <1>1, <1>2, <1>3, <1>4, <1>5, <1>6 DEF Outside

LEMMA ReportStep == ASSUME TypeOK, PassInv, ReportInv, [Next]_vars PROVE ReportInv'
<1>1. CASE StartDrive \/ EndEarly
  BY <1>1, LogGrows DEF StartDrive, EndEarly, ReportInv
<1>2. CASE UNCHANGED vars
  BY <1>2, LogGrows DEF vars, ReportInv
<1> QED BY <1>1, <1>2, ReportEngine, ReportOutside DEF Next

\* A drive appends agent.run.failed only for a failure whose report is owed.
THEOREM ReportsAreOwedHolds == Spec => []ReportsAreOwed
<1>1. Init => ReportInv
  BY RowsAssumption DEF Init, ReportInv, Absent
<1>2. ReportInv => ReportsAreOwed
  BY DEF ReportInv, ReportsAreOwed
<1>3. TypeOK /\ PassInv /\ ReportInv /\ [Next]_vars => ReportInv'
  BY ReportStep
<1> QED BY <1>1, <1>2, <1>3, RecordHolds, PTL DEF Spec

-----------------------------------------------------------------------------
\* What a drive caused is in the log, and one that ended on its own has streamed
\* it.
StreamInv ==
  /\ own <= Len(log)
  /\ outcome = "stopped" => pc = "idle" /\ own <= cursor

LEMMA StreamEngine == ASSUME TypeOK, StreamInv, Engine PROVE StreamInv'
<1> USE DEF StreamInv
<1>0. log \in Seq(Events) /\ cursor \in Nat /\ own \in Nat
  BY DEF TypeOK
<1>1. CASE Drain
  BY <1>0, <1>1 DEF Drain
<1>2. CASE Loop /\ ~Drain
  BY <1>0, <1>2 DEF Loop, TakeCursor, ClaimRun, ReadRun, ReadSteps,
    RefuseUnrecognized, Deciding, FindFailed, FailQuietly
<1>3. CASE Gates
  BY <1>0, <1>3 DEF Gates, SkipUngranted, RefuseRunning, SkipEvent, PauseForBudget,
    BudgetPause, BudgetPauseEvent, Park, ParkEvent, StillAwaiting, ParkRun,
    AutoApprove, AutoApproveEvent, PassGate, PassApproved, ReachesApproval, Deciding
<1>4. CASE RunStep
  BY <1>0, <1>4 DEF RunStep, EnterRunning, EntryRefused, StartedEvent, Invoke,
    HandlerAnswers, HandlerReturns, HandlerInapplicable, HandlerRaises,
    OutcomeUnknown, HandlerPrepares, Reread, CompleteStep, StepCompletedEvent,
    SkipStep, FailStep, StepFailedEvent
<1>5. CASE RunEnds
  BY <1>0, <1>5 DEF RunEnds, FailRun, FailRunStatus, FinalRead, CompleteRun,
    RunCompletedEvent, CallHook
<1> QED BY <1>1, <1>2, <1>3, <1>4, <1>5 DEF Engine

LEMMA StreamStep == ASSUME TypeOK, StreamInv, [Next]_vars PROVE StreamInv'
<1> USE DEF StreamInv
<1>0. log \in Seq(Events) /\ cursor \in Nat /\ own \in Nat
  BY DEF TypeOK
<1>1. CASE StartDrive \/ EndEarly
  BY <1>0, <1>1 DEF StartDrive, EndEarly
<1>2. CASE Outside
  <2>1. UNCHANGED <<own, cursor>> /\ (log' = log \/ \E e : log' = Append(log, e))
    BY <1>2 DEF Outside, Resume, Reopen, SetOptions, UserStops, Approve, Rerun,
      Reclaim, HostFails, HostFailure, Reconcile, HandlerAppends
  <2> QED BY <1>0, <1>2, <2>1, OutsideLeavesDrive
<1>3. CASE UNCHANGED vars
  BY <1>3 DEF vars
<1> QED BY <1>1, <1>2, <1>3, StreamEngine DEF Next

\* Every event a drive caused, the run-end hook's included, was streamed when it
\* ended on its own.
THEOREM StreamCompleteHolds == Spec => []StreamComplete
<1>1. Init => StreamInv
  BY DEF Init, StreamInv
<1>2. StreamInv => StreamComplete
  BY DEF StreamInv, StreamComplete
<1>3. TypeOK /\ StreamInv /\ [Next]_vars => StreamInv'
  BY StreamStep
<1> QED BY <1>1, <1>2, <1>3, RecordHolds, PTL DEF Spec

-----------------------------------------------------------------------------
\* Where a drive is on its way to ending the run as failed.
Failing(p, a) ==
  p \in {"failedEvent", "failRun", "failStatus", "failQuietly"} \/ (p = "drain" /\ a = "failRun")

\* Once a drive is about to fail the run, the step it fails for is failed; a run
\* that is failed has nothing left but its last writes; and what the plan does
\* not hold was never cleared.
FailedInv ==
  /\ Failing(pc, after) => at \in StepIds /\ steps[at].status = "failed"
  /\ status = "failed" => pc \in {"idle", "hook"} \/ (pc = "drain" /\ after = "idle")
  /\ \A s \in StepIds : steps[s].status = Absent => ~warrant[s]

LEMMA FailedLoop == ASSUME TypeOK, PassInv, FailedInv, Loop PROVE FailedInv'
<1> USE DEF FailedInv, Failing
<1>1. CASE FindFailed
  <2>1. at \in StepIds /\ steps[at].status = "failed"
    BY <1>1, DecidingReads DEF FindFailed
  <2> QED BY <1>1, <2>1 DEF FindFailed, Deciding
<1>2. CASE Drain
  BY <1>2 DEF Drain
<1>3. CASE ReadRun \/ ReadSteps \/ TakeCursor \/ ClaimRun
  BY <1>3 DEF ReadRun, ReadSteps, TakeCursor, ClaimRun
<1>4. CASE RefuseUnrecognized \/ FailQuietly
  BY <1>4 DEF RefuseUnrecognized, FailQuietly, Deciding
<1> QED BY <1>1, <1>2, <1>3, <1>4 DEF Loop

LEMMA FailedGates == ASSUME TypeOK, PassInv, FailedInv, Gates PROVE FailedInv'
<1> USE DEF FailedInv, Failing
<1>1. CASE SkipUngranted \/ Park
  <2>1. at \in StepIds
    BY <1>1, DecidingReads DEF SkipUngranted, Park, ReachesApproval
  <2>2. \A s \in StepIds : steps'[s].status = Absent => steps[s].status = Absent
    <3>1. CASE SkipUngranted
      BY <2>1, <3>1, SetStepStatus DEF SkipUngranted, Absent
    <3>2. CASE Park
      BY <2>1, <3>2, SetStepStatus DEF Park, Absent
    <3> QED BY <1>1, <3>1, <3>2
  <2> QED BY <1>1, <2>2 DEF SkipUngranted, Park, Deciding, ReachesApproval
<1>2. CASE AutoApprove \/ PassGate
  <2>1. at \in StepIds /\ steps[at].status # Absent
    BY <1>2, DecidingReads DEF AutoApprove, PassGate, ReachesApproval, PendingOrAwaiting, Absent
  <2>2. \A s \in StepIds : s # at => warrant'[s] = warrant[s]
    BY <1>2, <2>1 DEF AutoApprove, PassGate, WarrantByRules, TypeOK
  <2>3. \A s \in StepIds : steps'[s].status = Absent => steps[s].status = Absent
    <3>1. CASE AutoApprove
      BY <2>1, <3>1, SetStepStatus DEF AutoApprove, Absent
    <3>2. CASE PassGate
      BY <3>2 DEF PassGate
    <3> QED BY <1>2, <3>1, <3>2
  <2>4. steps'[at].status # Absent
    BY <2>1, <2>3
  <2> QED BY <1>2, <2>1, <2>2, <2>3, <2>4 DEF AutoApprove, PassGate, Deciding, ReachesApproval
<1>3. CASE Gates /\ ~SkipUngranted /\ ~Park /\ ~AutoApprove /\ ~PassGate
  BY <1>3 DEF Gates, RefuseRunning, SkipEvent, PauseForBudget, BudgetPause,
    BudgetPauseEvent, ParkEvent, StillAwaiting, ParkRun, AutoApproveEvent,
    PassApproved, ReachesApproval, Deciding
<1> QED BY <1>1, <1>2, <1>3 DEF Gates

LEMMA FailedRunStep == ASSUME TypeOK, RecordInv, FailedInv, RunStep PROVE FailedInv'
<1> USE DEF FailedInv, Failing
<1>1. CASE EnterRunning \/ CompleteStep \/ SkipStep \/ FailStep
  <2>1. at \in StepIds
    BY <1>1, AtStep DEF EnterRunning, CompleteStep, SkipStep, FailStep, StepPcs
  <2>2. \E x \in {"running", "completed", "skipped", "failed"} :
          SetStep(at, x) /\ (FailStep => x = "failed")
    BY <1>1 DEF EnterRunning, CompleteStep, SkipStep, FailStep
  <2>3. \A s \in StepIds : steps'[s].status = Absent => steps[s].status = Absent
    BY <2>1, <2>2 DEF TypeOK, StepRows, Absent
  <2>4. FailStep => steps'[at].status = "failed"
    BY <2>1 DEF FailStep, TypeOK, StepRows
  <2> QED BY <1>1, <2>1, <2>3, <2>4 DEF EnterRunning, CompleteStep, SkipStep, FailStep
<1>2. CASE \E parked \in PendingOrAwaiting : HandlerPrepares(parked)
  <2>1. PICK parked \in PendingOrAwaiting : HandlerPrepares(parked)
    BY <1>2
  <2>2. at \in StepIds
    BY <2>1, AtStep DEF HandlerPrepares, StepPcs
  <2>3. \A s \in StepIds : steps'[s].status = Absent => steps[s].status = Absent
    BY <2>1, <2>2 DEF HandlerPrepares, PendingOrAwaiting, TypeOK, StepRows, Absent
  <2> QED BY <2>1, <2>2, <2>3 DEF HandlerPrepares, NewGeneration, TypeOK
<1>3. CASE Reread
  BY <1>3, AtStep DEF Reread, StepPcs
<1>4. CASE StepFailedEvent
  BY <1>4 DEF StepFailedEvent
<1>5. CASE EntryRefused \/ StartedEvent \/ Invoke \/ HandlerReturns \/ HandlerInapplicable
           \/ HandlerRaises \/ OutcomeUnknown \/ StepCompletedEvent
  BY <1>5 DEF EntryRefused, StartedEvent, Invoke, HandlerAnswers, HandlerReturns,
    HandlerInapplicable, HandlerRaises, OutcomeUnknown, StepCompletedEvent
<1> QED BY <1>1, <1>2, <1>3, <1>4, <1>5 DEF RunStep

LEMMA FailedRunEnds == ASSUME FailedInv, RunEnds PROVE FailedInv'
BY DEF FailedInv, Failing, RunEnds, FailRun, FailRunStatus, FinalRead, CompleteRun,
  RunCompletedEvent, CallHook

LEMMA FailedOutside == ASSUME TypeOK, RecordInv, FailedInv, Outside PROVE FailedInv'
<1>0. UNCHANGED <<pc, after, at>>
  BY OutsideLeavesDrive
<1>1. CASE Resume \/ Reopen \/ (\E o \in Options : SetOptions(o))
           \/ (\E s \in StopStatuses : UserStops(s))
  BY <1>0, <1>1 DEF Resume, Reopen, SetOptions, UserStops, StopStatuses, FailedInv, Failing
<1>2. ASSUME NEW s \in StepIds, Approve(s) PROVE FailedInv'
  <2>1. SetStep(s, "approved") /\ steps[s].status = "awaiting_approval"
    BY <1>2 DEF Approve
  <2>2. \A t \in StepIds : steps'[t].status = IF t = s THEN "approved" ELSE steps[t].status
    BY <2>1 DEF TypeOK, StepRows
  <2>3. \A t \in StepIds : t # s => warrant'[t] = warrant[t]
    BY <1>2 DEF Approve, TypeOK
  <2>4. status' = status
    BY <1>2 DEF Approve
  <2> QED BY <1>0, <2>1, <2>2, <2>3, <2>4 DEF FailedInv, Failing, Absent
<1>3. ASSUME NEW s \in StepIds, Rerun(s) PROVE FailedInv'
  <2>1. SetStep(s, "pending") /\ pc = "idle" /\ status' = "planned"
    BY <1>3 DEF Rerun
  <2>2. \A t \in StepIds : steps'[t].status = IF t = s THEN "pending" ELSE steps[t].status
    BY <2>1 DEF TypeOK, StepRows
  <2>3. \A t \in StepIds : t # s => warrant'[t] = warrant[t]
    BY <1>3 DEF Rerun, NewGeneration, TypeOK
  <2> QED BY <1>0, <2>1, <2>2, <2>3 DEF FailedInv, Failing, Absent
<1>4. ASSUME NEW s \in StepIds, Reclaim(s) PROVE FailedInv'
  <2>1. SetStep(s, "pending") /\ pc = "idle" /\ status' = status
    BY <1>4 DEF Reclaim
  <2>2. \A t \in StepIds : steps'[t].status = IF t = s THEN "pending" ELSE steps[t].status
    BY <2>1 DEF TypeOK, StepRows
  <2>3. \A t \in StepIds : t # s => warrant'[t] = warrant[t]
    BY <1>4 DEF Reclaim, TypeOK
  <2> QED BY <1>0, <2>1, <2>2, <2>3 DEF FailedInv, Failing, Absent
<1>5. ASSUME NEW s \in StepIds, HostFails(s) PROVE FailedInv'
  <2>1. SetStep(s, "failed") /\ status' = status /\ warrant' = warrant
    BY <1>5 DEF HostFails, HostFailure
  <2>2. \A t \in StepIds : steps'[t].status = IF t = s THEN "failed" ELSE steps[t].status
    BY <2>1 DEF TypeOK, StepRows
  <2> QED BY <1>0, <2>1, <2>2 DEF FailedInv, Failing, Absent
<1>6. ASSUME NEW s \in StepIds, NEW result \in Results \ {"none"}, Reconcile(s, result)
      PROVE  FailedInv'
  <2>1. SetStep(s, result) /\ pc = "idle" /\ status' = status /\ warrant' = warrant
    BY <1>6 DEF Reconcile, HostFailure
  <2>2. \A t \in StepIds : steps'[t].status = IF t = s THEN result ELSE steps[t].status
    BY <2>1 DEF TypeOK, StepRows
  <2> QED BY <1>0, <2>1, <2>2 DEF FailedInv, Failing, Results, Absent
<1>7. ASSUME NEW s \in StepIds, NEW type \in ExtensionTypes, HandlerAppends(s, type)
      PROVE  FailedInv'
  <2>1. \A t \in StepIds : steps'[t].status = IF t = s THEN "pending" ELSE steps[t].status
    BY <1>7 DEF HandlerAppends, TypeOK
  <2>2. steps[s].status = Absent /\ status' = status /\ warrant' = warrant
    BY <1>7 DEF HandlerAppends
  <2> QED BY <1>0, <1>7, <2>1, <2>2 DEF HandlerAppends, FailedInv, Failing, Absent
<1> QED BY <1>1, <1>2, <1>3, <1>4, <1>5, <1>6, <1>7 DEF Outside

LEMMA FailedStep ==
  ASSUME TypeOK, PassInv, RecordInv, FailedInv, [Next]_vars PROVE FailedInv'
<1>1. CASE StartDrive \/ EndEarly
  BY <1>1 DEF StartDrive, EndEarly, FailedInv, Failing, TERMINAL_RUN_STATUSES
<1>2. CASE UNCHANGED vars
  BY <1>2 DEF vars, FailedInv, Failing
<1> QED BY <1>1, <1>2, FailedLoop, FailedGates, FailedRunStep, FailedRunEnds, FailedOutside
  DEF Next, Engine

LEMMA FailedInit == ASSUME Init PROVE FailedInv
BY DEF Init, FailedInv, Failing

LEMMA FailedHolds == Spec => []FailedInv
<1>1. TypeOK /\ PassInv /\ RecordInv /\ FailedInv /\ [Next]_vars => FailedInv'
  BY FailedStep
<1> QED BY <1>1, FailedInit, RecordHolds, PTL DEF Spec

-----------------------------------------------------------------------------
\* A stop that lands where the drive reads the run again lasts until it does, or
\* until the step in hand fails the run.
Stoppable ==
  {"enter", "startedEvent", "invoke", "working", "reread", "completeStep",
   "completedEvent", "skipStep", "skipEvent", "failStep", "failedEvent", "failRun",
   "failStatus", "drain", "readRun", "idle"}

HeldInv ==
  userStop = TRUE =>
    \/ status \in StopStatuses /\ (pc \in Stoppable \/ (pc = "decide" /\ at = 0))
    \/ status = "failed" /\ (pc \in {"hook", "idle"} \/ (pc = "drain" /\ after = "idle"))

LEMMA HeldEngine == ASSUME TypeOK, HeldInv, Engine PROVE HeldInv'
<1> USE DEF HeldInv, Stoppable, StopStatuses
<1>0. UNCHANGED userStop
  BY DEF Engine, Loop, TakeCursor, ClaimRun, Drain, ReadRun, ReadSteps,
    RefuseUnrecognized, FindFailed, FailQuietly, Gates, SkipUngranted, RefuseRunning,
    SkipEvent, PauseForBudget, BudgetPause, BudgetPauseEvent, Park, ParkEvent,
    StillAwaiting, ParkRun, AutoApprove, AutoApproveEvent, PassGate, PassApproved,
    RunStep, EnterRunning, EntryRefused, StartedEvent, Invoke, HandlerAnswers,
    HandlerReturns, HandlerInapplicable, HandlerRaises, OutcomeUnknown,
    HandlerPrepares, Reread, CompleteStep, StepCompletedEvent, SkipStep, FailStep,
    StepFailedEvent, RunEnds, FailRun, FailRunStatus, FinalRead, CompleteRun,
    RunCompletedEvent, CallHook
<1>1. CASE Loop
  BY <1>0, <1>1 DEF Loop, TakeCursor, ClaimRun, Drain, ReadRun, ReadSteps,
    RefuseUnrecognized, FindFailed, FailQuietly, Deciding
<1>2. CASE Gates
  BY <1>0, <1>2 DEF Gates, SkipUngranted, RefuseRunning, SkipEvent, PauseForBudget,
    BudgetPause, BudgetPauseEvent, Park, ParkEvent, StillAwaiting, ParkRun,
    AutoApprove, AutoApproveEvent, PassGate, PassApproved, ReachesApproval, Deciding
<1>3. CASE \E parked \in PendingOrAwaiting : HandlerPrepares(parked)
  BY <1>0, <1>3 DEF HandlerPrepares
<1>4. CASE RunStep /\ ~(\E parked \in PendingOrAwaiting : HandlerPrepares(parked))
  BY <1>0, <1>4 DEF RunStep, EnterRunning, EntryRefused, StartedEvent, Invoke,
    HandlerAnswers, HandlerReturns, HandlerInapplicable, HandlerRaises,
    OutcomeUnknown, Reread, CompleteStep, StepCompletedEvent, SkipStep, FailStep,
    StepFailedEvent
<1>5. CASE RunEnds
  BY <1>0, <1>5 DEF RunEnds, FailRun, FailRunStatus, FinalRead, CompleteRun,
    RunCompletedEvent, CallHook
<1> QED BY <1>1, <1>2, <1>3, <1>4, <1>5 DEF Engine

LEMMA HeldOutside == ASSUME TypeOK, HeldInv, Outside PROVE HeldInv'
<1>0. UNCHANGED <<pc, after, at>>
  BY OutsideLeavesDrive
<1>1. CASE \E s \in StopStatuses : UserStops(s)
  <2>1. status' \in StopStatuses /\ status # "failed"
    BY <1>1 DEF UserStops, StopStatuses
  <2>2. CASE ReadsRunAgain
    BY <1>0, <2>1, <2>2 DEF ReadsRunAgain, HeldInv, Stoppable
  <2>3. CASE ~ReadsRunAgain
    <3>1. userStop' = TRUE => userStop = TRUE
      BY <1>1, <2>3, Zenon DEF UserStops
    <3> QED BY <1>0, <2>1, <3>1 DEF HeldInv
  <2> QED BY <2>2, <2>3
<1>2. CASE Resume \/ Reopen \/ \E s \in StepIds : Rerun(s)
  BY <1>2 DEF Resume, Reopen, Rerun, HeldInv
<1>3. CASE ~(\E s \in StopStatuses : UserStops(s)) /\ ~Resume /\ ~Reopen
           /\ ~(\E s \in StepIds : Rerun(s))
  <2>1. UNCHANGED <<status, userStop>>
    BY <1>3 DEF Outside, SetOptions, Approve, Reclaim, HostFails, Reconcile, HandlerAppends
  <2> QED BY <1>0, <2>1 DEF HeldInv
<1> QED BY <1>1, <1>2, <1>3

LEMMA HeldStep == ASSUME TypeOK, HeldInv, [Next]_vars PROVE HeldInv'
<1>1. CASE StartDrive \/ EndEarly
  BY <1>1 DEF StartDrive, EndEarly, HeldInv, Stoppable
<1>2. CASE UNCHANGED vars
  BY <1>2 DEF vars, HeldInv
<1> QED BY <1>1, <1>2, HeldEngine, HeldOutside DEF Next

\* A pause or cancel that lands where the drive reads the run again is there when
\* the drive has ended, unless the step in hand failed the run.
THEOREM UserStopHeldHolds == Spec => []UserStopHeld
<1>1. Init => HeldInv
  BY DEF Init, HeldInv
<1>2. TypeOK /\ HeldInv => UserStopHeld
  BY DEF TypeOK, HeldInv, UserStopHeld, Stoppable
<1>3. TypeOK /\ HeldInv /\ [Next]_vars => HeldInv'
  BY HeldStep
<1> QED BY <1>1, <1>2, <1>3, TypeCorrect, PTL DEF Spec

-----------------------------------------------------------------------------
\* What an event adds to the reports in the log.
LEMMA NoNewReport ==
  ASSUME TypeOK, NEW e, e.type # "RUN_FAILED", log' = Append(log, e) \/ log' = log
  PROVE  \A s \in StepIds : FailureReported(s)' => FailureReported(s)
<1>1. log \in Seq(Events)
  BY DEF TypeOK
<1> QED BY <1>1 DEF FailureReported

LEMMA OneNewReport ==
  ASSUME TypeOK, NEW t \in StepIds,
         log' = Append(log, [type |-> "RUN_FAILED", step |-> t]) \/ log' = log
  PROVE  \A s \in StepIds : s # t => (FailureReported(s)' => FailureReported(s))
<1>1. log \in Seq(Events)
  BY DEF TypeOK
<1> QED BY <1>1 DEF FailureReported

LEMMA SameReports ==
  ASSUME log' = log PROVE \A s \in StepIds : FailureReported(s)' <=> FailureReported(s)
BY DEF FailureReported

\* The engine's events but one are no reports.
LEMMA QuietEngine ==
  ASSUME TypeOK, Engine, ~FailRun
  PROVE  \A s \in StepIds : FailureReported(s)' => FailureReported(s)
<1>1. log' = log \/ \E e : e.type # "RUN_FAILED" /\ log' = Append(log, e)
  BY DEF Engine, Loop, TakeCursor, ClaimRun, Drain, ReadRun, ReadSteps,
    RefuseUnrecognized, FindFailed, FailQuietly, Gates, SkipUngranted, RefuseRunning,
    SkipEvent, PauseForBudget, BudgetPause, BudgetPauseEvent, Park, ParkEvent,
    StillAwaiting, ParkRun, AutoApprove, AutoApproveEvent, PassGate, PassApproved,
    RunStep, EnterRunning, EntryRefused, StartedEvent, Invoke, HandlerAnswers,
    HandlerReturns, HandlerInapplicable, HandlerRaises, OutcomeUnknown,
    HandlerPrepares, Reread, CompleteStep, StepCompletedEvent, SkipStep, FailStep,
    StepFailedEvent, RunEnds, FailRunStatus, FinalRead, CompleteRun,
    RunCompletedEvent, CallHook
<1> QED BY <1>1, NoNewReport, SameReports

-----------------------------------------------------------------------------
\* Without deaths: only the step a drive is about to report is both in the log,
\* from an earlier failure, and owed.
Reporting(p, a) == p \in {"failedEvent", "failRun"} \/ (p = "drain" /\ a = "failRun")

Unanswered(s) == owed[s] = TRUE /\ FailureReported(s)

SilentInv ==
  /\ moves["end"] = 0
  /\ \A s \in StepIds : Unanswered(s) => s = at /\ Reporting(pc, after)
  /\ pc = "failQuietly" => at \in StepIds /\ FailureReported(at)

LEMMA NoDeaths ==
  ASSUME TypeOK, moves["end"] = 0, [Next]_vars PROVE moves'["end"] = 0 /\ ~EndEarly
<1>0. moves \in [Moves -> Nat]
  BY DEF TypeOK
<1>1. moves' = moves \/ \E kind \in Moves : Spend(kind)
  <2>1. CASE Engine
    BY <2>1 DEF Engine, Loop, TakeCursor, ClaimRun, Drain, ReadRun, ReadSteps,
      RefuseUnrecognized, FindFailed, FailQuietly, Gates, SkipUngranted, RefuseRunning,
      SkipEvent, PauseForBudget, BudgetPause, BudgetPauseEvent, Park, ParkEvent,
      StillAwaiting, ParkRun, AutoApprove, AutoApproveEvent, PassGate, PassApproved,
      RunStep, EnterRunning, EntryRefused, StartedEvent, Invoke, HandlerAnswers,
      HandlerReturns, HandlerInapplicable, HandlerRaises, OutcomeUnknown,
      HandlerPrepares, Reread, CompleteStep, StepCompletedEvent, SkipStep, FailStep,
      StepFailedEvent, RunEnds, FailRun, FailRunStatus, FinalRead, CompleteRun,
      RunCompletedEvent, CallHook, Moves
  <2>2. CASE StartDrive \/ EndEarly
    BY <2>2 DEF StartDrive, EndEarly, Moves
  <2>3. CASE Outside
    BY <2>3 DEF Outside, Resume, Reopen, SetOptions, UserStops, Approve, Rerun, Reclaim,
      HostFails, Reconcile, HandlerAppends, Moves
  <2>4. CASE UNCHANGED vars
    BY <2>4 DEF vars
  <2> QED BY <2>1, <2>2, <2>3, <2>4 DEF Next
<1>2. moves'["end"] = 0
  <2>1. ASSUME NEW kind \in Moves, Spend(kind) PROVE moves'["end"] = 0
    <3>1. moves[kind] > 0 /\ moves' = [moves EXCEPT ![kind] = @ - 1]
      BY <2>1 DEF Spend
    <3>2. kind # "end" /\ "end" \in Moves
      BY <3>1 DEF Moves
    <3> QED BY <1>0, <3>1, <3>2
  <2> QED BY <1>1, <2>1
<1>3. ~EndEarly
  BY DEF EndEarly
<1> QED BY <1>2, <1>3

LEMMA SilentEngine == ASSUME TypeOK, PassInv, SilentInv, Engine PROVE SilentInv'
<1> USE DEF SilentInv, Unanswered
<1>0. moves'["end"] = 0
  BY NoDeaths DEF Next
<1>1. CASE FindFailed
  <2>1. at \in StepIds
    BY <1>1, DecidingReads DEF FindFailed
  <2>2. \A s \in StepIds : FailureReported(s)' <=> FailureReported(s)
    BY <1>1, SameReports DEF FindFailed
  <2>3. ~Reporting(pc, after)
    BY <1>1 DEF FindFailed, Deciding, Reporting
  <2> QED BY <1>0, <1>1, <2>1, <2>2, <2>3 DEF FindFailed
<1>2. CASE FailStep
  <2>1. at \in StepIds
    BY <1>2, AtStep DEF FailStep, StepPcs
  <2>2. \A s \in StepIds : FailureReported(s)' <=> FailureReported(s)
    BY <1>2, SameReports DEF FailStep
  <2>3. \A s \in StepIds : s # at => owed'[s] = owed[s]
    BY <1>2, <2>1 DEF FailStep, TypeOK
  <2> QED BY <1>0, <1>2, <2>1, <2>2, <2>3 DEF FailStep, Reporting
<1>3. CASE FailRun
  <2>1. at \in StepIds
    BY <1>3, AtStep DEF FailRun, StepPcs
  <2>2. \A s \in StepIds : s # at => (FailureReported(s)' => FailureReported(s))
    BY <1>3, <2>1, OneNewReport DEF FailRun
  <2>3. \A s \in StepIds : owed'[s] = IF s = at THEN FALSE ELSE owed[s]
    BY <1>3, <2>1 DEF FailRun, TypeOK
  <2> QED BY <1>0, <1>3, <2>1, <2>2, <2>3 DEF FailRun
<1>4. CASE StepFailedEvent \/ Drain
  <2>1. \A s \in StepIds : FailureReported(s)' => FailureReported(s)
    BY <1>4, QuietEngine DEF Engine, Loop, RunStep, StepFailedEvent, Drain, FailRun
  <2>2. owed' = owed /\ pc' # "failQuietly"
    BY <1>4 DEF StepFailedEvent, Drain
  <2>3. Reporting(pc, after) => at' = at /\ Reporting(pc', after')
    BY <1>4 DEF StepFailedEvent, Drain, Reporting
  <2> QED BY <1>0, <2>1, <2>2, <2>3
<1>5. CASE ~FindFailed /\ ~FailStep /\ ~FailRun /\ ~StepFailedEvent /\ ~Drain
  <2>1. \A s \in StepIds : FailureReported(s)' => FailureReported(s)
    BY <1>5, QuietEngine
  <2>2. owed' = owed /\ pc' # "failQuietly" /\ ~Reporting(pc, after)
    BY <1>5 DEF Engine, Loop, TakeCursor, ClaimRun, ReadRun, ReadSteps, Deciding,
      RefuseUnrecognized, FailQuietly, Gates, SkipUngranted, RefuseRunning,
      SkipEvent, PauseForBudget, BudgetPause, BudgetPauseEvent, Park, ParkEvent,
      StillAwaiting, ParkRun, AutoApprove, AutoApproveEvent, PassGate, PassApproved,
      ReachesApproval, RunStep, EnterRunning, EntryRefused, StartedEvent, Invoke,
      HandlerAnswers, HandlerReturns, HandlerInapplicable, HandlerRaises,
      OutcomeUnknown, HandlerPrepares, NewGeneration, Reread, CompleteStep,
      StepCompletedEvent, SkipStep, RunEnds, FailRunStatus, FinalRead, CompleteRun,
      RunCompletedEvent, CallHook, Reporting, WarrantByRules
  <2> QED BY <1>0, <2>1, <2>2
<1> QED BY <1>1, <1>2, <1>3, <1>4, <1>5

LEMMA HostFailureSilent ==
  ASSUME TypeOK, NEW s \in StepIds, HostFailure(s),
         \A t \in StepIds : ~Unanswered(t)
  PROVE  \A t \in StepIds : ~Unanswered(t)'
<1> USE DEF Unanswered
<1>1. \A t \in StepIds : owed'[t] = (IF t = s THEN ~FailureReported(s) ELSE owed[t])
  BY DEF HostFailure, TypeOK
<1>2. \A t \in StepIds : t # s => (FailureReported(t)' => FailureReported(t))
  BY OneNewReport DEF HostFailure
<1>3. ~FailureReported(s) => ~FailureReported(s)'
  BY SameReports DEF HostFailure
<1> QED BY <1>1, <1>2, <1>3

LEMMA SilentOutside == ASSUME TypeOK, SilentInv, Outside PROVE SilentInv'
<1> USE DEF SilentInv
<1>0. /\ moves'["end"] = 0
      /\ UNCHANGED <<pc, after, at>>
      /\ \A s \in StepIds : FailureReported(s) => FailureReported(s)'
  BY NoDeaths, OutsideLeavesDrive, LogGrows DEF Next
<1>1. ASSUME NEW s \in StepIds, HostFails(s) PROVE SilentInv'
  <2>1. HostFailure(s) /\ ~Reporting(pc, after)
    BY <1>1 DEF HostFails, Reporting
  <2> QED BY <1>0, <2>1, HostFailureSilent
<1>2. ASSUME NEW s \in StepIds, Reconcile(s, "failed") PROVE SilentInv'
  <2>1. HostFailure(s) /\ ~Reporting(pc, after)
    BY <1>2 DEF Reconcile, Reporting
  <2> QED BY <1>0, <2>1, HostFailureSilent
<1>3. ASSUME NEW s \in StepIds, Rerun(s) PROVE SilentInv'
  <2>1. \A t \in StepIds : FailureReported(t)' <=> FailureReported(t)
    BY <1>3, SameReports DEF Rerun
  <2>2. \A t \in StepIds : owed'[t] = IF t = s THEN FALSE ELSE owed[t]
    BY <1>3 DEF Rerun, TypeOK
  <2> QED BY <1>0, <2>1, <2>2 DEF Unanswered
<1>4. CASE ~(\E s \in StepIds : HostFails(s) \/ Reconcile(s, "failed") \/ Rerun(s))
  <2>1. owed' = owed /\ (log' = log \/ \E e : e.type # "RUN_FAILED" /\ log' = Append(log, e))
    BY <1>4 DEF Outside, Resume, Reopen, SetOptions, UserStops, Approve, Reclaim,
      Reconcile, HandlerAppends
  <2>2. \A s \in StepIds : FailureReported(s)' => FailureReported(s)
    BY <2>1, NoNewReport, SameReports
  <2> QED BY <1>0, <2>1, <2>2 DEF Unanswered
<1> QED BY <1>1, <1>2, <1>3, <1>4

LEMMA SilentStep == ASSUME TypeOK, PassInv, SilentInv, [Next]_vars PROVE SilentInv'
<1>1. moves'["end"] = 0 /\ ~EndEarly
  BY NoDeaths DEF SilentInv
<1>2. CASE StartDrive
  <2>1. \A s \in StepIds : FailureReported(s)' <=> FailureReported(s)
    BY <1>2, SameReports DEF StartDrive
  <2> QED BY <1>1, <1>2, <2>1 DEF StartDrive, SilentInv, Unanswered, Reporting
<1>3. CASE UNCHANGED vars
  <2>1. \A s \in StepIds : FailureReported(s)' <=> FailureReported(s)
    BY <1>3, SameReports DEF vars
  <2> QED BY <1>1, <1>3, <2>1 DEF vars, SilentInv, Unanswered
<1> QED BY <1>1, <1>2, <1>3, SilentEngine, SilentOutside DEF Next

\* While no drive dies, a run is never ended as failed with the report of the
\* failure still owed.
THEOREM NeverSilentHolds ==
  ASSUME Limits["end"] = 0 PROVE Spec => []NeverSilent
<1>1. Init => SilentInv
  BY DEF Init, SilentInv, Unanswered
<1>2. SilentInv => NeverSilent
  BY DEF SilentInv, NeverSilent, Unanswered, Reporting
<1>3. TypeOK /\ PassInv /\ SilentInv /\ [Next]_vars => SilentInv'
  BY SilentStep
<1> QED BY <1>1, <1>2, <1>3, RecordHolds, PTL DEF Spec
-----------------------------------------------------------------------------
\* Without deaths the trail shows why a gated step proceeds.  A step that is
\* approved has its approval in the log, or the drive in hand is about to write
\* it; a step that runs unentered is the one in hand; and what the drive enters
\* it approved, if the step is gated.
ApprovalLogged(s) == \E i \in DOMAIN log : log[i] = [type |-> "APPROVAL_GRANTED", step |-> s]

Gated == steps[at].flagged \/ (cur.policy # NULL /\ Tier(steps[at].type) = HARD_GATED)

Starting == {"startedEvent", "invoke"}

TrailInv ==
  /\ moves["end"] = 0
  /\ \A s \in StepIds :
       /\ steps[s].status = "approved" => ApprovalLogged(s) \/ (pc = "autoEvent" /\ s = at)
       /\ steps[s].status = "running" /\ entries[s] = 0 =>
            pc \in Starting \cup {"failStep"} /\ s = at
  /\ pc = "enter" => steps[at].status = "running" \/ (Gated => ApprovalLogged(at))
  /\ pc \in Starting => (Gated => ApprovalLogged(at))

LEMMA ApprovalsStay ==
  ASSUME TypeOK, [Next]_vars
  PROVE  \A s \in StepIds : ApprovalLogged(s) => ApprovalLogged(s)'
<1>1. log \in Seq(Events)
  BY DEF TypeOK
<1>2. log' = log \/ \E e : log' = Append(log, e)
  BY LogExtended
<1> QED BY <1>1, <1>2 DEF ApprovalLogged

LEMMA ApprovalNow ==
  ASSUME TypeOK, NEW s, log' = Append(log, [type |-> "APPROVAL_GRANTED", step |-> s])
  PROVE  ApprovalLogged(s)'
<1>1. log \in Seq(Events)
  BY DEF TypeOK
<1>2. Len(log) + 1 \in DOMAIN log' /\ log'[Len(log) + 1] = [type |-> "APPROVAL_GRANTED", step |-> s]
  BY <1>1
<1> QED BY <1>2 DEF ApprovalLogged

\* No row but one that is written becomes approved or running.
LEMMA NoneStarts ==
  ASSUME TypeOK, NEW s \in StepIds, NEW x, x \notin {"approved", "running"}, SetStep(s, x)
  PROVE  \A t \in StepIds : steps'[t].status \in {"approved", "running"} =>
           steps'[t].status = steps[t].status /\ t # s
<1>1. \A t \in StepIds :
        /\ steps'[t].status = (IF t = s THEN x ELSE steps[t].status)
        /\ steps'[t].type = steps[t].type /\ steps'[t].flagged = steps[t].flagged
  BY SetStepStatus
<1> QED BY <1>1

\* A gated step passes the gate only with an approval to record.
LEMMA GatedIsRecorded ==
  ASSUME ~MustStop, ~RecordsApproval PROVE ~Gated
BY DEF MustStop, ResolveGate, RequiresStop, RecordsApproval, Gated, HARD_GATED, REVIEW_RECOMMENDED

\* The gates: what is decided about a step of this pass.
LEMMA TrailGates ==
  ASSUME TypeOK, PassInv, TrailInv, AutoApprove \/ PassGate \/ PassApproved
  PROVE  TrailInv'
<1>0. /\ moves'["end"] = 0 /\ at \in StepIds /\ pc = "decide"
      /\ \A s \in StepIds : ApprovalLogged(s) => ApprovalLogged(s)'
  <2>1. Next
    BY DEF Next, Engine, Gates
  <2>2. at \in StepIds /\ pc = "decide"
    BY DecidingReads DEF AutoApprove, PassGate, PassApproved, ReachesApproval, Deciding, TypeOK
  <2> QED BY <2>1, <2>2, NoDeaths, ApprovalsStay DEF TrailInv
<1>1. CASE AutoApprove
  <2>1. \A s \in StepIds :
          /\ steps'[s].status = (IF s = at THEN "approved" ELSE steps[s].status)
          /\ steps'[s].type = steps[s].type /\ steps'[s].flagged = steps[s].flagged
    BY <1>0, <1>1, SetStepStatus DEF AutoApprove
  <2>2. pc' = "autoEvent" /\ at' = at /\ entries' = entries
    BY <1>1 DEF AutoApprove
  <2> QED BY <1>0, <2>1, <2>2 DEF TrailInv, Starting
<1>2. CASE PassGate
  <2>1. pc' = "enter" /\ UNCHANGED <<steps, entries, at, cur>> /\ ~Gated
    BY <1>2, GatedIsRecorded DEF PassGate
  <2>2. ~Gated'
    BY <2>1 DEF Gated
  <2> QED BY <1>0, <2>1, <2>2 DEF TrailInv, Starting
<1>3. CASE PassApproved
  <2>1. pc' = "enter" /\ UNCHANGED <<steps, entries, at, cur>>
    BY <1>3 DEF PassApproved
  <2>2. steps[at].status \in {"approved", "running"}
    BY <1>3, DecidingReads DEF PassApproved, ReachesApproval
  <2>3. steps[at].status = "approved" => ApprovalLogged(at)'
    BY <1>0, <2>1 DEF TrailInv
  <2> QED BY <1>0, <2>1, <2>2, <2>3 DEF TrailInv, Starting
<1> QED BY <1>1, <1>2, <1>3

\* From the approval to the call of the handler.
LEMMA TrailRuns ==
  ASSUME TypeOK, TrailInv, AutoApproveEvent \/ EnterRunning \/ StartedEvent \/ Invoke
  PROVE  TrailInv'
<1>0. /\ moves'["end"] = 0 /\ at \in StepIds
      /\ \A s \in StepIds : ApprovalLogged(s) => ApprovalLogged(s)'
  <2>1. Next
    BY DEF Next, Engine, Gates, RunStep
  <2>2. at \in StepIds
    BY AtStep DEF AutoApproveEvent, EnterRunning, StartedEvent, Invoke, StepPcs
  <2> QED BY <2>1, <2>2, NoDeaths, ApprovalsStay DEF TrailInv
<1>1. CASE AutoApproveEvent
  <2>1. pc = "autoEvent" /\ pc' = "enter" /\ UNCHANGED <<steps, entries, at, cur>>
    BY <1>1 DEF AutoApproveEvent
  <2>2. ApprovalLogged(at)'
    BY <1>1, ApprovalNow DEF AutoApproveEvent
  <2> QED BY <1>0, <2>1, <2>2 DEF TrailInv, Starting
<1>2. CASE EnterRunning
  <2>1. \A s \in StepIds :
          /\ steps'[s].status = (IF s = at THEN "running" ELSE steps[s].status)
          /\ steps'[s].type = steps[s].type /\ steps'[s].flagged = steps[s].flagged
    BY <1>0, <1>2, SetStepStatus DEF EnterRunning
  <2>2. pc = "enter" /\ pc' = "startedEvent" /\ UNCHANGED <<entries, at, cur>>
    BY <1>2 DEF EnterRunning
  <2>3. Gated' => Gated
    BY <1>0, <2>1, <2>2 DEF Gated
  <2>4. steps[at].status # "running"
    <3>1. entries[at] \in Nat
      BY <1>0 DEF TypeOK
    <3>2. steps[at].status = "running" => entries[at] = 0
      BY <1>2, <3>1 DEF EnterRunning, HostRefusesEntry
    <3> QED BY <1>0, <2>2, <3>2 DEF TrailInv, Starting
  <2> QED BY <1>0, <2>1, <2>2, <2>3, <2>4 DEF TrailInv, Starting
<1>3. CASE StartedEvent
  <2>1. pc \in Starting /\ pc' \in {"invoke", "failStep"} /\ UNCHANGED <<steps, entries, at, cur>>
    BY <1>3 DEF StartedEvent, Starting
  <2>2. Gated' => Gated
    BY <2>1 DEF Gated
  <2> QED BY <1>0, <2>1, <2>2 DEF TrailInv, Starting
<1>4. CASE Invoke
  <2>1. /\ pc \in Starting /\ pc' = "working" /\ UNCHANGED <<steps, at, cur>>
        /\ \A s \in StepIds : entries'[s] = IF s = at THEN entries[at] + 1 ELSE entries[s]
        /\ entries[at] + 1 # 0
    BY <1>0, <1>4 DEF Invoke, Starting, TypeOK
  <2> QED BY <1>0, <2>1 DEF TrailInv, Starting
<1> QED BY <1>1, <1>2, <1>3, <1>4

\* Everything else a drive does approves and starts nothing.
LEMMA TrailOthers ==
  ASSUME TypeOK, PassInv, TrailInv, Engine,
         ~(AutoApprove \/ PassGate \/ PassApproved),
         ~(AutoApproveEvent \/ EnterRunning \/ StartedEvent \/ Invoke)
  PROVE  TrailInv'
<1>0. /\ moves'["end"] = 0
      /\ \A s \in StepIds : ApprovalLogged(s) => ApprovalLogged(s)'
  BY NoDeaths, ApprovalsStay DEF Next, TrailInv
<1>1. /\ pc \notin Starting \cup {"autoEvent"} /\ pc' \notin Starting \cup {"autoEvent", "enter"}
      /\ pc = "failStep" => FailStep
  <2>1. CASE Loop
    BY <2>1 DEF Loop, TakeCursor, ClaimRun, Drain, ReadRun, ReadSteps, Deciding,
      RefuseUnrecognized, FindFailed, FailQuietly, Starting
  <2>2. CASE Gates
    BY <2>2 DEF Gates, SkipUngranted, RefuseRunning, SkipEvent, PauseForBudget, Deciding,
      BudgetPause, BudgetPauseEvent, Park, ParkEvent, StillAwaiting, ParkRun, Starting,
      ReachesApproval
  <2>3. CASE RunStep
    BY <2>3 DEF RunStep, EntryRefused, HandlerAnswers, HandlerReturns, HandlerInapplicable,
      HandlerRaises, OutcomeUnknown, HandlerPrepares, Reread, CompleteStep,
      StepCompletedEvent, SkipStep, FailStep, StepFailedEvent, Starting
  <2>4. CASE RunEnds
    BY <2>4 DEF RunEnds, FailRun, FailRunStatus, FinalRead, CompleteRun,
      RunCompletedEvent, CallHook, Starting
  <2> QED BY <2>1, <2>2, <2>3, <2>4 DEF Engine
<1>2. CASE SkipUngranted \/ Park \/ CompleteStep \/ SkipStep \/ FailStep
  <2>1. PICK x \in AnyStatus \ {"approved", "running"} : SetStep(at, x)
    BY <1>2 DEF SkipUngranted, Park, CompleteStep, SkipStep, FailStep, AnyStatus, STEP_STATUSES
  <2>2. at \in StepIds /\ entries' = entries
    BY <1>2, AtStep, DecidingReads DEF SkipUngranted, Park, ReachesApproval, CompleteStep,
      SkipStep, FailStep, StepPcs
  <2>3. \A s \in StepIds : steps'[s].status \in {"approved", "running"} =>
          steps'[s].status = steps[s].status /\ s # at
    BY <2>1, <2>2, NoneStarts
  <2> QED BY <1>0, <1>1, <2>2, <2>3 DEF TrailInv, Starting
<1>3. ASSUME NEW parked \in PendingOrAwaiting, HandlerPrepares(parked) PROVE TrailInv'
  <2>1. at \in StepIds /\ pc = "working"
    BY <1>3, AtStep DEF HandlerPrepares, StepPcs
  <2>2. \A s \in StepIds : steps'[s].status \in {"approved", "running"} =>
          steps'[s].status = steps[s].status /\ s # at
    BY <1>3, <2>1, NoneStarts DEF HandlerPrepares, PendingOrAwaiting
  <2>3. \A s \in StepIds : s # at => entries'[s] = entries[s]
    BY <1>3, <2>1 DEF HandlerPrepares, NewGeneration, TypeOK
  <2> QED BY <1>0, <1>1, <2>1, <2>2, <2>3 DEF TrailInv, Starting
<1>4. CASE UNCHANGED <<steps, entries>> /\ ~FailStep
  BY <1>0, <1>1, <1>4 DEF TrailInv
<1>5. CASE ~Writers \/ HandlerReturns \/ HandlerInapplicable \/ HandlerRaises
  <2>1. UNCHANGED <<steps, entries>>
    BY <1>5, OthersKeepRecord DEF HandlerReturns, HandlerInapplicable, HandlerRaises,
      HandlerAnswers
  <2>2. ~FailStep
    BY <1>5 DEF Writers, HandlerReturns, HandlerInapplicable, HandlerRaises, HandlerAnswers,
      FailStep
  <2> QED BY <1>4, <2>1, <2>2
<1> QED BY <1>2, <1>3, <1>5 DEF Writers

LEMMA TrailOutside == ASSUME TypeOK, TrailInv, Outside PROVE TrailInv'
<1>0. /\ moves'["end"] = 0
      /\ \A s \in StepIds : ApprovalLogged(s) => ApprovalLogged(s)'
  BY NoDeaths, ApprovalsStay DEF Next, TrailInv
<1>1. UNCHANGED <<pc, at, cur>>
  BY OutsideLeavesDrive
<1>2. pc \in Starting \cup {"enter"} => at \in StepIds
  BY AtStep DEF Starting, StepPcs
<1>3. ASSUME NEW s \in StepIds, Approve(s) PROVE TrailInv'
  <2>1. \A t \in StepIds :
          /\ steps'[t].status = (IF t = s THEN "approved" ELSE steps[t].status)
          /\ steps'[t].type = steps[t].type /\ steps'[t].flagged = steps[t].flagged
    BY <1>3, SetStepStatus DEF Approve
  <2>2. ApprovalLogged(s)' /\ entries' = entries
    BY <1>3, ApprovalNow DEF Approve
  <2>3. at \in StepIds => (Gated' => Gated)
    BY <1>1, <2>1 DEF Gated
  <2> QED BY <1>0, <1>1, <1>2, <2>1, <2>2, <2>3 DEF TrailInv
<1>4. ASSUME NEW s \in StepIds,
             \/ Rerun(s) \/ Reclaim(s) \/ HostFails(s)
             \/ \E result \in Results \ {"none"} : Reconcile(s, result)
      PROVE  TrailInv'
  <2>1. pc \in {"idle", "working"}
    BY <1>4 DEF Rerun, Reclaim, HostFails, Reconcile
  <2>2. PICK x \in AnyStatus \ {"approved", "running"} : SetStep(s, x)
    BY <1>4 DEF Rerun, Reclaim, HostFails, HostFailure, Reconcile, Results, AnyStatus, STEP_STATUSES
  <2>3. \A t \in StepIds : steps'[t].status \in {"approved", "running"} =>
          steps'[t].status = steps[t].status /\ t # s
    BY <2>2, NoneStarts
  <2>4. \A t \in StepIds : t # s => entries'[t] = entries[t]
    BY <1>4 DEF Rerun, NewGeneration, Reclaim, HostFails, Reconcile, TypeOK
  <2> QED BY <1>0, <1>1, <2>1, <2>3, <2>4 DEF TrailInv, Starting
<1>5. ASSUME NEW s \in StepIds, NEW type \in ExtensionTypes, HandlerAppends(s, type)
      PROVE  TrailInv'
  <2>1. pc = "working" /\ entries' = entries
    BY <1>5 DEF HandlerAppends
  <2>2. \A t \in StepIds : steps'[t].status \in {"approved", "running"} =>
          steps'[t].status = steps[t].status
    BY <1>5 DEF HandlerAppends, TypeOK, StepRows
  <2> QED BY <1>0, <1>1, <2>1, <2>2 DEF TrailInv, Starting
<1>6. CASE UNCHANGED <<steps, entries>>
  <2>1. Gated' <=> Gated
    BY <1>1, <1>6 DEF Gated
  <2> QED BY <1>0, <1>1, <1>2, <1>6, <2>1 DEF TrailInv
<1>7. Resume \/ Reopen \/ (\E o \in Options : SetOptions(o)) \/ (\E s \in StopStatuses : UserStops(s))
        => UNCHANGED <<steps, entries>>
  BY DEF Resume, Reopen, SetOptions, UserStops
<1> QED BY <1>3, <1>4, <1>5, <1>6, <1>7 DEF Outside

LEMMA TrailStep == ASSUME TypeOK, PassInv, TrailInv, [Next]_vars PROVE TrailInv'
<1>1. moves'["end"] = 0 /\ ~EndEarly
  BY NoDeaths DEF TrailInv
<1>2. CASE StartDrive
  <2>1. \A s \in StepIds : ApprovalLogged(s)' <=> ApprovalLogged(s)
    BY <1>2 DEF StartDrive, ApprovalLogged
  <2> QED BY <1>1, <1>2, <2>1 DEF StartDrive, TrailInv, Starting
<1>3. CASE UNCHANGED vars
  <2>1. /\ \A s \in StepIds : ApprovalLogged(s)' <=> ApprovalLogged(s)
        /\ ApprovalLogged(at)' <=> ApprovalLogged(at)
        /\ Gated' <=> Gated
    BY <1>3 DEF vars, ApprovalLogged, Gated
  <2> QED BY <1>1, <1>3, <2>1 DEF vars, TrailInv
<1> QED BY <1>1, <1>2, <1>3, TrailGates, TrailRuns, TrailOthers, TrailOutside DEF Next

\* While no drive dies, a gated step that proceeds has its approval in the log
\* (engine.py, "the trail shows WHY it proceeded"); the trail_gap run shows what
\* one death does.
THEOREM TrailShowsWhyHolds ==
  ASSUME Limits["end"] = 0 PROVE Spec => []TrailShowsWhy
<1>1. Init => TrailInv
  <2> SUFFICES ASSUME Init PROVE TrailInv
    OBVIOUS
  <2>1. \A s \in StepIds : steps[s].status \notin {"approved", "running"}
    BY RowsAssumption DEF Init, Absent
  <2> QED BY <2>1 DEF Init, TrailInv, Starting
<1>2. TrailInv => TrailShowsWhy
  BY DEF TrailInv, TrailShowsWhy, Gated, Starting, ApprovalLogged
<1>3. TypeOK /\ PassInv /\ TrailInv /\ [Next]_vars => TrailInv'
  BY TrailStep
<1> QED BY <1>1, <1>2, <1>3, RecordHolds, PTL DEF Spec

-----------------------------------------------------------------------------
\* A drive about to write "failed" finds the report in the log; a failed run has
\* a reported failure; a completed one is told as such, or is about to be, unless
\* the drive died between the two.
ToldInv ==
  /\ pc \in {"failStatus", "failQuietly"} => FailureReported(at)
  /\ status = "failed" =>
       \E s \in StepIds : steps[s].status = "failed" /\ FailureReported(s)
  /\ status = "completed" =>
       \/ pc = "completeEvent"
       \/ CompletionTold
       \/ pc = "idle" /\ outcome = "early"

LEMMA ToldStays ==
  ASSUME TypeOK, CompletionTold, NEW e, e.step = 0, log' = Append(log, e) \/ log' = log
  PROVE  CompletionTold'
<1>1. log \in Seq(Events)
  BY DEF TypeOK
<1>2. CASE log' = log
  BY <1>2 DEF CompletionTold
<1>3. CASE log' = Append(log, e)
  <2>1. PICK i \in DOMAIN log : /\ log[i].type = "RUN_COMPLETED"
                                /\ \A j \in DOMAIN log : j > i => log[j].step = 0
    BY DEF CompletionTold
  <2>2. i \in DOMAIN log' /\ log'[i].type = "RUN_COMPLETED"
    BY <1>1, <1>3, <2>1
  <2>3. \A j \in DOMAIN log' : j > i => log'[j].step = 0
    BY <1>1, <1>3, <2>1
  <2> QED BY <2>2, <2>3 DEF CompletionTold
<1> QED BY <1>2, <1>3

LEMMA ToldNow ==
  ASSUME TypeOK, log' = Append(log, [type |-> "RUN_COMPLETED", step |-> 0])
  PROVE  CompletionTold'
<1>1. log \in Seq(Events)
  BY DEF TypeOK
<1>2. /\ Len(log) + 1 \in DOMAIN log'
      /\ log'[Len(log) + 1].type = "RUN_COMPLETED"
      /\ \A j \in DOMAIN log' : ~(j > Len(log) + 1)
  BY <1>1
<1> QED BY <1>2 DEF CompletionTold

LEMMA ToldEngine ==
  ASSUME TypeOK, DoneInv, FailedInv, ToldInv, Engine PROVE ToldInv'
<1> USE DEF ToldInv
<1>0. \A s \in StepIds : FailureReported(s) => FailureReported(s)'
  BY LogGrows DEF Next
<1>1. CASE FailRun
  <2>1. FailureReported(at)' /\ at' = at /\ pc' = "failStatus"
    BY <1>1, ReportLogged, AtStep DEF FailRun, StepPcs
  <2>2. status' = status /\ status \notin {"failed", "completed"}
    BY <1>1 DEF FailRun, FailedInv, DoneInv
  <2> QED BY <2>1, <2>2 DEF FailureReported
<1>2. CASE FailQuietly \/ FailRunStatus
  <2>1. at \in StepIds /\ steps[at].status = "failed" /\ FailureReported(at)
    BY <1>2 DEF FailQuietly, FailRunStatus, FailedInv, Failing
  <2>2. steps' = steps /\ status' = "failed" /\ pc' \in {"drain", "hook"}
    BY <1>2 DEF FailQuietly, FailRunStatus
  <2> QED BY <1>0, <2>1, <2>2
<1>3. CASE FindFailed
  <2>1. status' = status /\ status \notin {"failed", "completed"} /\ at' = at
    BY <1>3 DEF FindFailed, Deciding, FailedInv, DoneInv
  <2>2. pc' = "failQuietly" => FailureReported(at)
    BY <1>3 DEF FindFailed
  <2>3. FailureReported(at)' <=> FailureReported(at)
    BY <1>3, <2>1 DEF FindFailed, FailureReported
  <2> QED BY <1>3, <2>1, <2>2, <2>3 DEF FindFailed
<1>4. CASE CompleteRun
  BY <1>4 DEF CompleteRun
<1>5. CASE RunCompletedEvent
  <2>1. CompletionTold' /\ pc' = "hook" /\ steps' = steps /\ status' = status
    BY <1>5, ToldNow DEF RunCompletedEvent
  <2> QED BY <1>0, <2>1
<1>6. CASE CallHook
  <2>1. CompletionTold => CompletionTold'
    BY <1>6, ToldStays DEF CallHook
  <2>2. pc = "hook" /\ pc' = "drain" /\ steps' = steps /\ status' = status
    BY <1>6 DEF CallHook
  <2> QED BY <1>0, <2>1, <2>2
<1>7. CASE Drain
  <2>1. CompletionTold => CompletionTold'
    BY <1>7 DEF Drain, CompletionTold
  <2>2. /\ pc = "drain" /\ pc' \notin {"failStatus", "failQuietly"}
        /\ steps' = steps /\ status' = status
    BY <1>7 DEF Drain
  <2> QED BY <1>0, <2>1, <2>2
<1>8. CASE ~FailRun /\ ~FailQuietly /\ ~FailRunStatus /\ ~FindFailed /\ ~CompleteRun
           /\ ~RunCompletedEvent /\ ~CallHook /\ ~Drain
  <2>1. /\ pc \notin {"idle", "drain", "hook", "completeEvent", "failStatus", "failQuietly"}
        /\ pc' \notin {"failStatus", "failQuietly"}
        /\ status' \in {status, "running", "paused", "awaiting_approval"}
    BY <1>8 DEF Engine, Loop, TakeCursor, ClaimRun, ReadRun, ReadSteps, Deciding,
      RefuseUnrecognized, Gates, SkipUngranted, RefuseRunning, SkipEvent,
      PauseForBudget, BudgetPause, BudgetPauseEvent, Park, ParkEvent, StillAwaiting,
      ParkRun, AutoApprove, AutoApproveEvent, PassGate, PassApproved,
      ReachesApproval, RunStep, EnterRunning, EntryRefused, StartedEvent, Invoke,
      HandlerAnswers, HandlerReturns, HandlerInapplicable, HandlerRaises,
      OutcomeUnknown, HandlerPrepares, Reread, CompleteStep, StepCompletedEvent,
      SkipStep, FailStep, StepFailedEvent, RunEnds, FinalRead
  <2>2. status' \notin {"failed", "completed"}
    BY <2>1 DEF FailedInv, DoneInv
  <2> QED BY <2>1, <2>2
<1> QED BY <1>1, <1>2, <1>3, <1>4, <1>5, <1>6, <1>7, <1>8

LEMMA FailedStays ==
  ASSUME TypeOK, Outside, status' = "failed", NEW s \in StepIds, steps[s].status = "failed"
  PROVE  steps'[s].status = "failed"
<1>1. ASSUME NEW t \in StepIds, NEW x, SetStep(t, x), steps[t].status # "failed"
      PROVE  steps'[s].status = "failed"
  BY <1>1 DEF TypeOK
<1>2. ~Rerun(s) /\ \A t \in StepIds : ~Rerun(t)
  BY DEF Rerun
<1>3. ASSUME NEW t \in StepIds,
             Approve(t) \/ Reclaim(t) \/ HostFails(t)
               \/ \E result \in Results \ {"none"} : Reconcile(t, result)
      PROVE  steps'[s].status = "failed"
  <2>1. steps[t].status # "failed" /\ \E x : SetStep(t, x)
    BY <1>3 DEF Approve, Reclaim, HostFails, HostFailure, Reconcile
  <2> QED BY <1>1, <2>1
<1>4. ASSUME NEW t \in StepIds, NEW type \in ExtensionTypes, HandlerAppends(t, type)
      PROVE  steps'[s].status = "failed"
  BY <1>4 DEF HandlerAppends, TypeOK, Absent
<1>5. CASE Resume \/ Reopen \/ (\E o \in Options : SetOptions(o))
           \/ (\E x \in StopStatuses : UserStops(x))
  BY <1>5 DEF Resume, Reopen, SetOptions, UserStops
<1> QED BY <1>2, <1>3, <1>4, <1>5 DEF Outside

LEMMA ToldOutside ==
  ASSUME TypeOK, DoneInv, FailedInv, ToldInv, Outside PROVE ToldInv'
<1>0. /\ UNCHANGED <<pc, after, at, outcome>>
      /\ \A s \in StepIds : FailureReported(s) => FailureReported(s)'
  BY LogGrows DEF Next, Outside, Resume, Reopen, SetOptions, UserStops, Approve, Rerun,
    Reclaim, HostFails, Reconcile, HandlerAppends
<1>1. pc' \in {"failStatus", "failQuietly"} => FailureReported(at)'
  BY <1>0 DEF ToldInv, FailedInv, Failing
<1>2. ASSUME status' = "failed"
      PROVE  \E s \in StepIds : steps'[s].status = "failed" /\ FailureReported(s)'
  <2>1. status = "failed"
    BY <1>2 DEF Outside, Resume, Reopen, SetOptions, UserStops, StopStatuses, Approve,
      Rerun, Reclaim, HostFails, Reconcile, HandlerAppends
  <2> QED BY <1>0, <1>2, <2>1, FailedStays DEF ToldInv
<1>3. ASSUME status' = "completed"
      PROVE  pc' = "completeEvent" \/ CompletionTold' \/ (pc' = "idle" /\ outcome' = "early")
  <2>1. status = "completed"
    BY <1>3 DEF Outside, Resume, Reopen, SetOptions, UserStops, StopStatuses, Approve,
      Rerun, Reclaim, HostFails, Reconcile, HandlerAppends
  <2>2. \A s \in StepIds : steps[s].status \in Closed \cup {Absent}
    BY <2>1 DEF DoneInv
  <2>3. log' = log
    BY <1>3, <2>1, <2>2 DEF Outside, Resume, Reopen, SetOptions, UserStops, Approve,
      Rerun, Reclaim, HostFails, Reconcile, HandlerAppends, DoneInv, Closed, Absent
  <2> QED BY <1>0, <2>1, <2>3 DEF ToldInv, CompletionTold
<1> QED BY <1>1, <1>2, <1>3 DEF ToldInv

LEMMA ToldStep ==
  ASSUME TypeOK, DoneInv, FailedInv, ToldInv, [Next]_vars PROVE ToldInv'
<1>1. CASE StartDrive
  BY <1>1 DEF StartDrive, ToldInv, TERMINAL_RUN_STATUSES
<1>2. CASE EndEarly
  <2>1. UNCHANGED <<status, steps, log>> /\ pc' = "idle" /\ outcome' = "early"
    BY <1>2 DEF EndEarly
  <2>2. \A s \in StepIds : FailureReported(s)' <=> FailureReported(s)
    BY <2>1, SameReports
  <2> QED BY <2>1, <2>2 DEF ToldInv
<1>3. CASE UNCHANGED vars
  <2>1. FailureReported(at)' <=> FailureReported(at)
    BY <1>3 DEF vars, FailureReported
  <2>2. \A s \in StepIds : FailureReported(s)' <=> FailureReported(s)
    BY <1>3, SameReports DEF vars
  <2> QED BY <1>3, <2>1, <2>2 DEF vars, ToldInv, CompletionTold
<1> QED BY <1>1, <1>2, <1>3, ToldEngine, ToldOutside DEF Next

\* What a drive that ended on its own left behind is told in the log.
THEOREM EndIsReportedHolds == Spec => []EndIsReported
<1>1. Init => DoneInv /\ ToldInv
  BY DEF Init, DoneInv, ToldInv
<1>2. ToldInv => EndIsReported
  BY DEF ToldInv, EndIsReported
<1>3. TypeOK /\ PassInv /\ DoneInv /\ [Next]_vars => DoneInv'
  BY DoneStep
<1>4. TypeOK /\ DoneInv /\ FailedInv /\ ToldInv /\ [Next]_vars => ToldInv'
  BY ToldStep
<1> QED BY <1>1, <1>2, <1>3, <1>4, FailedHolds, RecordHolds, PTL DEF Spec

-----------------------------------------------------------------------------
\* Everything the refinement rests on.
IInv == TypeOK /\ PassInv /\ RecordInv /\ DoneInv /\ GateInv /\ FailedInv

LEMMA IInvInit == ASSUME Init PROVE IInv
<1>1. DoneInv /\ GateInv
  BY DEF Init, DoneInv, GateInv, PastRead, PastGrant, PastGates
<1> QED BY <1>1, TypeInit, RecordInit, FailedInit DEF IInv

LEMMA IInvStep == ASSUME IInv, [Next]_vars PROVE IInv'
BY TypeStep, PassStep, RecordStep, DoneStep, GateStep, FailedStep DEF IInv

-----------------------------------------------------------------------------
\* The refinement mapping, row by row.
OpenStatuses == AnyStatus \ (Closed \cup {Absent, "failed"})

LEMMA PhaseCases ==
  /\ \A e, c : Phase(Absent, e, c) = "none" /\ Phase("failed", e, c) = "failed"
  /\ \A e, c : \A st \in Closed : Phase(st, e, c) = "done"
  /\ \A st \in OpenStatuses :
       /\ Phase(st, 0, TRUE) = "cleared" /\ Phase(st, 0, FALSE) = "open"
       /\ \A c : Phase(st, 1, c) = "entered"
BY DEF Phase, Closed, Absent, OpenStatuses

\* What the host's record and the row say of a step together.
LEMMA PhaseKinds ==
  ASSUME TypeOK, RecordInv, NEW s \in StepIds
  PROVE  /\ steps[s].status \in OpenStatuses =>
              PhaseOf(s) = IF entries[s] = 1 THEN "entered"
                           ELSE IF warrant[s] THEN "cleared" ELSE "open"
         /\ steps[s].status \in Closed => PhaseOf(s) = "done"
         /\ steps[s].status = "failed" => PhaseOf(s) = "failed"
         /\ steps[s].status = Absent => PhaseOf(s) = "none"
<1>1. entries[s] \in {0, 1} /\ warrant[s] \in BOOLEAN
  BY DEF TypeOK, RecordInv, Recorded
<1>2. PhaseOf(s) = Phase(steps[s].status, entries[s], warrant[s])
  BY DEF PhaseOf
<1>3. CASE steps[s].status \in OpenStatuses
  <2>1. ASSUME entries[s] = 1 PROVE PhaseOf(s) = "entered"
    BY <1>2, <1>3, <2>1 DEF Phase, OpenStatuses
  <2>2. ASSUME entries[s] = 0, warrant[s] PROVE PhaseOf(s) = "cleared"
    BY <1>2, <1>3, <2>2 DEF Phase, OpenStatuses
  <2>3. ASSUME entries[s] = 0, ~warrant[s] PROVE PhaseOf(s) = "open"
    BY <1>2, <1>3, <2>3 DEF Phase, OpenStatuses
  <2>4. steps[s].status \notin Closed \cup {"failed", Absent}
    BY <1>3 DEF OpenStatuses
  <2> QED BY <1>1, <1>3, <2>1, <2>2, <2>3, <2>4
<1>4. CASE steps[s].status \notin OpenStatuses
  BY <1>2, <1>4, PhaseCases DEF Closed, Absent
<1> QED BY <1>3, <1>4

LEMMA PhaseNow ==
  ASSUME NEW s \in StepIds
  PROVE  PhaseOf(s)' = Phase(steps'[s].status, entries'[s], warrant'[s])
BY DEF PhaseOf

LEMMA SamePhase ==
  ASSUME NEW s \in StepIds, steps'[s].status = steps[s].status,
         entries'[s] = entries[s], warrant'[s] = warrant[s]
  PROVE  PhaseOf(s)' = PhaseOf(s)
BY DEF PhaseOf

\* Among the open statuses the row does not matter, only the record does.
LEMMA StillOpen ==
  ASSUME NEW s \in StepIds, steps[s].status \in OpenStatuses,
         steps'[s].status \in OpenStatuses, entries' = entries, warrant' = warrant
  PROVE  PhaseOf(s)' = PhaseOf(s)
<1>1. \A a, b \in OpenStatuses : \A e, c : Phase(a, e, c) = Phase(b, e, c)
  BY DEF Phase, OpenStatuses
<1> QED BY <1>1 DEF PhaseOf

LEMMA SameResult == ASSUME status' = status PROVE ResultOf' = ResultOf
BY DEF ResultOf

LEMMA Stutters ==
  ASSUME \A s \in StepIds : PhaseOf(s)' = PhaseOf(s), ResultOf' = ResultOf
  PROVE  UNCHANGED Promise!gvars
BY DEF Promise!gvars, StepIds

LEMMA Moves1 ==
  ASSUME NEW s \in StepIds, NEW p, PhaseOf(s)' = p,
         \A t \in StepIds : t # s => PhaseOf(t)' = PhaseOf(t)
  PROVE  Promise!Move(s, p)
BY DEF Promise!Move, StepIds

\* A step that leaves the rows, the records and the result alone.
LEMMA RowsAlone ==
  ASSUME UNCHANGED <<steps, entries, warrant>>, ResultOf' = ResultOf
  PROVE  UNCHANGED Promise!gvars
BY SamePhase, Stutters

-----------------------------------------------------------------------------
\* One step of the plan moves, by an action that sets its status to x.
LEMMA OthersStay ==
  ASSUME TypeOK, NEW s \in StepIds, NEW x, SetStep(s, x),
         \A t \in StepIds : t # s => entries'[t] = entries[t] /\ warrant'[t] = warrant[t]
  PROVE  /\ steps'[s].status = x
         /\ \A t \in StepIds : t # s => PhaseOf(t)' = PhaseOf(t)
<1>1. \A t \in StepIds : steps'[t].status = IF t = s THEN x ELSE steps[t].status
  BY DEF TypeOK, StepRows
<1> QED BY <1>1, SamePhase

\* Settling the step in hand, or one the host settles.
LEMMA Settles ==
  ASSUME TypeOK, RecordInv, NEW s \in StepIds, NEW x \in Closed \cup {"failed"},
         SetStep(s, x), steps[s].status \in OpenStatuses,
         UNCHANGED <<entries, warrant, status>>
  PROVE  Promise!Next
<1> DEFINE p == IF x = "failed" THEN "failed" ELSE "done"
<1>1. steps'[s].status = x /\ \A t \in StepIds : t # s => PhaseOf(t)' = PhaseOf(t)
  BY OthersStay
<1>2. PhaseOf(s)' = p
  BY <1>1 DEF PhaseOf, Phase, Closed, Absent
<1>3. PhaseOf(s) \in {"open", "cleared", "entered"}
  BY PhaseKinds
<1>4. Promise!Settle(s, p)
  BY <1>1, <1>2, <1>3, Moves1, SameResult DEF Promise!Settle
<1> QED BY <1>4 DEF Promise!Next

\* A step that is given a warrant, with or without a change of status.
LEMMA Clears ==
  ASSUME TypeOK, RecordInv, NEW s \in StepIds,
         steps[s].status \in OpenStatuses, entries[s] = 0,
         steps'[s].status \in OpenStatuses, entries' = entries, warrant'[s],
         \A t \in StepIds : t # s => PhaseOf(t)' = PhaseOf(t), ResultOf' = ResultOf
  PROVE  [Promise!Next]_(Promise!gvars)
<1>1. PhaseOf(s)' = "cleared"
  <2>1. PhaseOf(s)' = Phase(steps'[s].status, 0, TRUE)
    <3>1. warrant'[s] = TRUE
      OBVIOUS
    <3>2. entries'[s] = 0
      OBVIOUS
    <3> QED BY <3>1, <3>2, PhaseNow
  <2> QED BY <2>1, PhaseCases
<1>2. CASE warrant[s]
  <2>1. PhaseOf(s) = "cleared"
    BY <1>2, PhaseKinds
  <2> QED BY <1>1, <2>1, Stutters
<1>3. CASE ~warrant[s]
  <2>1. PhaseOf(s) = "open"
    BY <1>3, PhaseKinds
  <2>2. Promise!Clear(s)
    BY <1>1, <2>1, Moves1 DEF Promise!Clear
  <2> QED BY <2>2 DEF Promise!Next
<1> QED BY <1>2, <1>3

\* An action whose generation ends before the step is settled.
LEMMA Renews ==
  ASSUME TypeOK, RecordInv, NEW s \in StepIds, NEW x \in {"pending", "awaiting_approval"},
         SetStep(s, x), steps[s].status = "running", warrant[s],
         entries'[s] = 0, ~warrant'[s],
         \A t \in StepIds : t # s => entries'[t] = entries[t] /\ warrant'[t] = warrant[t],
         ResultOf # "completed", ResultOf' = ResultOf
  PROVE  Promise!Next
<1>1. steps'[s].status = x /\ \A t \in StepIds : t # s => PhaseOf(t)' = PhaseOf(t)
  BY OthersStay
<1>2. PhaseOf(s)' = "open"
  <2>1. PhaseOf(s)' = Phase(x, 0, FALSE)
    <3>1. warrant'[s] = FALSE
      OBVIOUS
    <3> QED BY <1>1, <3>1, PhaseNow
  <2> QED BY <2>1, PhaseCases DEF OpenStatuses, AnyStatus, STEP_STATUSES, Closed, Absent
<1>3. PhaseOf(s) \in {"cleared", "entered"}
  BY PhaseKinds DEF OpenStatuses, AnyStatus, STEP_STATUSES, Closed, Absent
<1>4. Promise!Renew(s)
  BY <1>1, <1>2, <1>3, Moves1 DEF Promise!Renew
<1> QED BY <1>4 DEF Promise!Next

-----------------------------------------------------------------------------
\* Every step of the specification is a step of the promise or a stutter.
LEMMA RefineLoop ==
  ASSUME IInv, Loop PROVE [Promise!Next]_(Promise!gvars)
<1> USE DEF IInv
<1>1. CASE ClaimRun
  <2>1. status \notin {"completed", "failed"}
    BY <1>1 DEF ClaimRun, DoneInv, FailedInv
  <2> QED BY <1>1, <2>1, RowsAlone DEF ClaimRun, ResultOf
<1>2. CASE FailQuietly
  <2>1. at \in StepIds /\ steps[at].status = "failed"
    BY <1>2 DEF FailQuietly, FailedInv, Failing
  <2>2. PhaseOf(at) = "failed"
    BY <2>1, PhaseKinds
  <2>3. \A s \in StepIds : PhaseOf(s)' = PhaseOf(s)
    BY <1>2, SamePhase DEF FailQuietly
  <2>4. Promise!Fail
    BY <1>2, <2>1, <2>2, <2>3 DEF FailQuietly, Promise!Fail, ResultOf, StepIds
  <2> QED BY <2>4 DEF Promise!Next
<1>3. CASE TakeCursor \/ Drain \/ ReadRun \/ ReadSteps \/ RefuseUnrecognized \/ FindFailed
  <2>1. UNCHANGED <<steps, entries, warrant, status>>
    BY <1>3 DEF TakeCursor, Drain, ReadRun, ReadSteps, RefuseUnrecognized, FindFailed
  <2> QED BY <2>1, RowsAlone, SameResult
<1> QED BY <1>1, <1>2, <1>3 DEF Loop

LEMMA RefineGates ==
  ASSUME IInv, Gates PROVE [Promise!Next]_(Promise!gvars)
<1> USE DEF IInv
<1>1. CASE SkipUngranted
  <2>1. at \in StepIds /\ steps[at].status \in SkippableWithoutGrant
    BY <1>1, DecidingReads DEF SkipUngranted, SkippableWithoutGrant
  <2>2. steps[at].status \in OpenStatuses
    BY <2>1 DEF SkippableWithoutGrant, OpenStatuses, AnyStatus, STEP_STATUSES, Closed, Absent
  <2>3. SetStep(at, "skipped") /\ UNCHANGED <<entries, warrant, status>>
    BY <1>1 DEF SkipUngranted
  <2> QED BY <2>1, <2>2, <2>3, Settles DEF Closed
<1>2. CASE Park
  <2>1. at \in StepIds /\ steps[at].status \in {"pending", "approved"}
    BY <1>2, DecidingReads DEF Park, ReachesApproval
  <2>2. SetStep(at, "awaiting_approval") /\ UNCHANGED <<entries, warrant, status>>
    BY <1>2 DEF Park
  <2>3. /\ steps'[at].status = "awaiting_approval"
        /\ \A t \in StepIds : t # at => PhaseOf(t)' = PhaseOf(t)
    BY <2>1, <2>2, OthersStay
  <2>4. steps[at].status \in OpenStatuses /\ steps'[at].status \in OpenStatuses
    BY <2>1, <2>3 DEF OpenStatuses, AnyStatus, STEP_STATUSES, Closed, Absent
  <2>5. \A s \in StepIds : PhaseOf(s)' = PhaseOf(s)
    BY <2>2, <2>3, <2>4, StillOpen
  <2> QED BY <2>2, <2>5, Stutters, SameResult
<1>3. CASE AutoApprove \/ PassGate
  <2>1. at \in StepIds /\ steps[at].status \in {"pending", "awaiting_approval", "approved"}
    BY <1>3, DecidingReads DEF AutoApprove, PassGate, ReachesApproval, PendingOrAwaiting
  <2>2. entries[at] = 0 /\ steps[at].status \in OpenStatuses
    BY <2>1 DEF RecordInv, Recorded, NotEntered, OpenStatuses, AnyStatus, STEP_STATUSES,
      Closed, Absent
  <2>3. warrant'[at] /\ \A t \in StepIds : t # at => warrant'[t] = warrant[t]
    BY <1>3, <2>1, WarrantGiven DEF AutoApprove, PassGate
  <2>4. entries' = entries /\ status' = status
    BY <1>3 DEF AutoApprove, PassGate
  <2>5. /\ steps'[at].status \in OpenStatuses
        /\ \A t \in StepIds : t # at => PhaseOf(t)' = PhaseOf(t)
    <3>1. CASE AutoApprove
      <4>1. SetStep(at, "approved")
        BY <3>1 DEF AutoApprove
      <4>2. /\ steps'[at].status = "approved"
            /\ \A t \in StepIds : t # at => PhaseOf(t)' = PhaseOf(t)
        BY <2>1, <2>3, <2>4, <4>1, OthersStay
      <4> QED BY <4>2 DEF OpenStatuses, AnyStatus, STEP_STATUSES, Closed, Absent
    <3>2. CASE PassGate
      BY <2>2, <2>3, <2>4, <3>2, SamePhase DEF PassGate
    <3> QED BY <1>3, <3>1, <3>2
  <2> QED BY <2>1, <2>2, <2>3, <2>4, <2>5, Clears, SameResult
<1>4. CASE BudgetPause \/ ParkRun
  <2>1. status \notin {"completed", "failed"}
    BY <1>4 DEF BudgetPause, ParkRun, DoneInv, FailedInv
  <2> QED BY <1>4, <2>1, RowsAlone DEF BudgetPause, ParkRun, ResultOf
<1>5. CASE RefuseRunning \/ SkipEvent \/ PauseForBudget \/ BudgetPauseEvent \/ ParkEvent
           \/ StillAwaiting \/ AutoApproveEvent \/ PassApproved
  <2>1. UNCHANGED <<steps, entries, warrant, status>>
    BY <1>5 DEF RefuseRunning, SkipEvent, PauseForBudget, BudgetPauseEvent, ParkEvent,
      StillAwaiting, AutoApproveEvent, PassApproved
  <2> QED BY <2>1, RowsAlone, SameResult
<1> QED BY <1>1, <1>2, <1>3, <1>4, <1>5 DEF Gates

LEMMA RefineRunStep ==
  ASSUME IInv, RunStep PROVE [Promise!Next]_(Promise!gvars)
<1> USE DEF IInv
<1>1. CASE EnterRunning
  <2>1. at \in StepIds
    BY <1>1, AtStep DEF EnterRunning, StepPcs
  <2>2. SetStep(at, "running") /\ UNCHANGED <<entries, warrant, status>>
    BY <1>1 DEF EnterRunning
  <2>3. /\ steps'[at].status = "running"
        /\ \A t \in StepIds : t # at => PhaseOf(t)' = PhaseOf(t)
    BY <2>1, <2>2, OthersStay
  <2>4. steps[at].status \in Runnable
    BY <1>1 DEF EnterRunning, RecordInv, InHand
  <2>5. steps[at].status \in OpenStatuses /\ steps'[at].status \in OpenStatuses
    BY <2>3, <2>4 DEF Runnable, OpenStatuses, AnyStatus, STEP_STATUSES, Closed, Absent
  <2>6. \A s \in StepIds : PhaseOf(s)' = PhaseOf(s)
    BY <2>2, <2>3, <2>5, StillOpen
  <2> QED BY <2>2, <2>6, Stutters, SameResult
<1>2. CASE Invoke
  <2>1. PICK s \in StepIds : s = at
    BY <1>2, AtStep DEF Invoke, StepPcs
  <2>2. warrant[s] /\ steps[s].status = "running" /\ entries[s] = 0 /\ EarlierDone
    BY <1>2, <2>1 DEF Invoke, RecordInv, InHand, GateInv, PastGates
  <2>3. UNCHANGED <<steps, warrant, status>> /\ entries' = [entries EXCEPT ![s] = @ + 1]
    BY <1>2, <2>1 DEF Invoke
  <2>4. PhaseOf(s) = "cleared"
    BY <2>2, PhaseKinds DEF OpenStatuses, AnyStatus, STEP_STATUSES, Closed, Absent
  <2>5. entries'[s] = 1 /\ \A t \in StepIds : t # s => entries'[t] = entries[t]
    BY <2>2, <2>3 DEF TypeOK
  <2>6. PhaseOf(s)' = "entered"
    <3>1. PhaseOf(s)' = Phase("running", 1, warrant[s])
      BY <2>2, <2>3, <2>5, PhaseNow
    <3> QED BY <3>1, PhaseCases DEF OpenStatuses, AnyStatus, STEP_STATUSES, Closed, Absent
  <2>7. \A t \in StepIds : t # s => PhaseOf(t)' = PhaseOf(t)
    BY <2>3, <2>5, SamePhase
  <2>8. \A t \in StepIds : t < s => PhaseOf(t) \in {"none", "done"}
    BY <2>1, <2>2, PhaseKinds DEF EarlierDone
  <2>9. Promise!Enter(s)
    <3>1. Promise!Move(s, "entered")
      BY <2>6, <2>7, Moves1
    <3>2. ResultOf' = ResultOf
      BY <2>3, SameResult
    <3> QED BY <2>4, <2>8, <3>1, <3>2 DEF Promise!Enter, StepIds
  <2> QED BY <2>9 DEF Promise!Next
<1>3. CASE CompleteStep \/ SkipStep \/ FailStep
  <2>1. at \in StepIds
    BY <1>3, AtStep DEF CompleteStep, SkipStep, FailStep, StepPcs
  <2>2. steps[at].status = "running"
    BY <1>3 DEF CompleteStep, SkipStep, FailStep, RecordInv, InHand
  <2>3. steps[at].status \in OpenStatuses
    BY <2>2 DEF OpenStatuses, AnyStatus, STEP_STATUSES, Closed, Absent
  <2>4. UNCHANGED <<entries, warrant, status>>
    BY <1>3 DEF CompleteStep, SkipStep, FailStep
  <2>5. CASE SetStep(at, "completed")
    BY <2>1, <2>3, <2>4, <2>5, Settles DEF Closed
  <2>6. CASE SetStep(at, "skipped")
    BY <2>1, <2>3, <2>4, <2>6, Settles DEF Closed
  <2>7. CASE SetStep(at, "failed")
    BY <2>1, <2>3, <2>4, <2>7, Settles DEF Closed
  <2> QED BY <1>3, <2>5, <2>6, <2>7 DEF CompleteStep, SkipStep, FailStep
<1>4. ASSUME NEW parked \in PendingOrAwaiting, HandlerPrepares(parked)
      PROVE  [Promise!Next]_(Promise!gvars)
  <2>1. at \in StepIds
    BY <1>4, AtStep DEF HandlerPrepares, StepPcs
  <2>2. steps[at].status = "running" /\ warrant[at]
    BY <1>4 DEF HandlerPrepares, RecordInv, InHand
  <2>3. SetStep(at, parked) /\ parked \in {"pending", "awaiting_approval"}
    BY <1>4 DEF HandlerPrepares, PendingOrAwaiting
  <2>4. /\ entries'[at] = 0 /\ ~warrant'[at]
        /\ \A t \in StepIds : t # at => entries'[t] = entries[t] /\ warrant'[t] = warrant[t]
    BY <1>4, <2>1 DEF HandlerPrepares, NewGeneration, TypeOK
  <2>5. status \notin {"completed", "failed"}
    BY <1>4 DEF HandlerPrepares, DoneInv, FailedInv
  <2>6. ResultOf # "completed" /\ ResultOf' = ResultOf
    BY <1>4, <2>5 DEF HandlerPrepares, ResultOf
  <2> QED BY <2>1, <2>2, <2>3, <2>4, <2>6, Renews
<1>5. CASE EntryRefused \/ StartedEvent \/ HandlerReturns \/ HandlerInapplicable
           \/ HandlerRaises \/ OutcomeUnknown \/ Reread \/ StepCompletedEvent \/ StepFailedEvent
  <2>1. UNCHANGED <<steps, entries, warrant, status>>
    BY <1>5 DEF EntryRefused, StartedEvent, HandlerAnswers, HandlerReturns,
      HandlerInapplicable, HandlerRaises, OutcomeUnknown, Reread, StepCompletedEvent,
      StepFailedEvent
  <2> QED BY <2>1, RowsAlone, SameResult
<1> QED BY <1>1, <1>2, <1>3, <1>4, <1>5 DEF RunStep

LEMMA RefineRunEnds ==
  ASSUME IInv, RunEnds PROVE [Promise!Next]_(Promise!gvars)
<1> USE DEF IInv
<1>1. CASE FailRunStatus
  <2>1. PICK s \in StepIds : steps[s].status = "failed"
    BY <1>1 DEF FailRunStatus, FailedInv, Failing
  <2>2. PhaseOf(s) = "failed"
    BY <2>1, PhaseKinds
  <2>3. \A t \in StepIds : PhaseOf(t)' = PhaseOf(t)
    BY <1>1, SamePhase DEF FailRunStatus
  <2>4. Promise!Fail
    BY <1>1, <2>2, <2>3 DEF FailRunStatus, Promise!Fail, ResultOf, StepIds
  <2> QED BY <2>4 DEF Promise!Next
<1>2. CASE CompleteRun
  <2>1. \A t \in StepIds : PhaseOf(t) \in {"none", "done"}
    BY <1>2, PhaseKinds DEF CompleteRun, DoneInv
  <2>2. \A t \in StepIds : PhaseOf(t)' = PhaseOf(t)
    BY <1>2, SamePhase DEF CompleteRun
  <2>3. Promise!Complete
    BY <1>2, <2>1, <2>2 DEF CompleteRun, Promise!Complete, ResultOf, StepIds
  <2> QED BY <2>3 DEF Promise!Next
<1>3. CASE FailRun \/ FinalRead \/ RunCompletedEvent \/ CallHook
  <2>1. UNCHANGED <<steps, entries, warrant, status>>
    BY <1>3 DEF FailRun, FinalRead, RunCompletedEvent, CallHook
  <2> QED BY <2>1, RowsAlone, SameResult
<1> QED BY <1>1, <1>2, <1>3 DEF RunEnds

LEMMA RefineOutside ==
  ASSUME IInv, Outside PROVE [Promise!Next]_(Promise!gvars)
<1> USE DEF IInv
<1>1. CASE Reopen
  <2>1. \A t \in StepIds : PhaseOf(t)' = PhaseOf(t)
    BY <1>1, SamePhase DEF Reopen
  <2>2. Promise!Reopen
    BY <1>1, <2>1 DEF Reopen, Promise!Reopen, ResultOf, StepIds
  <2> QED BY <2>2 DEF Promise!Next
<1>2. CASE Resume \/ (\E o \in Options : SetOptions(o)) \/ (\E x \in StopStatuses : UserStops(x))
  <2>1. UNCHANGED <<steps, entries, warrant>>
    BY <1>2 DEF Resume, SetOptions, UserStops
  <2>2. ResultOf' = ResultOf
    BY <1>2 DEF Resume, SetOptions, UserStops, StopStatuses, ResultOf
  <2> QED BY <2>1, <2>2, RowsAlone
<1>3. ASSUME NEW s \in StepIds, Approve(s) PROVE [Promise!Next]_(Promise!gvars)
  <2>1. SetStep(s, "approved") /\ steps[s].status = "awaiting_approval"
    BY <1>3 DEF Approve
  <2>2. entries' = entries /\ status' = status
    BY <1>3 DEF Approve
  <2>3. warrant'[s] /\ \A t \in StepIds : t # s => warrant'[t] = warrant[t]
    BY <1>3 DEF Approve, TypeOK
  <2>4. /\ steps'[s].status = "approved"
        /\ \A t \in StepIds : t # s => PhaseOf(t)' = PhaseOf(t)
    BY <2>1, <2>2, <2>3, OthersStay
  <2>5. entries[s] = 0
    BY <2>1 DEF RecordInv, Recorded, NotEntered
  <2>6. steps[s].status \in OpenStatuses /\ steps'[s].status \in OpenStatuses
    BY <2>1, <2>4 DEF OpenStatuses, AnyStatus, STEP_STATUSES, Closed, Absent
  <2> QED BY <2>2, <2>3, <2>4, <2>5, <2>6, Clears, SameResult
<1>4. ASSUME NEW s \in StepIds, Rerun(s) PROVE [Promise!Next]_(Promise!gvars)
  <2>1. SetStep(s, "pending") /\ status' = "planned"
    BY <1>4 DEF Rerun
  <2>2. /\ entries'[s] = 0 /\ ~warrant'[s]
        /\ \A t \in StepIds : t # s => entries'[t] = entries[t] /\ warrant'[t] = warrant[t]
    BY <1>4 DEF Rerun, NewGeneration, TypeOK
  <2>3. /\ steps'[s].status = "pending"
        /\ \A t \in StepIds : t # s => PhaseOf(t)' = PhaseOf(t)
    BY <2>1, <2>2, OthersStay
  <2>4. PhaseOf(s)' = "open"
    <3>1. warrant'[s] = FALSE
      BY <2>2
    <3>2. PhaseOf(s)' = Phase("pending", 0, FALSE)
      BY <2>2, <2>3, <3>1, PhaseNow
    <3> QED BY <3>2, PhaseCases DEF OpenStatuses, AnyStatus, STEP_STATUSES, Closed, Absent
  <2>5. PhaseOf(s) \in {"done", "failed"}
    BY <1>4, PhaseKinds DEF Rerun, Closed
  <2>6. Promise!Move(s, "open")
    BY <2>3, <2>4, Moves1
  <2>7. Promise!Rerun(s)
    BY <2>1, <2>5, <2>6 DEF Promise!Rerun, ResultOf
  <2> QED BY <2>7 DEF Promise!Next
<1>5. ASSUME NEW s \in StepIds, Reclaim(s) PROVE [Promise!Next]_(Promise!gvars)
  <2>1. SetStep(s, "pending") /\ steps[s].status = "running" /\ entries[s] = 0
    BY <1>5 DEF Reclaim
  <2>2. warrant[s]
    BY <2>1 DEF RecordInv, Recorded
  <2>3. /\ entries'[s] = 0 /\ ~warrant'[s]
        /\ \A t \in StepIds : t # s => entries'[t] = entries[t] /\ warrant'[t] = warrant[t]
    BY <1>5 DEF Reclaim, TypeOK
  <2>4. ResultOf # "completed" /\ ResultOf' = ResultOf
    <3>1. status # "completed"
      BY <2>1 DEF DoneInv, Closed, Absent
    <3> QED BY <1>5, <3>1 DEF Reclaim, ResultOf
  <2> QED BY <2>1, <2>2, <2>3, <2>4, Renews
<1>6. ASSUME NEW s \in StepIds, HostFails(s) PROVE [Promise!Next]_(Promise!gvars)
  <2>1. SetStep(s, "failed") /\ UNCHANGED <<entries, warrant, status>>
    BY <1>6 DEF HostFails, HostFailure
  <2>2. steps[s].status \in OpenStatuses
    BY <1>6 DEF HostFails, OpenStatuses, AnyStatus, STEP_STATUSES, Closed, Absent
  <2> QED BY <2>1, <2>2, Settles
<1>7. ASSUME NEW s \in StepIds, NEW x \in Results \ {"none"}, Reconcile(s, x)
      PROVE  [Promise!Next]_(Promise!gvars)
  <2>1. SetStep(s, x) /\ UNCHANGED <<entries, warrant, status>>
    BY <1>7 DEF Reconcile, HostFailure
  <2>2. steps[s].status \in OpenStatuses
    BY <1>7 DEF Reconcile, OpenStatuses, AnyStatus, STEP_STATUSES, Closed, Absent
  <2>3. x \in Closed \cup {"failed"}
    BY DEF Results, Closed
  <2> QED BY <2>1, <2>2, <2>3, Settles
<1>8. ASSUME NEW s \in StepIds, NEW type \in ExtensionTypes, HandlerAppends(s, type)
      PROVE  [Promise!Next]_(Promise!gvars)
  <2>1. steps[s].status = Absent /\ pc = "working"
    BY <1>8 DEF HandlerAppends
  <2>2. UNCHANGED <<entries, warrant, status>>
    BY <1>8 DEF HandlerAppends
  <2>3. entries[s] = 0 /\ ~warrant[s] /\ status # "completed"
    BY <2>1 DEF RecordInv, Recorded, NotEntered, FailedInv, DoneInv
  <2>4. \A t \in StepIds : steps'[t].status = IF t = s THEN "pending" ELSE steps[t].status
    BY <1>8 DEF HandlerAppends, TypeOK
  <2>5. \A t \in StepIds : t # s => PhaseOf(t)' = PhaseOf(t)
    BY <2>2, <2>4, SamePhase
  <2>6. PhaseOf(s)' = "open"
    <3>1. warrant'[s] = FALSE
      BY <2>2, <2>3 DEF TypeOK
    <3>2. PhaseOf(s)' = Phase("pending", 0, FALSE)
      BY <2>2, <2>3, <2>4, <3>1, PhaseNow
    <3> QED BY <3>2, PhaseCases DEF OpenStatuses, AnyStatus, STEP_STATUSES, Closed, Absent
  <2>7. PhaseOf(s) = "none"
    BY <2>1, PhaseKinds
  <2>8. Promise!Move(s, "open")
    BY <2>5, <2>6, Moves1
  <2>9. ResultOf # "completed" /\ ResultOf' = ResultOf
    BY <2>2, <2>3 DEF ResultOf
  <2>10. Promise!Extend(s)
    BY <2>7, <2>8, <2>9 DEF Promise!Extend
  <2> QED BY <2>10 DEF Promise!Next
<1> QED BY <1>1, <1>2, <1>3, <1>4, <1>5, <1>6, <1>7, <1>8 DEF Outside

LEMMA RefineInit == ASSUME Init PROVE Promise!Init
<1>1. \A s \in StepIds : PhaseOf(s) \in {"none", "open"}
  <2> TAKE s \in StepIds
  <2>1. steps[s].status \in {"pending", "unrecognized", Absent}
    BY RowsAssumption DEF Init
  <2>2. entries[s] = 0 /\ warrant[s] = FALSE
    BY DEF Init
  <2>3. PhaseOf(s) = Phase(steps[s].status, 0, FALSE)
    BY <2>2 DEF PhaseOf
  <2>4. CASE steps[s].status = Absent
    BY <2>3, <2>4 DEF Phase, Absent, Closed
  <2>5. CASE steps[s].status \in OpenStatuses
    BY <2>3, <2>5, PhaseCases
  <2> QED BY <2>1, <2>4, <2>5 DEF OpenStatuses, AnyStatus, STEP_STATUSES, Closed, Absent
<1>2. ResultOf = "open"
  BY DEF Init, ResultOf
<1> QED BY <1>1, <1>2 DEF Promise!Init

LEMMA RefineStep ==
  ASSUME IInv, [Next]_vars PROVE [Promise!Next]_(Promise!gvars)
<1>1. CASE StartDrive \/ EndEarly \/ UNCHANGED vars
  <2>1. UNCHANGED <<steps, entries, warrant, status>>
    BY <1>1 DEF StartDrive, EndEarly, vars
  <2> QED BY <2>1, RowsAlone, SameResult
<1> QED BY <1>1, RefineLoop, RefineGates, RefineRunStep, RefineRunEnds, RefineOutside
  DEF Next, Engine

\* RunEngine implements GatedPlan for every plan, every set of settings and every
\* bound on what happens outside: drives that are interrupted anywhere, resumed,
\* stopped or overtaken by the user and the host never show the user anything but
\* a plan whose actions are cleared before they are entered, entered in order and
\* at most once, and whose run ends the way its steps did.
THEOREM KeepsPromiseHolds == Spec => KeepsPromise
<1>1. Init => IInv /\ Promise!Init
  BY IInvInit, RefineInit
<1>2. IInv /\ [Next]_vars => IInv' /\ [Promise!Next]_(Promise!gvars)
  BY IInvStep, RefineStep
<1> QED BY <1>1, <1>2, PTL DEF Spec, KeepsPromise, Promise!Spec
=============================================================================
