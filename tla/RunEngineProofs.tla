-------------------------- MODULE RunEngineProofs ---------------------------
(***************************************************************************)
(* RunEngine keeps its safety properties for every plan, every set of      *)
(* settings and every number of outside moves: its types; what a pass read *)
(* is still true where it matters (PassInv); the host's record of every    *)
(* action generation (RecordInv); why every call of a handler was allowed  *)
(* and every stop was for work (GateInv).                                  *)
(***************************************************************************)
EXTENDS RunEngineProps, TLAPS

\* What every action is built from.
USE DEF Goto, DrainThen, EndDrive, Decides, Ends, WritesRun, WritesStep,
        Appends, Emits, SetStep, Spend, Seen, HostEmit,
        run, ledger, snapshot, stream, control, observed

-----------------------------------------------------------------------------
\* The constants a drive starts from have their types (RowsAssumption).
LEMMA NoOptionsType == NoOptions \in Options
BY RowsAssumption DEF NoOptions

LEMMA NoStepsType == NoSteps \in [StepIds -> AnyStatus]
BY DEF NoSteps, AnyStatus

LEMMA StatusesType == ASSUME TypeOK PROVE Statuses \in [StepIds -> AnyStatus]
BY DEF TypeOK, Statuses, StepRows

LEMMA AtStep == ASSUME TypeOK, pc \in StepPcs PROVE at \in StepIds
BY DEF TypeOK

\* A reading of the run is a view, and so is one a user's move makes of it.
LEMMA NowType == ASSUME TypeOK PROVE Now \in Views
<1>1. (status \in StopStatuses) \in BOOLEAN
  OBVIOUS
<1> QED BY <1>1 DEF TypeOK, Now, Views

LEMMA ViewTypes ==
  ASSUME TypeOK, NEW o \in Options
  PROVE  /\ [Now EXCEPT !.opts = o] \in Views
         /\ [opts |-> opts, stopped |-> TRUE] \in Views
         /\ [opts |-> opts, stopped |-> FALSE] \in Views
BY NowType DEF Views, TypeOK

\* The log stays a log, and moves left are counted down to 0.
LEMMA EmitType ==
  ASSUME TypeOK, NEW type \in EVENT_TYPES, NEW s \in {0} \cup StepIds,
         log' = Append(log, [type |-> type, step |-> s])
  PROVE  log' \in Seq(Events) /\ Len(log) + 1 \in Nat
<1>1. [type |-> type, step |-> s] \in Events
  BY DEF Events
<1>2. log \in Seq(Events)
  BY DEF TypeOK
<1> QED BY <1>1, <1>2

LEMMA SetStepType ==
  ASSUME TypeOK, NEW s \in StepIds, NEW x \in AnyStatus, SetStep(s, x)
  PROVE  steps' \in [StepIds -> StepRows]
BY DEF TypeOK, StepRows

LEMMA SpendType ==
  ASSUME TypeOK, NEW kind \in Moves, Spend(kind)
  PROVE  moves' \in [Moves -> Nat]
BY DEF TypeOK

-----------------------------------------------------------------------------
LEMMA TypeInit == Init => TypeOK
<1> SUFFICES ASSUME Init PROVE TypeOK
  OBVIOUS
<1>1. steps \in [StepIds -> StepRows] /\ opts \in Options /\ moves \in [Moves -> Nat]
  BY RowsAssumption DEF Init
<1>2. /\ entries \in [StepIds -> Nat] /\ answer \in [StepIds -> Results]
      /\ warrant \in [StepIds -> BOOLEAN] /\ owed \in [StepIds -> BOOLEAN]
  BY DEF Init, Results
<1>3. log \in Seq(Events)
  BY DEF Init
<1> QED BY <1>1, <1>2, <1>3, NoOptionsType, NoStepsType
  DEF Init, TypeOK, RunStatuses, PcValues, StepPcs, Outcomes

\* The loop keeps the types.
LEMMA TypeLoop == ASSUME TypeOK, Loop PROVE TypeOK'
<1> USE NoOptionsType, NoStepsType
    DEF RunStatuses, StopStatuses, PcValues, StepPcs, Outcomes, AnyStatus, StepRows,
        STEP_STATUSES, Results
<1>1. CASE TakeCursor
  BY <1>1 DEF TakeCursor, TypeOK
<1>2. CASE ClaimRun
  BY <1>2 DEF ClaimRun, TypeOK
<1>3. CASE Drain
  BY <1>3, NowType DEF Drain, TypeOK
<1>4. CASE ReadRun
  BY <1>4 DEF ReadRun, TypeOK
<1>5. CASE ReadSteps
  BY <1>5, StatusesType DEF ReadSteps, StepIds, TypeOK
<1>6. CASE RefuseUnrecognized
  BY <1>6 DEF RefuseUnrecognized, Deciding, TypeOK
<1>7. CASE FindFailed
  BY <1>7 DEF FindFailed, Deciding, TypeOK
<1>8. CASE FailQuietly
  BY <1>8 DEF FailQuietly, TypeOK
<1> QED BY <1>1, <1>2, <1>3, <1>4, <1>5, <1>6, <1>7, <1>8 DEF Loop

\* The gates keep the types.
LEMMA TypeGates == ASSUME TypeOK, Gates PROVE TypeOK'
<1> USE NoOptionsType, NoStepsType
    DEF RunStatuses, StopStatuses, PcValues, StepPcs, Outcomes, AnyStatus, StepRows,
        STEP_STATUSES, Results
<1>1. CASE SkipUngranted
  <2>1. at \in StepIds /\ SetStep(at, "skipped")
    BY <1>1, AtStep DEF SkipUngranted, Deciding, TypeOK
  <2>2. steps' \in [StepIds -> StepRows]
    BY <2>1, SetStepType
  <2> QED BY <1>1, <2>2 DEF SkipUngranted, Deciding, TypeOK
<1>2. CASE RefuseRunning
  BY <1>2 DEF RefuseRunning, Deciding, TypeOK
<1>3. CASE SkipEvent
  <2>1. at \in StepIds
    BY <1>3, AtStep DEF SkipEvent
  <2>2. log' \in Seq(Events) /\ own' \in Nat
    BY <1>3, <2>1, EmitType DEF SkipEvent, EVENT_TYPES
  <2> QED BY <1>3, <2>2 DEF SkipEvent, TypeOK
<1>4. CASE PauseForBudget
  <2>1. log' \in Seq(Events) /\ own' \in Nat
    BY <1>4, EmitType DEF PauseForBudget, Deciding, EVENT_TYPES
  <2> QED BY <1>4, <2>1 DEF PauseForBudget, Deciding, TypeOK
<1>5. CASE BudgetPause
  BY <1>5 DEF BudgetPause, TypeOK
<1>6. CASE BudgetPauseEvent
  <2>1. log' \in Seq(Events) /\ own' \in Nat
    BY <1>6, EmitType DEF BudgetPauseEvent, EVENT_TYPES
  <2> QED BY <1>6, <2>1 DEF BudgetPauseEvent, TypeOK
<1>7. CASE Park
  <2>1. at \in StepIds /\ SetStep(at, "awaiting_approval")
    BY <1>7, AtStep DEF Park, ReachesApproval, Deciding, TypeOK
  <2>2. steps' \in [StepIds -> StepRows]
    BY <2>1, SetStepType
  <2> QED BY <1>7, <2>2 DEF Park, ReachesApproval, Deciding, TypeOK
<1>8. CASE ParkEvent
  <2>1. at \in StepIds
    BY <1>8, AtStep DEF ParkEvent
  <2>2. log' \in Seq(Events) /\ own' \in Nat
    BY <1>8, <2>1, EmitType DEF ParkEvent, EVENT_TYPES
  <2> QED BY <1>8, <2>2 DEF ParkEvent, TypeOK
<1>9. CASE StillAwaiting
  BY <1>9 DEF StillAwaiting, ReachesApproval, Deciding, TypeOK
<1>10. CASE ParkRun
  BY <1>10 DEF ParkRun, TypeOK
<1>11. CASE AutoApprove
  <2>1. at \in StepIds /\ SetStep(at, "approved")
    BY <1>11, AtStep DEF AutoApprove, ReachesApproval, Deciding, WarrantByRules, TypeOK
  <2>2. steps' \in [StepIds -> StepRows]
    BY <2>1, SetStepType
  <2> QED BY <1>11, <2>2 DEF AutoApprove, ReachesApproval, Deciding, WarrantByRules, TypeOK
<1>12. CASE AutoApproveEvent
  <2>1. at \in StepIds
    BY <1>12, AtStep DEF AutoApproveEvent
  <2>2. log' \in Seq(Events) /\ own' \in Nat
    BY <1>12, <2>1, EmitType DEF AutoApproveEvent, EVENT_TYPES
  <2> QED BY <1>12, <2>2 DEF AutoApproveEvent, TypeOK
<1>13. CASE PassGate
  BY <1>13 DEF PassGate, ReachesApproval, Deciding, WarrantByRules, TypeOK
<1>14. CASE PassApproved
  BY <1>14 DEF PassApproved, ReachesApproval, Deciding, TypeOK
<1> QED BY <1>1, <1>2, <1>3, <1>4, <1>5, <1>6, <1>7, <1>8, <1>9, <1>10, <1>11,
  <1>12, <1>13, <1>14 DEF Gates

\* run_step keeps the types.
LEMMA TypeRunStep == ASSUME TypeOK, RunStep PROVE TypeOK'
<1> USE NoOptionsType, NoStepsType
    DEF RunStatuses, StopStatuses, PcValues, StepPcs, Outcomes, AnyStatus, StepRows,
        STEP_STATUSES, Results
<1>1. CASE EnterRunning
  <2>1. at \in StepIds /\ SetStep(at, "running")
    BY <1>1, AtStep DEF EnterRunning, TypeOK
  <2>2. steps' \in [StepIds -> StepRows]
    BY <2>1, SetStepType
  <2> QED BY <1>1, <2>2 DEF EnterRunning, TypeOK
<1>2. CASE EntryRefused
  BY <1>2 DEF EntryRefused, TypeOK
<1>3. CASE StartedEvent
  <2>1. at \in StepIds
    BY <1>3, AtStep DEF StartedEvent
  <2>2. log' \in Seq(Events) /\ own' \in Nat
    BY <1>3, <2>1, EmitType DEF StartedEvent, EVENT_TYPES
  <2> QED BY <1>3, <2>2 DEF StartedEvent, TypeOK
<1>4. CASE Invoke
  BY <1>4 DEF Invoke, TypeOK
<1>5. CASE HandlerReturns
  BY <1>5 DEF HandlerReturns, HandlerAnswers, TypeOK
<1>6. CASE HandlerInapplicable
  BY <1>6 DEF HandlerInapplicable, HandlerAnswers, TypeOK
<1>7. CASE HandlerRaises
  BY <1>7 DEF HandlerRaises, HandlerAnswers, TypeOK
<1>8. CASE OutcomeUnknown
  BY <1>8 DEF OutcomeUnknown, TypeOK
<1>9. CASE \E parked \in PendingOrAwaiting : HandlerPrepares(parked)
  <2>1. PICK parked \in PendingOrAwaiting : HandlerPrepares(parked)
    BY <1>9
  <2>2. at \in StepIds
    BY <2>1, AtStep DEF HandlerPrepares
  <2>3. moves' \in [Moves -> Nat]
    BY <2>1, SpendType DEF HandlerPrepares, Moves
  <2>4. steps' \in [StepIds -> StepRows]
    <3>1. SetStep(at, parked) /\ parked \in AnyStatus
      BY <2>1 DEF HandlerPrepares, PendingOrAwaiting
    <3> QED BY <2>2, <3>1, SetStepType
  <2> QED BY <2>1, <2>2, <2>3, <2>4 DEF HandlerPrepares, NewGeneration, TypeOK
<1>10. CASE Reread
  BY <1>10 DEF Reread, TypeOK
<1>11. CASE CompleteStep
  <2>1. at \in StepIds /\ SetStep(at, "completed")
    BY <1>11, AtStep DEF CompleteStep, TypeOK
  <2>2. steps' \in [StepIds -> StepRows]
    BY <2>1, SetStepType
  <2> QED BY <1>11, <2>2 DEF CompleteStep, TypeOK
<1>12. CASE StepCompletedEvent
  <2>1. at \in StepIds
    BY <1>12, AtStep DEF StepCompletedEvent
  <2>2. log' \in Seq(Events) /\ own' \in Nat
    BY <1>12, <2>1, EmitType DEF StepCompletedEvent, EVENT_TYPES
  <2> QED BY <1>12, <2>2 DEF StepCompletedEvent, TypeOK
<1>13. CASE SkipStep
  <2>1. at \in StepIds /\ SetStep(at, "skipped")
    BY <1>13, AtStep DEF SkipStep, TypeOK
  <2>2. steps' \in [StepIds -> StepRows]
    BY <2>1, SetStepType
  <2> QED BY <1>13, <2>2 DEF SkipStep, TypeOK
<1>14. CASE FailStep
  <2>1. at \in StepIds /\ SetStep(at, "failed")
    BY <1>14, AtStep DEF FailStep, TypeOK
  <2>2. steps' \in [StepIds -> StepRows]
    BY <2>1, SetStepType
  <2> QED BY <1>14, <2>2 DEF FailStep, TypeOK
<1>15. CASE StepFailedEvent
  <2>1. at \in StepIds
    BY <1>15, AtStep DEF StepFailedEvent
  <2>2. log' \in Seq(Events) /\ own' \in Nat
    BY <1>15, <2>1, EmitType DEF StepFailedEvent, EVENT_TYPES
  <2> QED BY <1>15, <2>2 DEF StepFailedEvent, TypeOK
<1> QED BY <1>1, <1>2, <1>3, <1>4, <1>5, <1>6, <1>7, <1>8, <1>9, <1>10, <1>11,
  <1>12, <1>13, <1>14, <1>15 DEF RunStep

\* The ends of a run keep the types.
LEMMA TypeRunEnds == ASSUME TypeOK, RunEnds PROVE TypeOK'
<1> USE NoOptionsType, NoStepsType
    DEF RunStatuses, StopStatuses, PcValues, StepPcs, Outcomes, AnyStatus, StepRows,
        STEP_STATUSES, Results
<1>1. CASE FailRun
  <2>1. at \in StepIds
    BY <1>1, AtStep DEF FailRun
  <2>2. log' \in Seq(Events) /\ own' \in Nat
    BY <1>1, <2>1, EmitType DEF FailRun, EVENT_TYPES
  <2> QED BY <1>1, <2>2 DEF FailRun, TypeOK
<1>2. CASE FailRunStatus
  BY <1>2 DEF FailRunStatus, TypeOK
<1>3. CASE FinalRead
  BY <1>3 DEF FinalRead, TypeOK
<1>4. CASE CompleteRun
  BY <1>4 DEF CompleteRun, TypeOK
<1>5. CASE RunCompletedEvent
  <2>1. log' \in Seq(Events) /\ own' \in Nat
    BY <1>5, EmitType DEF RunCompletedEvent, EVENT_TYPES
  <2> QED BY <1>5, <2>1 DEF RunCompletedEvent, TypeOK
<1>6. CASE CallHook
  <2>1. CASE Emits("HOOK", 0)
    <3>1. log' \in Seq(Events) /\ own' \in Nat
      BY <2>1, EmitType DEF EVENT_TYPES
    <3> QED BY <1>6, <2>1, <3>1 DEF CallHook, TypeOK
  <2>2. CASE Decides
    BY <1>6, <2>2 DEF CallHook, TypeOK
  <2> QED BY <1>6, <2>1, <2>2 DEF CallHook
<1> QED BY <1>1, <1>2, <1>3, <1>4, <1>5, <1>6 DEF RunEnds

\* The user and the host keep the types.
LEMMA HostFailureType ==
  ASSUME TypeOK, NEW s \in StepIds, HostFailure(s)
  PROVE  /\ steps' \in [StepIds -> StepRows] /\ owed' \in [StepIds -> BOOLEAN]
         /\ log' \in Seq(Events) /\ UNCHANGED <<cursor, own>>
<1>1. (~FailureReported(s)) \in BOOLEAN
  OBVIOUS
<1>2. owed' \in [StepIds -> BOOLEAN]
  BY <1>1 DEF HostFailure, TypeOK
<1>3. steps' \in [StepIds -> StepRows]
  BY DEF HostFailure, TypeOK, StepRows, AnyStatus, STEP_STATUSES
<1>4. log' \in Seq(Events) /\ UNCHANGED <<cursor, own>>
  BY EmitType DEF HostFailure, EVENT_TYPES, TypeOK
<1> QED BY <1>2, <1>3, <1>4

LEMMA TypeUser ==
  ASSUME TypeOK,
         \/ Resume
         \/ \E o \in Options : SetOptions(o)
         \/ \E s \in StopStatuses : UserStops(s)
         \/ \E s \in StepIds : Approve(s)
  PROVE  TypeOK'
<1> USE DEF RunStatuses, StopStatuses, PcValues, StepPcs
<1>1. CASE Resume
  <2>1. log' \in Seq(Events)
    BY <1>1, EmitType DEF Resume, EVENT_TYPES
  <2>2. window' \subseteq Views
    BY <1>1, ViewTypes DEF Resume, TypeOK
  <2> QED BY <1>1, <2>1, <2>2 DEF Resume, TypeOK
<1>2. CASE \E o \in Options : SetOptions(o)
  <2>1. PICK o \in Options : SetOptions(o)
    BY <1>2
  <2>2. moves' \in [Moves -> Nat]
    BY <2>1, SpendType DEF SetOptions, Moves
  <2>3. window' \subseteq Views
    <3> DEFINE view == [Now EXCEPT !.opts = o]
    <3>1. view \in Views
      BY ViewTypes
    <3>2. window' = IF window = {} THEN {} ELSE window \cup {view}
      BY <2>1 DEF SetOptions
    <3>3. window \subseteq Views
      BY DEF TypeOK
    <3> HIDE DEF view
    <3> QED BY <3>1, <3>2, <3>3
  <2>4. /\ opts' = o
        /\ UNCHANGED <<status, steps, ledger, snapshot, stream, control, userStop>>
    BY <2>1 DEF SetOptions
  <2> QED BY <2>2, <2>3, <2>4 DEF TypeOK
<1>3. CASE \E s \in StopStatuses : UserStops(s)
  <2>1. PICK s \in StopStatuses : UserStops(s)
    BY <1>3
  <2>2. moves' \in [Moves -> Nat]
    BY <2>1, SpendType DEF UserStops, Moves
  <2>3. window' \subseteq Views
    BY <2>1, ViewTypes DEF UserStops, TypeOK
  <2>4. log' \in Seq(Events)
    BY <2>1, EmitType DEF UserStops, EVENT_TYPES
  <2>5. userStop' \in BOOLEAN
    BY <2>1 DEF UserStops
  <2> QED BY <2>1, <2>2, <2>3, <2>4, <2>5 DEF UserStops, TypeOK
<1>4. CASE \E s \in StepIds : Approve(s)
  <2>1. PICK s \in StepIds : Approve(s)
    BY <1>4
  <2>2. log' \in Seq(Events)
    BY <2>1, EmitType DEF Approve, EVENT_TYPES
  <2>3. steps' \in [StepIds -> StepRows]
    BY <2>1, SetStepType DEF Approve, AnyStatus, STEP_STATUSES
  <2> QED BY <2>1, <2>2, <2>3 DEF Approve, TypeOK
<1> QED BY <1>1, <1>2, <1>3, <1>4

LEMMA TypeHost ==
  ASSUME TypeOK,
         \/ Reopen
         \/ \E s \in StepIds : Rerun(s) \/ Reclaim(s) \/ HostFails(s)
         \/ \E s \in StepIds, result \in Results \ {"none"} : Reconcile(s, result)
         \/ \E s \in StepIds, type \in ExtensionTypes : HandlerAppends(s, type)
  PROVE  TypeOK'
<1> USE DEF RunStatuses, PcValues, StepPcs
<1>1. CASE Reopen
  <2>1. moves' \in [Moves -> Nat]
    BY <1>1, SpendType DEF Reopen, Moves
  <2> QED BY <1>1, <2>1 DEF Reopen, TypeOK
<1>2. ASSUME NEW s \in StepIds, Rerun(s) PROVE TypeOK'
  <2>1. moves' \in [Moves -> Nat]
    BY <1>2, SpendType DEF Rerun, Moves
  <2>2. steps' \in [StepIds -> StepRows]
    <3>1. SetStep(s, "pending") /\ "pending" \in AnyStatus
      BY <1>2 DEF Rerun, AnyStatus, STEP_STATUSES
    <3> QED BY <3>1, SetStepType
  <2> QED BY <1>2, <2>1, <2>2 DEF Rerun, NewGeneration, Results, TypeOK
<1>3. ASSUME NEW s \in StepIds, Reclaim(s) PROVE TypeOK'
  <2>1. steps' \in [StepIds -> StepRows]
    <3>1. SetStep(s, "pending") /\ "pending" \in AnyStatus
      BY <1>3 DEF Reclaim, AnyStatus, STEP_STATUSES
    <3> QED BY <3>1, SetStepType
  <2> QED BY <1>3, <2>1 DEF Reclaim, TypeOK
<1>4. ASSUME NEW s \in StepIds, HostFails(s) PROVE TypeOK'
  <2>1. moves' \in [Moves -> Nat]
    BY <1>4, SpendType DEF HostFails, Moves
  <2> QED BY <1>4, <2>1, HostFailureType DEF HostFails, TypeOK
<1>5. ASSUME NEW s \in StepIds, NEW result \in Results \ {"none"}, Reconcile(s, result)
      PROVE  TypeOK'
  <2>1. answer' \in [StepIds -> Results]
    BY <1>5 DEF Reconcile, TypeOK
  <2>2. CASE result = "failed"
    BY <1>5, <2>1, <2>2, HostFailureType DEF Reconcile, TypeOK
  <2>3. CASE result # "failed"
    <3>1. steps' \in [StepIds -> StepRows]
      BY <1>5, <2>3, SetStepType DEF Reconcile, AnyStatus, STEP_STATUSES, Results
    <3> QED BY <1>5, <2>1, <2>3, <3>1 DEF Reconcile, TypeOK
  <2> QED BY <2>2, <2>3
<1>6. ASSUME NEW s \in StepIds, NEW type \in ExtensionTypes, HandlerAppends(s, type)
      PROVE  TypeOK'
  <2>1. moves' \in [Moves -> Nat]
    BY <1>6, SpendType DEF HandlerAppends, Moves
  <2>2. log' \in Seq(Events)
    BY <1>6, EmitType, AtStep DEF HandlerAppends, EVENT_TYPES
  <2>3. steps' \in [StepIds -> StepRows]
    BY <1>6, RowsAssumption
    DEF HandlerAppends, TypeOK, StepRows, AnyStatus, STEP_STATUSES
  <2> QED BY <1>6, <2>1, <2>2, <2>3 DEF HandlerAppends, TypeOK
<1> QED BY <1>1, <1>2, <1>3, <1>4, <1>5, <1>6

\* Whatever the drive, the user and the host do, every row and local keeps its
\* type.
LEMMA TypeStep == TypeOK /\ [Next]_vars => TypeOK'
<1> SUFFICES ASSUME TypeOK, [Next]_vars PROVE TypeOK'
  OBVIOUS
<1>1. CASE Engine
  BY <1>1, TypeLoop, TypeGates, TypeRunStep, TypeRunEnds DEF Engine
<1>2. CASE StartDrive
  <2>1. moves' \in [Moves -> Nat]
    BY <1>2, SpendType DEF StartDrive, Moves
  <2> QED BY <1>2, <2>1 DEF StartDrive, TypeOK, PcValues, StepPcs, Outcomes
<1>3. CASE EndEarly
  <2>1. moves' \in [Moves -> Nat]
    BY <1>3, SpendType DEF EndEarly, Moves
  <2> QED BY <1>3, <2>1, NoOptionsType, NoStepsType
    DEF EndEarly, TypeOK, PcValues, StepPcs, Outcomes
<1>4. CASE Outside
  BY <1>4, TypeUser, TypeHost DEF Outside
<1>5. CASE UNCHANGED vars
  BY <1>5 DEF vars, TypeOK
<1> QED BY <1>1, <1>2, <1>3, <1>4, <1>5 DEF Next

\* Every row and local of a drive has its type, for every plan.
THEOREM TypeCorrect == Spec => []TypeOK
BY TypeInit, TypeStep, PTL DEF Spec

-----------------------------------------------------------------------------
\* From the listing to the gates only an approval may have come in between, and
\* the step in hand is the first one open.
PassInv ==
  pc = "decide" =>
    /\ \A s \in StepIds :
         \/ seen[s] = steps[s].status
         \/ seen[s] = "awaiting_approval" /\ steps[s].status = "approved"
    /\ at = 0 => NoneOpen(seen)
    /\ at # 0 => FirstOpen(seen, at)

\* The statuses of a step whose handler the current generation never entered.
NotEntered == {"pending", "awaiting_approval", "approved", "unrecognized", Absent}

\* One step's row agrees with the host's record of its current generation.
Recorded(s) ==
  /\ entries[s] <= 1
  /\ steps[s].status \in NotEntered => entries[s] = 0
  /\ steps[s].status \in {"approved", "running"} => warrant[s]
  /\ entries[s] > 0 /\ steps[s].status \in {"completed", "failed", "skipped"}
       => answer[s] = steps[s].status

\* What a drive knows of the step in hand while it runs it.
InHand ==
  /\ pc \in {"autoEvent", "enter"} => warrant[at] /\ steps[at].status \in Runnable
  /\ pc \in {"startedEvent", "invoke"} =>
       warrant[at] /\ steps[at].status = "running" /\ entries[at] = 0
  /\ pc = "working" => warrant[at] /\ steps[at].status = "running"
  /\ pc = "completeStep" => steps[at].status = "running" /\ answer[at] = "completed"
  /\ pc = "skipStep" => steps[at].status = "running" /\ answer[at] = "skipped"
  /\ pc = "failStep" => /\ steps[at].status = "running"
                        /\ entries[at] = 0 \/ answer[at] = "failed"

RecordInv == (\A s \in StepIds : Recorded(s)) /\ InHand

-----------------------------------------------------------------------------
\* A gate that does not stop a step is one the documentation lets it pass: the
\* tables of AgentPolicies and the rules they are checked against agree, for
\* every type and every stored value.
LEMMA GateKeepsRules ==
  ASSUME NEW o, NEW type, NEW flagged \in BOOLEAN, ~ResolveGate(o, type, flagged)
  PROVE  MayRunUnattended(o, type, flagged)
<1>1. CASE o.policy = NULL
  BY <1>1 DEF ResolveGate, MayRunUnattended
<1>2. CASE o.policy # NULL /\ type \in HardGatedTypes
  <2>1. Tier(type) = HARD_GATED
    BY <1>2 DEF Tier, HardGatedTypes, AutoSafeTypes
  <2>2. /\ type \in NormalizePreapproved(o.preapproved)
        /\ o.policy = "auto_complete"
    BY <1>2, <2>1 DEF ResolveGate, RequiresStop, HARD_GATED, REVIEW_RECOMMENDED
  <2> QED BY <1>2, <2>2
    DEF MayRunUnattended, NormalizePreapproved, StringMembers, PREAPPROVABLE_STEP_TYPES
<1>3. CASE o.policy # NULL /\ type \notin HardGatedTypes
  <2>1. (Tier(type) = AUTO_SAFE /\ type \in AutoSafeTypes) \/ Tier(type) = REVIEW_RECOMMENDED
    BY <1>3 DEF Tier
  <2>2. o.policy = "auto_complete" \/ (Tier(type) # REVIEW_RECOMMENDED /\ ~flagged)
    BY <1>3, <2>1
    DEF ResolveGate, RequiresStop, HARD_GATED, REVIEW_RECOMMENDED, AUTO_SAFE
  <2> QED BY <1>3, <2>1, <2>2 DEF MayRunUnattended
<1> QED BY <1>1, <1>2, <1>3

-----------------------------------------------------------------------------
\* PassInv: the listing is taken whole, and until the gates have decided nobody
\* but the user writes a step.
LEMMA OnlyReadStepsDecides == ASSUME TypeOK, Engine, ~ReadSteps PROVE pc' # "decide"
<1>1. CASE Loop
  BY <1>1 DEF Loop, TakeCursor, ClaimRun, Drain, ReadRun, RefuseUnrecognized,
    FindFailed, FailQuietly
<1>2. CASE Gates
  BY <1>2 DEF Gates, SkipUngranted, RefuseRunning, SkipEvent, PauseForBudget,
    BudgetPause, BudgetPauseEvent, Park, ParkEvent, StillAwaiting, ParkRun,
    AutoApprove, AutoApproveEvent, PassGate, PassApproved
<1>3. CASE RunStep
  BY <1>3 DEF RunStep, EnterRunning, EntryRefused, StartedEvent, Invoke,
    HandlerAnswers, HandlerReturns, HandlerInapplicable, HandlerRaises,
    OutcomeUnknown, HandlerPrepares, Reread, CompleteStep, StepCompletedEvent,
    SkipStep, FailStep, StepFailedEvent
<1>4. CASE RunEnds
  BY <1>4 DEF RunEnds, FailRun, FailRunStatus, FinalRead, CompleteRun,
    RunCompletedEvent, CallHook
<1> QED BY <1>1, <1>2, <1>3, <1>4 DEF Engine

\* Outside moves leave the drive where it is.
LEMMA OutsideLeavesDrive ==
  ASSUME Outside
  PROVE  UNCHANGED <<pc, after, at, seen, cur, outcome>>
BY DEF Outside, Resume, Reopen, SetOptions, UserStops, Approve, Rerun, Reclaim,
  HostFails, Reconcile, HandlerAppends

\* While a pass decides, nobody but the user writes a step.
LEMMA OutsideWhileDeciding ==
  ASSUME Outside, pc # "idle", pc # "working", ~(\E s \in StepIds : Approve(s))
  PROVE  UNCHANGED <<steps, entries, answer, warrant, owed>>
BY DEF Outside, Resume, Reopen, SetOptions, UserStops, Rerun, Reclaim, HostFails,
  Reconcile, HandlerAppends

LEMMA PassStep == ASSUME TypeOK, PassInv, [Next]_vars PROVE PassInv'
<1>1. CASE Engine /\ ~ReadSteps
  BY <1>1, OnlyReadStepsDecides DEF PassInv
<1>2. CASE ReadSteps
  <2>1. seen' = Statuses /\ steps' = steps
    BY <1>2 DEF ReadSteps
  <2>2. \A s \in StepIds : seen'[s] = steps'[s].status
    BY <2>1 DEF Statuses
  <2>3. (at' = 0 => NoneOpen(seen')) /\ (at' # 0 => FirstOpen(seen', at'))
    BY <1>2, <2>1 DEF ReadSteps, StepIds
  <2> QED BY <2>2, <2>3 DEF PassInv, NoneOpen, FirstOpen
<1>3. CASE StartDrive \/ EndEarly
  BY <1>3 DEF StartDrive, EndEarly, PassInv, NoneOpen, FirstOpen
<1>4. CASE \E s \in StepIds : Approve(s)
  <2>1. PICK s \in StepIds : Approve(s)
    BY <1>4
  <2>2. \A t \in StepIds : steps'[t].status = (IF t = s THEN "approved" ELSE steps[t].status)
    BY <2>1 DEF Approve, TypeOK, StepRows
  <2> QED BY <2>1, <2>2 DEF Approve, PassInv, NoneOpen, FirstOpen
<1>5. CASE Outside /\ ~(\E s \in StepIds : Approve(s)) /\ pc = "decide"
  BY <1>5, OutsideLeavesDrive, OutsideWhileDeciding DEF PassInv, NoneOpen, FirstOpen
<1>6. CASE Outside /\ pc # "decide"
  BY <1>6, OutsideLeavesDrive DEF PassInv
<1>7. CASE UNCHANGED vars
  BY <1>7 DEF vars, PassInv, NoneOpen, FirstOpen
<1> QED BY <1>1, <1>2, <1>3, <1>4, <1>5, <1>6, <1>7 DEF Next, Engine, Loop

-----------------------------------------------------------------------------
\* RecordInv: the rows and the host's record, action by action.

LEMMA SetStepStatus ==
  ASSUME TypeOK, NEW s \in StepIds, NEW x, SetStep(s, x)
  PROVE  \A t \in StepIds :
           /\ steps'[t].status = (IF t = s THEN x ELSE steps[t].status)
           /\ steps'[t].type = steps[t].type /\ steps'[t].flagged = steps[t].flagged
BY DEF TypeOK, StepRows

\* The actions that write a step's row or the record of its generation.
Writers ==
  \/ SkipUngranted \/ Park \/ AutoApprove \/ PassGate \/ EnterRunning \/ Invoke
  \/ HandlerReturns \/ HandlerInapplicable \/ HandlerRaises
  \/ \E parked \in PendingOrAwaiting : HandlerPrepares(parked)
  \/ CompleteStep \/ SkipStep \/ FailStep

LEMMA OthersKeepRecord ==
  ASSUME Engine \/ StartDrive \/ EndEarly, ~Writers
  PROVE  UNCHANGED <<steps, entries, answer, warrant>>
<1>1. CASE Loop
  BY <1>1 DEF Loop, TakeCursor, ClaimRun, Drain, ReadRun, ReadSteps,
    RefuseUnrecognized, FindFailed, FailQuietly
<1>2. CASE Gates
  BY <1>2 DEF Gates, Writers, RefuseRunning, SkipEvent, PauseForBudget,
    BudgetPause, BudgetPauseEvent, ParkEvent, StillAwaiting, ParkRun,
    AutoApproveEvent, PassApproved
<1>3. CASE RunStep
  BY <1>3 DEF RunStep, Writers, EntryRefused, StartedEvent, OutcomeUnknown, Reread,
    StepCompletedEvent, StepFailedEvent
<1>4. CASE RunEnds
  BY <1>4 DEF RunEnds, FailRun, FailRunStatus, FinalRead, CompleteRun,
    RunCompletedEvent, CallHook
<1>5. CASE StartDrive \/ EndEarly
  BY <1>5 DEF StartDrive, EndEarly
<1> QED BY <1>1, <1>2, <1>3, <1>4, <1>5 DEF Engine

\* What a pass decides on is what the row still says, up to an approval.
LEMMA DecidingReads ==
  ASSUME TypeOK, PassInv, NEW list, Deciding(list)
  PROVE  /\ at \in StepIds
         /\ \/ steps[at].status \in list
            \/ "awaiting_approval" \in list /\ steps[at].status = "approved"
BY DEF TypeOK, PassInv, Deciding

\* The rules the gate went by clear the step.
LEMMA WarrantGiven ==
  ASSUME TypeOK, at \in StepIds, WarrantByRules, ~MustStop
  PROVE  warrant'[at] /\ \A t \in StepIds : t # at => warrant'[t] = warrant[t]
<1>1. steps[at].flagged \in BOOLEAN
  BY DEF TypeOK, StepRows
<1>2. MayRunUnattended(cur, steps[at].type, steps[at].flagged)
  BY <1>1, GateKeepsRules DEF MustStop
<1> QED BY <1>2 DEF WarrantByRules, TypeOK

LEMMA RecordedWriters ==
  ASSUME TypeOK, PassInv, RecordInv, Writers
  PROVE  \A s \in StepIds : Recorded(s)'
<1> USE DEF RecordInv, InHand, Recorded, NotEntered
<1>1. CASE SkipUngranted
  <2>1. at \in StepIds /\ steps[at].status \in SkippableWithoutGrant
    BY <1>1, DecidingReads DEF SkipUngranted, SkippableWithoutGrant
  <2> QED BY <1>1, <2>1, SetStepStatus DEF SkipUngranted, SkippableWithoutGrant, Absent
<1>2. CASE Park
  <2>1. at \in StepIds /\ steps[at].status = "pending"
    BY <1>2, DecidingReads DEF Park, ReachesApproval
  <2> QED BY <1>2, <2>1, SetStepStatus DEF Park
<1>3. CASE AutoApprove
  <2>1. at \in StepIds /\ steps[at].status \in PendingOrAwaiting \cup {"approved"}
    BY <1>3, DecidingReads DEF AutoApprove, ReachesApproval, PendingOrAwaiting
  <2> QED BY <1>3, <2>1, SetStepStatus, WarrantGiven DEF AutoApprove, PendingOrAwaiting
<1>4. CASE PassGate
  <2>1. at \in StepIds
    BY <1>4, DecidingReads DEF PassGate, ReachesApproval
  <2> QED BY <1>4, <2>1, WarrantGiven DEF PassGate
<1>5. CASE EnterRunning
  <2>1. at \in StepIds
    BY <1>5, AtStep DEF EnterRunning, StepPcs
  <2> QED BY <1>5, <2>1, SetStepStatus DEF EnterRunning, HostRefusesEntry, Runnable, Absent
<1>6. CASE Invoke
  <2>1. at \in StepIds
    BY <1>6, AtStep DEF Invoke, StepPcs
  <2> QED BY <1>6, <2>1 DEF Invoke, Absent, TypeOK
<1>7. CASE HandlerReturns \/ HandlerInapplicable \/ HandlerRaises
  <2>1. at \in StepIds
    BY <1>7, AtStep DEF HandlerReturns, HandlerInapplicable, HandlerRaises,
      HandlerAnswers, StepPcs
  <2> QED BY <1>7, <2>1 DEF HandlerReturns, HandlerInapplicable, HandlerRaises,
      HandlerAnswers, Absent, TypeOK
<1>8. CASE \E parked \in PendingOrAwaiting : HandlerPrepares(parked)
  <2>1. PICK parked \in PendingOrAwaiting : HandlerPrepares(parked)
    BY <1>8
  <2>2. at \in StepIds
    BY <2>1, AtStep DEF HandlerPrepares, StepPcs
  <2> QED BY <2>1, <2>2, SetStepStatus
    DEF HandlerPrepares, NewGeneration, PendingOrAwaiting, Absent, TypeOK
<1>9. CASE CompleteStep \/ SkipStep \/ FailStep
  <2>1. at \in StepIds
    BY <1>9, AtStep DEF CompleteStep, SkipStep, FailStep, StepPcs
  <2> QED BY <1>9, <2>1, SetStepStatus DEF CompleteStep, SkipStep, FailStep, Absent
<1> QED BY <1>1, <1>2, <1>3, <1>4, <1>5, <1>6, <1>7, <1>8, <1>9 DEF Writers

LEMMA RecordedOutside ==
  ASSUME TypeOK, RecordInv, Outside
  PROVE  \A s \in StepIds : Recorded(s)'
<1> USE DEF RecordInv, Recorded, NotEntered
<1>1. CASE Resume \/ Reopen \/ (\E o \in Options : SetOptions(o))
           \/ (\E s \in StopStatuses : UserStops(s))
  BY <1>1 DEF Resume, Reopen, SetOptions, UserStops
<1>2. ASSUME NEW s \in StepIds, Approve(s) PROVE \A t \in StepIds : Recorded(t)'
  BY <1>2, SetStepStatus DEF Approve, TypeOK
<1>3. ASSUME NEW s \in StepIds, Rerun(s) PROVE \A t \in StepIds : Recorded(t)'
  BY <1>3, SetStepStatus DEF Rerun, NewGeneration, TypeOK, Absent
<1>4. ASSUME NEW s \in StepIds, Reclaim(s) PROVE \A t \in StepIds : Recorded(t)'
  BY <1>4, SetStepStatus DEF Reclaim, TypeOK, Absent
<1>5. ASSUME NEW s \in StepIds, HostFails(s) PROVE \A t \in StepIds : Recorded(t)'
  BY <1>5, SetStepStatus DEF HostFails, HostFailure, TypeOK, Absent
<1>6. ASSUME NEW s \in StepIds, NEW result \in Results \ {"none"}, Reconcile(s, result)
      PROVE  \A t \in StepIds : Recorded(t)'
  <2>1. SetStep(s, result)
    BY <1>6 DEF Reconcile, HostFailure
  <2> QED BY <1>6, <2>1, SetStepStatus DEF Reconcile, Results, TypeOK, Absent
<1>7. ASSUME NEW s \in StepIds, NEW type \in ExtensionTypes, HandlerAppends(s, type)
      PROVE  \A t \in StepIds : Recorded(t)'
  <2>1. \A t \in StepIds :
          steps'[t].status = (IF t = s THEN "pending" ELSE steps[t].status)
    BY <1>7 DEF HandlerAppends, TypeOK
  <2> QED BY <1>7, <2>1 DEF HandlerAppends, TypeOK, Absent
<1> QED BY <1>1, <1>2, <1>3, <1>4, <1>5, <1>6, <1>7 DEF Outside

\* Where InHand says nothing.
NotInHand ==
  PcValues \ {"autoEvent", "enter", "startedEvent", "invoke", "working",
              "completeStep", "skipStep", "failStep"}

LEMMA InHandEngine ==
  ASSUME TypeOK, PassInv, RecordInv, Engine
  PROVE  InHand'
<1> USE DEF RecordInv, InHand
<1>1. CASE Loop
  <2>1. pc' \in NotInHand
    BY <1>1 DEF Loop, TakeCursor, ClaimRun, Drain, ReadRun, ReadSteps,
      RefuseUnrecognized, FindFailed, FailQuietly, NotInHand, PcValues
  <2> QED BY <2>1 DEF NotInHand
<1>2. CASE RunEnds
  <2>1. pc' \in NotInHand
    BY <1>2 DEF RunEnds, FailRun, FailRunStatus, FinalRead, CompleteRun,
      RunCompletedEvent, CallHook, NotInHand, PcValues
  <2> QED BY <2>1 DEF NotInHand
<1>3. CASE AutoApprove
  <2>1. at \in StepIds
    BY <1>3, DecidingReads DEF AutoApprove, ReachesApproval
  <2>2. warrant'[at]
    BY <1>3, <2>1, WarrantGiven DEF AutoApprove
  <2>3. steps'[at].status = "approved"
    BY <1>3, <2>1 DEF AutoApprove, TypeOK, StepRows
  <2> QED BY <1>3, <2>2, <2>3 DEF AutoApprove, Runnable
<1>4. CASE AutoApproveEvent
  BY <1>4 DEF AutoApproveEvent
<1>5. CASE PassGate
  <2>1. at \in StepIds /\ steps[at].status \in PendingOrAwaiting \cup {"approved"}
    BY <1>5, DecidingReads DEF PassGate, ReachesApproval, PendingOrAwaiting
  <2> QED BY <1>5, <2>1, WarrantGiven DEF PassGate, PendingOrAwaiting, Runnable
<1>6. CASE PassApproved
  <2>1. at \in StepIds /\ steps[at].status \in {"approved", "running"}
    BY <1>6, DecidingReads DEF PassApproved, ReachesApproval
  <2> QED BY <1>6, <2>1 DEF PassApproved, Recorded, Runnable
<1>7. CASE Gates /\ ~AutoApprove /\ ~AutoApproveEvent /\ ~PassGate /\ ~PassApproved
  <2>1. pc' \in NotInHand
    BY <1>7 DEF Gates, SkipUngranted, RefuseRunning, SkipEvent, PauseForBudget,
      BudgetPause, BudgetPauseEvent, Park, ParkEvent, StillAwaiting, ParkRun,
      NotInHand, PcValues
  <2> QED BY <2>1 DEF NotInHand
<1>8. CASE EnterRunning
  <2>1. at \in StepIds
    BY <1>8, AtStep DEF EnterRunning, StepPcs
  <2>2. entries[at] = 0
    BY <1>8, <2>1 DEF EnterRunning, HostRefusesEntry, Recorded, NotEntered, Runnable, TypeOK
  <2>3. steps'[at].status = "running"
    BY <1>8, <2>1 DEF EnterRunning, TypeOK, StepRows
  <2> QED BY <1>8, <2>2, <2>3 DEF EnterRunning
<1>9. CASE StartedEvent
  BY <1>9 DEF StartedEvent
<1>10. CASE Invoke
  BY <1>10 DEF Invoke
<1>11. CASE HandlerReturns \/ HandlerInapplicable \/ HandlerRaises
  <2>1. at \in StepIds
    BY <1>11, AtStep DEF HandlerReturns, HandlerInapplicable, HandlerRaises,
      HandlerAnswers, StepPcs
  <2> QED BY <1>11, <2>1 DEF HandlerReturns, HandlerInapplicable, HandlerRaises,
      HandlerAnswers, TypeOK
<1>12. CASE RunStep /\ ~EnterRunning /\ ~StartedEvent /\ ~Invoke /\ ~HandlerReturns
            /\ ~HandlerInapplicable /\ ~HandlerRaises
  <2>1. pc' \in NotInHand
    BY <1>12 DEF RunStep, EntryRefused, OutcomeUnknown, HandlerPrepares, Reread,
      CompleteStep, StepCompletedEvent, SkipStep, FailStep, StepFailedEvent,
      NotInHand, PcValues
  <2> QED BY <2>1 DEF NotInHand
<1> QED BY <1>1, <1>2, <1>3, <1>4, <1>5, <1>6, <1>7, <1>8, <1>9, <1>10, <1>11, <1>12
  DEF Engine

LEMMA InHandOutside ==
  ASSUME TypeOK, RecordInv, Outside
  PROVE  InHand'
<1> USE DEF RecordInv, InHand
<1>1. pc' = pc /\ at' = at
  BY OutsideLeavesDrive
<1>2. CASE \E s \in StepIds : Approve(s)
  <2>1. PICK s \in StepIds : Approve(s)
    BY <1>2
  <2>2. pc \in StepPcs => at \in StepIds
    BY AtStep
  <2>3. \A t \in StepIds :
          /\ steps'[t].status = (IF t = s THEN "approved" ELSE steps[t].status)
          /\ warrant'[t] = (IF t = s THEN TRUE ELSE warrant[t])
    BY <2>1, SetStepStatus DEF Approve, TypeOK
  <2> QED BY <1>1, <2>1, <2>2, <2>3 DEF Approve, StepPcs, Runnable
<1>3. CASE pc \notin {"idle", "working"} /\ ~(\E s \in StepIds : Approve(s))
  BY <1>1, <1>3, OutsideWhileDeciding
<1>4. CASE pc = "idle"
  BY <1>1, <1>4
<1>5. CASE pc = "working" /\ ~(\E s \in StepIds : Approve(s))
  <2>1. at \in StepIds
    BY <1>5, AtStep DEF StepPcs
  <2>2. CASE Resume \/ Reopen \/ (\E o \in Options : SetOptions(o))
             \/ (\E s \in StopStatuses : UserStops(s))
    BY <1>1, <2>2 DEF Resume, Reopen, SetOptions, UserStops
  <2>3. ASSUME NEW s \in StepIds, HostFails(s) PROVE InHand'
    BY <1>1, <1>5, <2>1, <2>3, SetStepStatus DEF HostFails, HostFailure
  <2>4. ASSUME NEW s \in StepIds, NEW type \in ExtensionTypes, HandlerAppends(s, type)
        PROVE  InHand'
    <3>1. s # at
      BY <1>5, <2>4 DEF HandlerAppends, Absent
    <3>2. steps'[at] = steps[at]
      BY <2>1, <2>4, <3>1 DEF HandlerAppends, TypeOK
    <3> QED BY <1>1, <1>5, <2>4, <3>2 DEF HandlerAppends
  <2> QED BY <1>5, <2>2, <2>3, <2>4 DEF Outside, Rerun, Reclaim, Reconcile
<1> QED BY <1>2, <1>3, <1>4, <1>5

LEMMA RecordInit == ASSUME Init PROVE PassInv /\ RecordInv
<1>1. \A s \in StepIds : steps[s].status \in {"pending", "unrecognized", Absent}
  BY RowsAssumption DEF Init
<1> QED BY <1>1 DEF Init, PassInv, RecordInv, InHand, Recorded, Absent

LEMMA RecordStep == ASSUME TypeOK, PassInv, RecordInv, [Next]_vars PROVE RecordInv'
<1>1. CASE Writers /\ Engine
  BY <1>1, RecordedWriters, InHandEngine DEF RecordInv
<1>2. CASE Engine /\ ~Writers
  <2>1. \A s \in StepIds : Recorded(s)'
    BY <1>2, OthersKeepRecord DEF RecordInv, Recorded
  <2> QED BY <1>2, <2>1, InHandEngine DEF RecordInv
<1>3. CASE StartDrive \/ EndEarly
  BY <1>3 DEF StartDrive, EndEarly, RecordInv, Recorded, InHand
<1>4. CASE Outside
  BY <1>4, RecordedOutside, InHandOutside DEF RecordInv
<1>5. CASE UNCHANGED vars
  BY <1>5 DEF vars, RecordInv, Recorded, InHand
<1> QED BY <1>1, <1>2, <1>3, <1>4, <1>5 DEF Next

\* The rows and the host's record of every action generation always agree.
LEMMA RecordHolds == Spec => [](TypeOK /\ PassInv /\ RecordInv)
<1>1. Init => TypeOK /\ PassInv /\ RecordInv
  BY TypeInit, RecordInit
<1>2. TypeOK /\ PassInv /\ RecordInv /\ [Next]_vars => (TypeOK /\ PassInv /\ RecordInv)'
  BY TypeStep, PassStep, RecordStep
<1> QED BY <1>1, <1>2, PTL DEF Spec

\* No action generation is ever entered twice, whatever drives were interrupted
\* and wherever.
THEOREM EntryAtMostOnceHolds == Spec => []EntryAtMostOnce
<1>1. RecordInv => EntryAtMostOnce
  BY DEF RecordInv, Recorded, EntryAtMostOnce
<1> QED BY <1>1, RecordHolds, PTL

\* Every handler that runs was approved, or may run unattended.
THEOREM EntryWarrantedHolds == Spec => []EntryWarranted
<1>1. RecordInv => EntryWarranted
  BY DEF RecordInv, InHand, EntryWarranted
<1> QED BY <1>1, RecordHolds, PTL

\* A step whose handler was entered is closed only with its own outcome.
THEOREM AuthoritativeOutcomeHolds == Spec => []AuthoritativeOutcome
<1>1. RecordInv => AuthoritativeOutcome
  BY DEF RecordInv, Recorded, AuthoritativeOutcome
<1> QED BY <1>1, RecordHolds, PTL

-----------------------------------------------------------------------------
\* Termination: what each action does to the plan and to the drive's way down.

LEMMA ToDoType == \A st : ToDo(st) \in 0..4
BY DEF ToDo

LEMMA StepsAlone == ASSUME UNCHANGED steps PROVE KeepsSteps
BY ToDoType DEF KeepsSteps

\* A write to one step's row counts as that step's own way forward.
LEMMA StepForward ==
  ASSUME TypeOK, NEW s \in StepIds, NEW x, SetStep(s, x)
  PROVE  /\ ToDo(x) <= ToDo(steps[s].status) => KeepsSteps
         /\ ToDo(x) < ToDo(steps[s].status) => KeepsSteps /\ MovesAStep
<1>1. \A t \in StepIds : steps'[t].status = (IF t = s THEN x ELSE steps[t].status)
  BY DEF TypeOK, StepRows
<1> QED BY <1>1, ToDoType DEF KeepsSteps, MovesAStep

\* The actions that bring the step in hand forward, and those that write it and
\* may leave it as far from its end as it was.
Forwards == SkipUngranted \/ Park \/ CompleteStep \/ SkipStep \/ FailStep
Prepares == \E parked \in PendingOrAwaiting : HandlerPrepares(parked)

LEMMA ForwardMoves ==
  ASSUME TypeOK, PassInv, RecordInv, Forwards
  PROVE  KeepsSteps /\ MovesAStep
<1>1. CASE SkipUngranted
  <2>1. at \in StepIds /\ steps[at].status \in SkippableWithoutGrant
    BY <1>1, DecidingReads DEF SkipUngranted, SkippableWithoutGrant
  <2>2. SetStep(at, "skipped")
    BY <1>1 DEF SkipUngranted
  <2>3. ToDo("skipped") < ToDo(steps[at].status)
    BY <2>1 DEF ToDo, SkippableWithoutGrant
  <2> QED BY <2>1, <2>2, <2>3, StepForward
<1>2. CASE Park
  <2>1. at \in StepIds /\ steps[at].status = "pending"
    BY <1>2, DecidingReads DEF Park, ReachesApproval
  <2>2. SetStep(at, "awaiting_approval")
    BY <1>2 DEF Park
  <2>3. ToDo("awaiting_approval") < ToDo(steps[at].status)
    BY <2>1 DEF ToDo
  <2> QED BY <2>1, <2>2, <2>3, StepForward
<1>3. CASE CompleteStep \/ SkipStep \/ FailStep
  <2>1. at \in StepIds
    BY <1>3, AtStep DEF CompleteStep, SkipStep, FailStep, StepPcs
  <2>2. steps[at].status = "running"
    BY <1>3 DEF CompleteStep, SkipStep, FailStep, RecordInv, InHand
  <2>3. PICK x \in {"completed", "skipped", "failed"} : SetStep(at, x)
    BY <1>3 DEF CompleteStep, SkipStep, FailStep
  <2>4. ToDo(x) < ToDo(steps[at].status)
    BY <2>2 DEF ToDo
  <2> QED BY <2>1, <2>3, <2>4, StepForward
<1> QED BY <1>1, <1>2, <1>3 DEF Forwards

\* Nothing else a drive does, but preparing a new generation, brings a step back.
LEMMA OthersKeepSteps ==
  ASSUME TypeOK, PassInv, RecordInv, Engine, ~Forwards, ~Prepares
  PROVE  KeepsSteps
<1>1. CASE AutoApprove
  <2>1. at \in StepIds /\ steps[at].status \in PendingOrAwaiting \cup {"approved"}
    BY <1>1, DecidingReads DEF AutoApprove, ReachesApproval, PendingOrAwaiting
  <2>2. SetStep(at, "approved")
    BY <1>1 DEF AutoApprove
  <2>3. ToDo("approved") <= ToDo(steps[at].status)
    BY <2>1 DEF ToDo, PendingOrAwaiting
  <2> QED BY <2>1, <2>2, <2>3, StepForward
<1>2. CASE EnterRunning
  <2>1. at \in StepIds
    BY <1>2, AtStep DEF EnterRunning, StepPcs
  <2>2. steps[at].status \in Runnable /\ SetStep(at, "running")
    BY <1>2 DEF EnterRunning, RecordInv, InHand
  <2>3. ToDo("running") <= ToDo(steps[at].status)
    BY <2>2 DEF ToDo, Runnable
  <2> QED BY <2>1, <2>2, <2>3, StepForward
<1>3. CASE ~Writers
  BY <1>3, OthersKeepRecord, StepsAlone
<1>4. CASE PassGate \/ Invoke \/ HandlerReturns \/ HandlerInapplicable \/ HandlerRaises
  BY <1>4, StepsAlone DEF PassGate, Invoke, HandlerAnswers, HandlerReturns,
    HandlerInapplicable, HandlerRaises
<1> QED BY <1>1, <1>2, <1>3, <1>4 DEF Writers, Forwards, Prepares

\* Only preparing a generation takes one of the limited moves.
LEMMA EngineKeepsMoves == ASSUME Engine, ~Prepares PROVE UNCHANGED moves
<1>1. CASE Loop
  BY <1>1 DEF Loop, TakeCursor, ClaimRun, Drain, ReadRun, ReadSteps,
    RefuseUnrecognized, FindFailed, FailQuietly
<1>2. CASE Gates
  BY <1>2 DEF Gates, SkipUngranted, RefuseRunning, SkipEvent, PauseForBudget,
    BudgetPause, BudgetPauseEvent, Park, ParkEvent, StillAwaiting, ParkRun,
    AutoApprove, AutoApproveEvent, PassGate, PassApproved
<1>3. CASE RunStep
  BY <1>3 DEF RunStep, Prepares, EnterRunning, EntryRefused, StartedEvent, Invoke,
    HandlerAnswers, HandlerReturns, HandlerInapplicable, HandlerRaises,
    OutcomeUnknown, Reread, CompleteStep, StepCompletedEvent, SkipStep, FailStep,
    StepFailedEvent
<1>4. CASE RunEnds
  BY <1>4 DEF RunEnds, FailRun, FailRunStatus, FinalRead, CompleteRun,
    RunCompletedEvent, CallHook
<1> QED BY <1>1, <1>2, <1>3, <1>4 DEF Engine

\* Every other call of the engine leads down.
LEMMA EngineComesNearer ==
  ASSUME TypeOK, Engine, ~Forwards, ~Prepares
  PROVE  ComesNearer
<1> USE DEF ComesNearer, Height
<1>1. CASE Loop
  <2>1. CASE TakeCursor \/ ClaimRun \/ ReadSteps
    BY <2>1 DEF TakeCursor, ClaimRun, ReadSteps
  <2>2. CASE Drain
    BY <2>2 DEF Drain
  <2>3. CASE ReadRun
    BY <2>3 DEF ReadRun
  <2>4. CASE RefuseUnrecognized \/ FindFailed \/ FailQuietly
    BY <2>4 DEF RefuseUnrecognized, FindFailed, FailQuietly, Deciding
  <2> QED BY <1>1, <2>1, <2>2, <2>3, <2>4 DEF Loop
<1>2. CASE Gates
  <2>1. CASE RefuseRunning \/ PauseForBudget \/ StillAwaiting
    BY <2>1 DEF RefuseRunning, PauseForBudget, StillAwaiting, ReachesApproval, Deciding
  <2>2. CASE SkipEvent \/ BudgetPause \/ BudgetPauseEvent \/ ParkEvent \/ ParkRun
    BY <2>2 DEF SkipEvent, BudgetPause, BudgetPauseEvent, ParkEvent, ParkRun
  <2>3. CASE AutoApprove \/ AutoApproveEvent \/ PassGate \/ PassApproved
    BY <2>3 DEF AutoApprove, AutoApproveEvent, PassGate, PassApproved, ReachesApproval,
      Deciding
  <2> QED BY <1>2, <2>1, <2>2, <2>3 DEF Gates, Forwards
<1>3. CASE RunStep
  <2>1. CASE EnterRunning \/ EntryRefused \/ StartedEvent \/ Invoke
    BY <2>1 DEF EnterRunning, EntryRefused, StartedEvent, Invoke
  <2>2. CASE HandlerReturns \/ HandlerInapplicable \/ HandlerRaises \/ OutcomeUnknown
    BY <2>2 DEF HandlerReturns, HandlerInapplicable, HandlerRaises, HandlerAnswers,
      OutcomeUnknown
  <2>3. CASE Reread
    <3>1. pc = "reread" /\ pc' = "drain" /\ after' \in {"idle", "failRun", "readRun"}
      BY <2>3 DEF Reread
    <3> QED BY <3>1
  <2>4. CASE StepCompletedEvent \/ StepFailedEvent
    BY <2>4 DEF StepCompletedEvent, StepFailedEvent
  <2> QED BY <1>3, <2>1, <2>2, <2>3, <2>4 DEF RunStep, Forwards, Prepares
<1>4. CASE RunEnds
  <2>1. CASE FailRun \/ FailRunStatus \/ CompleteRun
    BY <2>1 DEF FailRun, FailRunStatus, CompleteRun
  <2>2. CASE FinalRead \/ RunCompletedEvent \/ CallHook
    BY <2>2 DEF FinalRead, RunCompletedEvent, CallHook
  <2> QED BY <1>4, <2>1, <2>2 DEF RunEnds
<1> QED BY <1>1, <1>2, <1>3, <1>4 DEF Engine

\* The user and the host may interfere with a drive only so often.
LEMMA OutsideProgress ==
  ASSUME TypeOK, Outside, pc # "idle"
  PROVE  MakesProgress
<1>1. CASE Resume
  <2>1. TakesBackAPause
    BY <1>1 DEF Resume, TakesBackAPause
  <2>2. KeepsSteps /\ UNCHANGED moves
    BY <1>1, StepsAlone DEF Resume
  <2> QED BY <2>1, <2>2 DEF MakesProgress
<1>2. ASSUME NEW s \in StepIds, Approve(s) PROVE MakesProgress
  <2>1. /\ SetStep(s, "approved") /\ steps[s].status = "awaiting_approval"
        /\ UNCHANGED moves
    BY <1>2 DEF Approve
  <2>2. ToDo("approved") < ToDo(steps[s].status)
    BY <2>1 DEF ToDo
  <2>3. KeepsSteps /\ MovesAStep
    BY <2>1, <2>2, StepForward
  <2> QED BY <2>1, <2>3 DEF MakesProgress
<1>3. CASE TakesAMove
  BY <1>3 DEF MakesProgress
<1>4. CASE (\E o \in Options : SetOptions(o)) \/ (\E s \in StopStatuses : UserStops(s))
  <2>1. Spend("set") \/ Spend("stop")
    BY <1>4 DEF SetOptions, UserStops
  <2> QED BY <1>3, <2>1 DEF TakesAMove, Moves
<1>5. ASSUME NEW s \in StepIds,
             HostFails(s) \/ \E type \in ExtensionTypes : HandlerAppends(s, type)
      PROVE  MakesProgress
  <2>1. Spend("hostfail") \/ Spend("append")
    BY <1>5 DEF HostFails, HandlerAppends
  <2> QED BY <1>3, <2>1 DEF TakesAMove, Moves
<1>6. ~Reopen /\ \A s \in StepIds :
        /\ ~Rerun(s) /\ ~Reclaim(s)
        /\ \A result \in Results \ {"none"} : ~Reconcile(s, result)
  BY DEF Reopen, Rerun, Reclaim, Reconcile
<1> QED BY <1>1, <1>2, <1>4, <1>5, <1>6 DEF Outside

\* No drive makes infinitely many steps: every pass makes progress or exits.
THEOREM PassesMakeProgressHolds == Spec => PassesMakeProgress
<1>1. ASSUME TypeOK, PassInv, RecordInv, Next, pc # "idle" PROVE MakesProgress
  <2>1. CASE Engine /\ Forwards
    <3>1. ~Prepares
      BY <2>1 DEF Forwards, Prepares, HandlerPrepares, SkipUngranted, Park, Deciding,
        ReachesApproval, CompleteStep, SkipStep, FailStep
    <3> QED BY <1>1, <2>1, <3>1, ForwardMoves, EngineKeepsMoves DEF MakesProgress
  <2>2. CASE Engine /\ Prepares
    <3>1. Spend("prepare")
      BY <2>2 DEF Prepares, HandlerPrepares
    <3> QED BY <3>1 DEF MakesProgress, TakesAMove, Moves
  <2>3. CASE Engine /\ ~Forwards /\ ~Prepares
    BY <1>1, <2>3, OthersKeepSteps, EngineComesNearer, EngineKeepsMoves
      DEF MakesProgress
  <2>4. CASE StartDrive
    BY <1>1, <2>4 DEF StartDrive
  <2>5. CASE EndEarly
    <3>1. Spend("end")
      BY <2>5 DEF EndEarly
    <3> QED BY <3>1 DEF MakesProgress, TakesAMove, Moves
  <2>6. CASE Outside
    BY <1>1, <2>6, OutsideProgress
  <2> QED BY <1>1, <2>1, <2>2, <2>3, <2>4, <2>5, <2>6 DEF Next
<1>2. TypeOK /\ PassInv /\ RecordInv /\ [Next]_vars => [pc # "idle" => MakesProgress]_vars
  BY <1>1
<1> QED BY <1>2, RecordHolds, PTL DEF Spec, PassesMakeProgress

-----------------------------------------------------------------------------
\* The places of a pass after it read the run, after the permission gate, and
\* after all the gates.
PastRead  == {"readSteps", "decide", "budgetPause", "parkEvent", "parkRun",
              "autoEvent", "enter", "startedEvent", "invoke"}
PastGrant == PastRead \ {"readSteps", "decide"}
PastGates == {"autoEvent", "enter", "startedEvent", "invoke"}

\* The run as this pass read it.
ReadView == [opts |-> cur, stopped |-> FALSE]

EarlierDone == \A t \in StepIds : t < at => steps[t].status \in Closed \cup {Absent}

GateInv ==
  /\ pc = "readRun" => Now \in window
  /\ pc \in PastRead => ReadView \in window
  /\ pc \in PastGrant => Permitted(cur, steps[at].type)
  /\ pc \in PastGates => ~StepBudgetSpent(cur, Statuses) /\ EarlierDone

-----------------------------------------------------------------------------
\* The budget only tells apart which steps were executed.
LEMMA ExecutedSame ==
  ASSUME NEW l, NEW m,
         \A s \in StepIds :
           l[s] \in {"completed", "failed"} <=> m[s] \in {"completed", "failed"}
  PROVE  Executed(l) = Executed(m)
<1>1. {s \in StepIds : l[s] \in {"completed", "failed"}}
        = {s \in StepIds : m[s] \in {"completed", "failed"}}
  OBVIOUS
<1> QED BY <1>1 DEF Executed

LEMMA BudgetSame ==
  ASSUME NEW o, NEW l, NEW m,
         \A s \in StepIds :
           l[s] \in {"completed", "failed"} <=> m[s] \in {"completed", "failed"}
  PROVE  StepBudgetSpent(o, l) <=> StepBudgetSpent(o, m)
BY ExecutedSame DEF StepBudgetSpent

\* A change of one step's row that neither executes a step nor opens one that was
\* closed leaves what the gates decided as it was.
LEMMA GatesKept ==
  ASSUME TypeOK, at' = at, cur' = cur, ~StepBudgetSpent(cur, Statuses), EarlierDone,
         \A s \in StepIds :
           \/ steps'[s].status = steps[s].status
           \/ /\ s = at \/ steps[s].status = "awaiting_approval"
              /\ steps[s].status \in Runnable /\ steps'[s].status \in Runnable
  PROVE  ~StepBudgetSpent(cur, Statuses)' /\ EarlierDone'
<1>1. \A s \in StepIds : Statuses'[s] \in {"completed", "failed"}
                           <=> Statuses[s] \in {"completed", "failed"}
  BY DEF Statuses, Runnable
<1>2. StepBudgetSpent(cur, Statuses') <=> StepBudgetSpent(cur, Statuses)
  BY <1>1, BudgetSame
<1>3. EarlierDone'
  BY DEF EarlierDone, Closed, Absent, StepIds
<1> QED BY <1>2, <1>3

\* What a pass that reaches the approval gate has established.
LEMMA Established ==
  ASSUME TypeOK, PassInv, GateInv, NEW list, ReachesApproval(list), list \subseteq Runnable
  PROVE  /\ at \in StepIds /\ ReadView \in window /\ Permitted(cur, steps[at].type)
         /\ ~StepBudgetSpent(cur, Statuses) /\ EarlierDone
<1>1. at \in StepIds /\ pc = "decide" /\ seen[at] \in list /\ PermissionGatePassed
      /\ ~StepBudgetSpent(cur, seen)
  BY DEF ReachesApproval, Deciding, TypeOK
<1>2. ReadView \in window
  BY <1>1 DEF GateInv, PastRead
<1>3. Permitted(cur, steps[at].type)
  BY <1>1 DEF PermissionGatePassed, Blocked, Runnable, SkippableWithoutGrant
<1>4. \A s \in StepIds : Statuses[s] \in {"completed", "failed"}
                           <=> seen[s] \in {"completed", "failed"}
  BY <1>1 DEF PassInv, Statuses
<1>5. ~StepBudgetSpent(cur, Statuses)
  BY <1>1, <1>4, BudgetSame
<1>6. EarlierDone
  BY <1>1 DEF EarlierDone, PassInv, FirstOpen, Closed, Absent, StepIds
<1> QED BY <1>1, <1>2, <1>3, <1>5, <1>6

LEMMA GateEngine == ASSUME TypeOK, PassInv, RecordInv, GateInv, Engine PROVE GateInv'
<1> USE DEF PastRead, PastGrant, PastGates
<1>1. CASE Drain
  BY <1>1 DEF Drain, GateInv, Now
<1>2. CASE ReadRun
  <2>1. pc' = "readSteps" => ReadView' = Now
    <3>1. CASE status \in StopStatuses
      BY <1>2, <3>1 DEF ReadRun
    <3>2. CASE status \notin StopStatuses
      <4>1. (status \in StopStatuses) = FALSE
        BY <3>2
      <4>2. Now = [opts |-> opts, stopped |-> FALSE]
        BY <4>1 DEF Now
      <4> QED BY <1>2, <4>2 DEF ReadRun, ReadView
    <3> QED BY <3>1, <3>2
  <2> QED BY <1>2, <2>1 DEF ReadRun, GateInv
<1>3. CASE ReadSteps
  BY <1>3 DEF ReadSteps, GateInv, ReadView
<1>4. CASE PauseForBudget
  <2>1. Permitted(cur, steps[at].type)
    BY <1>4 DEF PauseForBudget, Deciding, PermissionGatePassed, Blocked, Runnable,
      SkippableWithoutGrant
  <2> QED BY <1>4, <2>1 DEF PauseForBudget, Deciding, GateInv, ReadView
<1>5. CASE Park
  <2>1. at \in StepIds /\ ReadView \in window /\ Permitted(cur, steps[at].type)
    BY <1>5, Established DEF Park, Runnable
  <2>2. steps'[at].type = steps[at].type
    BY <1>5, <2>1, SetStepStatus DEF Park
  <2> QED BY <1>5, <2>1, <2>2 DEF Park, GateInv, ReadView
<1>6. CASE ParkEvent
  BY <1>6 DEF ParkEvent, GateInv, ReadView
<1>7. CASE StillAwaiting
  <2>1. ReadView \in window /\ Permitted(cur, steps[at].type)
    BY <1>7, Established DEF StillAwaiting, Runnable
  <2> QED BY <1>7, <2>1 DEF StillAwaiting, GateInv, ReadView
<1>8. CASE AutoApprove
  <2>1. /\ at \in StepIds /\ ReadView \in window /\ Permitted(cur, steps[at].type)
        /\ ~StepBudgetSpent(cur, Statuses) /\ EarlierDone
    BY <1>8, Established DEF AutoApprove, PendingOrAwaiting, Runnable
  <2>2. steps[at].status \in PendingOrAwaiting \cup {"approved"}
    BY <1>8, DecidingReads DEF AutoApprove, ReachesApproval, PendingOrAwaiting
  <2>3. /\ \A s \in StepIds :
             steps'[s].status = (IF s = at THEN "approved" ELSE steps[s].status)
        /\ steps'[at].type = steps[at].type
    BY <1>8, <2>1 DEF AutoApprove, TypeOK, StepRows
  <2>4. at' = at /\ cur' = cur /\ window' = window /\ pc' = "autoEvent"
    BY <1>8 DEF AutoApprove
  <2>5. ~StepBudgetSpent(cur, Statuses)' /\ EarlierDone'
    BY <2>1, <2>2, <2>3, <2>4, GatesKept DEF PendingOrAwaiting, Runnable
  <2> QED BY <2>1, <2>3, <2>4, <2>5 DEF GateInv, ReadView
<1>9. CASE AutoApproveEvent \/ StartedEvent
  BY <1>9 DEF AutoApproveEvent, StartedEvent, GateInv, ReadView, Statuses, EarlierDone
<1>10. CASE PassGate \/ PassApproved
  <2>1. /\ ReadView \in window /\ Permitted(cur, steps[at].type)
        /\ ~StepBudgetSpent(cur, Statuses) /\ EarlierDone
    BY <1>10, Established DEF PassGate, PassApproved, PendingOrAwaiting, Runnable
  <2> QED BY <1>10, <2>1
    DEF PassGate, PassApproved, GateInv, ReadView, Statuses, EarlierDone
<1>11. CASE EnterRunning
  <2>1. at \in StepIds /\ steps[at].status \in Runnable
    BY <1>11, AtStep DEF EnterRunning, StepPcs, RecordInv, InHand
  <2>2. /\ \A s \in StepIds :
             steps'[s].status = (IF s = at THEN "running" ELSE steps[s].status)
        /\ steps'[at].type = steps[at].type
    BY <1>11, <2>1 DEF EnterRunning, TypeOK, StepRows
  <2>3. at' = at /\ cur' = cur /\ window' = window /\ pc' = "startedEvent"
    BY <1>11 DEF EnterRunning
  <2>4. ~StepBudgetSpent(cur, Statuses) /\ EarlierDone
    BY <1>11 DEF EnterRunning, GateInv
  <2>5. ~StepBudgetSpent(cur, Statuses)' /\ EarlierDone'
    BY <2>1, <2>2, <2>3, <2>4, GatesKept DEF Runnable
  <2> QED BY <1>11, <2>2, <2>3, <2>5 DEF EnterRunning, GateInv, ReadView
<1>12. CASE Loop /\ ~Drain /\ ~ReadRun /\ ~ReadSteps
  <2>1. pc' \notin PastRead \cup {"readRun"}
    BY <1>12 DEF Loop, TakeCursor, ClaimRun, RefuseUnrecognized, FindFailed, FailQuietly
  <2> QED BY <2>1 DEF GateInv
<1>13. CASE /\ Gates /\ ~PauseForBudget /\ ~Park /\ ~ParkEvent /\ ~StillAwaiting
            /\ ~AutoApprove /\ ~AutoApproveEvent /\ ~PassGate /\ ~PassApproved
  <2>1. pc' \notin PastRead \cup {"readRun"}
    BY <1>13 DEF Gates, SkipUngranted, RefuseRunning, SkipEvent, BudgetPause,
      BudgetPauseEvent, ParkRun
  <2> QED BY <2>1 DEF GateInv
<1>14. CASE RunStep /\ ~EnterRunning /\ ~StartedEvent
  <2>1. pc' \notin PastRead \cup {"readRun"}
    BY <1>14 DEF RunStep, EntryRefused, Invoke, HandlerAnswers, HandlerReturns,
      HandlerInapplicable, HandlerRaises, OutcomeUnknown, HandlerPrepares, Reread,
      CompleteStep, StepCompletedEvent, SkipStep, FailStep, StepFailedEvent
  <2> QED BY <2>1 DEF GateInv
<1>15. CASE RunEnds
  <2>1. pc' \notin PastRead \cup {"readRun"}
    BY <1>15 DEF RunEnds, FailRun, FailRunStatus, FinalRead, CompleteRun,
      RunCompletedEvent, CallHook
  <2> QED BY <2>1 DEF GateInv
<1> QED BY <1>1, <1>2, <1>3, <1>4, <1>5, <1>6, <1>7, <1>8, <1>9, <1>10, <1>11, <1>12,
  <1>13, <1>14, <1>15 DEF Engine

\* What the run was read as stays in the window, and the run as it is joins it.
LEMMA WindowGrows ==
  ASSUME TypeOK, Outside, pc # "idle"
  PROVE  window \subseteq window' /\ (Now \in window => Now' \in window')
<1>1. ASSUME NEW o \in Options, SetOptions(o)
      PROVE  window \subseteq window' /\ (Now \in window => Now' \in window')
  BY <1>1 DEF SetOptions, Now
<1>2. ASSUME NEW s \in StopStatuses, UserStops(s)
      PROVE  window \subseteq window' /\ (Now \in window => Now' \in window')
  <2>1. (status' \in StopStatuses) = TRUE
    BY <1>2 DEF UserStops
  <2>2. Now' = [opts |-> opts, stopped |-> TRUE]
    BY <1>2, <2>1 DEF Now, UserStops
  <2> QED BY <1>2, <2>2 DEF UserStops
<1>3. CASE Resume
  <2>1. (status' \in StopStatuses) = FALSE
    BY <1>3 DEF Resume, StopStatuses
  <2>2. Now' = [opts |-> opts, stopped |-> FALSE]
    BY <1>3, <2>1 DEF Now, Resume
  <2> QED BY <1>3, <2>2 DEF Resume
<1>4. CASE ~(\E o \in Options : SetOptions(o)) /\ ~(\E s \in StopStatuses : UserStops(s))
           /\ ~Resume
  BY <1>4 DEF Outside, Reopen, Approve, Rerun, Reclaim, Reconcile, HostFails,
    HandlerAppends, Now
<1> QED BY <1>1, <1>2, <1>3, <1>4

LEMMA GateOutside == ASSUME TypeOK, PassInv, RecordInv, GateInv, Outside PROVE GateInv'
<1>1. UNCHANGED <<pc, at, cur>>
  BY OutsideLeavesDrive
<1>2. (pc = "readRun" => Now \in window) /\ (pc \in PastRead => ReadView \in window)
  BY DEF GateInv
<1>3. (pc' = "readRun" => Now' \in window') /\ (pc' \in PastRead => ReadView' \in window')
  BY <1>1, <1>2, WindowGrows DEF PastRead, ReadView
<1>4. CASE pc \notin PastGrant
  BY <1>1, <1>3, <1>4 DEF GateInv, PastGrant, PastGates, PastRead
<1>5. CASE pc \in PastGrant /\ \E s \in StepIds : Approve(s)
  <2>1. PICK s \in StepIds : Approve(s)
    BY <1>5
  <2>2. steps[s].status = "awaiting_approval" /\ SetStep(s, "approved")
    BY <2>1 DEF Approve
  <2>3. \A t \in StepIds :
          /\ steps'[t].status = (IF t = s THEN "approved" ELSE steps[t].status)
          /\ steps'[t].type = steps[t].type
    BY <2>2 DEF TypeOK, StepRows
  <2>4. at \in StepIds
    BY <1>5, AtStep DEF PastGrant, PastRead, StepPcs
  <2>5. pc \in PastGates => ~StepBudgetSpent(cur, Statuses)' /\ EarlierDone'
    BY <1>1, <2>2, <2>3, GatesKept DEF GateInv, Runnable
  <2>6. Permitted(cur', steps'[at'].type)
    BY <1>1, <1>5, <2>3, <2>4 DEF GateInv
  <2> QED BY <1>1, <1>3, <2>5, <2>6 DEF GateInv
<1>6. CASE pc \in PastGrant /\ ~(\E s \in StepIds : Approve(s))
  <2>1. UNCHANGED steps
    BY <1>6, OutsideWhileDeciding DEF PastGrant, PastRead
  <2> QED BY <1>1, <1>3, <1>6, <2>1 DEF GateInv, Statuses, EarlierDone
<1> QED BY <1>4, <1>5, <1>6

LEMMA GateStep ==
  ASSUME TypeOK, PassInv, RecordInv, GateInv, [Next]_vars PROVE GateInv'
<1>1. CASE StartDrive \/ EndEarly
  BY <1>1 DEF StartDrive, EndEarly, GateInv, PastRead, PastGrant, PastGates
<1>2. CASE UNCHANGED vars
  BY <1>2 DEF vars, GateInv, Now, ReadView, Statuses, EarlierDone
<1> QED BY <1>1, <1>2, GateEngine, GateOutside DEF Next

LEMMA GateHolds == Spec => [](TypeOK /\ GateInv)
<1>1. Init => GateInv
  BY DEF Init, GateInv, PastRead, PastGrant, PastGates
<1>2. TypeOK /\ PassInv /\ RecordInv /\ GateInv /\ [Next]_vars => GateInv'
  BY GateStep
<1> QED BY <1>1, <1>2, RecordHolds, PTL DEF Spec

\* Every call of a handler was allowed at one moment of its pass, and is made with
\* all earlier steps done.
THEOREM EntryJustifiedHolds == Spec => []EntryJustified
<1>1. ASSUME TypeOK, GateInv PROVE EntryJustified
  <2> SUFFICES ASSUME pc = "invoke" PROVE EntryJustified
    BY DEF EntryJustified
  <2>1. ReadView \in window /\ ReadView.opts = cur /\ ~ReadView.stopped
    BY <1>1 DEF GateInv, PastRead, ReadView
  <2>2. Permitted(cur, steps[at].type) /\ ~StepBudgetSpent(cur, Statuses) /\ EarlierDone
    BY <1>1 DEF GateInv, PastGates, PastGrant, PastRead
  <2> QED BY <2>1, <2>2 DEF EntryJustified, EarlierDone
<1>2. TypeOK /\ GateInv => EntryJustified
  BY <1>1
<1> QED BY <1>2, GateHolds, PTL

\* Neither the budget nor the human gate stops a run in front of an honest skip.
THEOREM StopsOnlyForWorkHolds == Spec => []StopsOnlyForWork
<1>1. ASSUME TypeOK, GateInv PROVE StopsOnlyForWork
  <2> SUFFICES ASSUME pc \in {"budgetPause", "parkEvent", "parkRun"} PROVE StopsOnlyForWork
    BY DEF StopsOnlyForWork
  <2>1. ReadView \in window /\ ReadView.opts = cur /\ ~ReadView.stopped
    BY <1>1 DEF GateInv, PastRead, ReadView
  <2>2. Permitted(cur, steps[at].type)
    BY <1>1 DEF GateInv, PastGrant, PastRead
  <2> QED BY <2>1, <2>2 DEF StopsOnlyForWork
<1>2. TypeOK /\ GateInv => StopsOnlyForWork
  BY <1>1
<1> QED BY <1>2, GateHolds, PTL
=============================================================================
