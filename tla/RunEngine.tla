------------------------------ MODULE RunEngine ------------------------------
(***************************************************************************)
(* The run engine of slimx_agent/engine.py: one drive of a run at a time,  *)
(* every call it makes on the RunStore a step of its own, so that the user *)
(* and the host (RunRows) act between any two of them.  A process exit, a  *)
(* refused callback or a lost answer is EndEarly, possible anywhere.       *)
(***************************************************************************)
EXTENDS RunRows

TERMINAL_RUN_STATUSES == {"completed", "failed", "cancelled"}

NoOptions == CHOOSE o \in Options : TRUE
NoSteps   == [s \in StepIds |-> Absent]

\* Where a step of the drive leads: to its next call, or to streaming the new
\* events first, or out.
Goto(p)      == pc' = p /\ UNCHANGED <<after, outcome>>
DrainThen(p) == pc' = "drain" /\ after' = p /\ UNCHANGED outcome
EndDrive(how) ==
  /\ pc' = "idle" /\ after' = "idle" /\ outcome' = how
  /\ at' = 0 /\ seen' = NoSteps /\ cur' = NoOptions /\ window' = {}

\* What a call changes besides the drive's control: nothing, the run's status,
\* the step in hand, or the log.
Decides == UNCHANGED <<run, steps, ledger, snapshot, stream, observed>>
Ends    == UNCHANGED <<run, steps, ledger, stream, userStop, moves>>
WritesRun(x) ==
  status' = x /\ UNCHANGED <<opts, steps, ledger, snapshot, stream, observed>>
WritesStep(x) ==
  SetStep(at, x) /\ UNCHANGED <<run, ledger, snapshot, stream, observed>>
Appends(type, s) ==
  /\ log' = Append(log, [type |-> type, step |-> s])
  /\ own' = Len(log) + 1
  /\ UNCHANGED <<run, steps, snapshot, cursor, observed>>
Emits(type, s) == Appends(type, s) /\ UNCHANGED ledger

-----------------------------------------------------------------------------
\* The loop of execute_run_events.

\* The service reads the run and opens a drive; a terminal run is left alone.
StartDrive ==
  /\ pc = "idle" /\ status \notin TERMINAL_RUN_STATUSES
  /\ Spend("drive")
  /\ pc' = "cursor" /\ outcome' = "none" /\ UNCHANGED after
  /\ cursor' = 0 /\ own' = 0 /\ userStop' = FALSE
  /\ UNCHANGED <<run, steps, ledger, snapshot, log, window>>

\* next_sequence(run) - 1: the stream starts after what is already in the log.
TakeCursor ==
  /\ pc = "cursor" /\ Goto("claim")
  /\ cursor' = Len(log)
  /\ UNCHANGED <<run, steps, ledger, snapshot, log, own, observed>>

ClaimRun == pc = "claim" /\ WritesRun("running") /\ DrainThen("readRun")

\* drain(): everything after the cursor, in order.  It ends the drive or leads
\* to the next pass over the loop or the next write.
Drain ==
  /\ pc = "drain"
  /\ cursor' = Len(log)
  /\ \/ after = "idle" /\ EndDrive("stopped")
     \/ /\ after = "readRun" /\ pc' = "readRun" /\ after' = "idle"
        /\ at' = 0 /\ seen' = NoSteps /\ cur' = NoOptions
        /\ window' = {Now} /\ UNCHANGED outcome
     \/ /\ after = "failRun" /\ pc' = "failRun" /\ after' = "idle"
        /\ UNCHANGED <<snapshot, window, outcome>>
  /\ UNCHANGED <<run, steps, ledger, log, own, userStop, moves>>

\* The top of the loop: a pause or cancel ends the drive here.
ReadRun ==
  /\ pc = "readRun"
  /\ cur' = opts
  /\ IF status \in StopStatuses THEN DrainThen("idle") ELSE Goto("readSteps")
  /\ UNCHANGED <<run, steps, ledger, at, seen, stream, observed>>

\* The step statuses after which the loop moves on to the next step.
ClosedOrFailed == {"completed", "skipped", "failed"}
Closed         == {"completed", "skipped"}

\* s is the first step of the listing that is not yet completed or skipped.
FirstOpen(list, s) ==
  /\ list[s] \notin Closed \cup {Absent}
  /\ \A t \in StepIds : t < s => list[t] \in Closed \cup {Absent}

NoneOpen(list) == \A s \in StepIds : list[s] \in Closed \cup {Absent}

ReadSteps ==
  /\ pc = "readSteps" /\ Goto("decide")
  /\ seen' = Statuses
  /\ \/ \E s \in StepIds : FirstOpen(Statuses, s) /\ at' = s
     \/ NoneOpen(Statuses) /\ at' = 0
  /\ UNCHANGED <<run, steps, ledger, cur, stream, observed>>

\* This pass is about a step it read in one of these statuses.
Deciding(statuses) == pc = "decide" /\ at # 0 /\ seen[at] \in statuses

\* UnknownStepStatus: the drive ends, nothing is written for the step.
RefuseUnrecognized == Deciding({"unrecognized"}) /\ Ends /\ EndDrive("refused")

FailsQuietlyAlways == Deciding({"failed"}) /\ Decides /\ Goto("failQuietly")
\* A step this pass found failed: reported, unless the log holds that already.
FindFailed ==
  /\ Deciding({"failed"}) /\ Decides
  /\ Goto(IF FailureReported(at) THEN "failQuietly" ELSE "failRun")

FailQuietly == pc = "failQuietly" /\ WritesRun("failed") /\ DrainThen("idle")

-----------------------------------------------------------------------------
\* The gates: permission, then budget, then approval.

PendingOrAwaiting     == {"pending", "awaiting_approval"}
Runnable              == {"pending", "awaiting_approval", "approved", "running"}
\* The statuses whose missing grant is an honest skip.
SkippableWithoutGrant == {"pending", "awaiting_approval", "approved"}

\* The step needs a grant the run did not hold when this pass read it.
Blocked(statuses) == seen[at] \in statuses /\ ~Permitted(cur, steps[at].type)

SkipUnwritten ==
  /\ Deciding(SkippableWithoutGrant) /\ Blocked(SkippableWithoutGrant)
  /\ Decides /\ DrainThen("readRun")
SkipUngranted ==
  /\ Deciding(SkippableWithoutGrant) /\ Blocked(SkippableWithoutGrant)
  /\ WritesStep("skipped") /\ Goto("skipEvent")

SkipEvent == pc = "skipEvent" /\ Emits("STEP_SKIPPED", at) /\ DrainThen("readRun")

\* RunningStepNotPermitted: neither skipped nor re-entered.
RefuseRunning ==
  Deciding({"running"}) /\ Blocked({"running"}) /\ Ends /\ EndDrive("refused")

PermissionGatePassed == ~Blocked(SkippableWithoutGrant) /\ ~Blocked({"running"})

\* Budgets count the steps that did work; skips are free.
Executed(list) == Cardinality({s \in StepIds : list[s] \in {"completed", "failed"}})
StepBudgetSpent(o, list) == o.maxSteps > 0 /\ Executed(list) >= o.maxSteps

PauseBeforeSkips ==
  /\ Deciding(Runnable) /\ (StepBudgetSpent(cur, seen) \/ cur.wall)
  /\ Emits("BUDGET_EXHAUSTED", 0) /\ Goto("budgetPause")
\* Whether the wall clock ran out is up to the clock.
PauseForBudget ==
  /\ Deciding(Runnable) /\ PermissionGatePassed
  /\ StepBudgetSpent(cur, seen) \/ cur.wall
  /\ Emits("BUDGET_EXHAUSTED", 0) /\ Goto("budgetPause")

BudgetPause      == pc = "budgetPause" /\ WritesRun("paused") /\ Goto("budgetEvent")
BudgetPauseEvent == pc = "budgetEvent" /\ Emits("RUN_PAUSED", 0) /\ DrainThen("idle")

ReachesApproval(statuses) ==
  Deciding(statuses) /\ PermissionGatePassed /\ ~StepBudgetSpent(cur, seen)

MustStop == ResolveGate(cur, steps[at].type, steps[at].flagged)

\* A pending step is parked at the human gate; an awaiting one already is.
Park ==
  /\ ReachesApproval({"pending"}) /\ MustStop
  /\ WritesStep("awaiting_approval") /\ Goto("parkEvent")

ParkEvent == pc = "parkEvent" /\ Emits("APPROVAL_REQUIRED", at) /\ Goto("parkRun")

StillAwaiting ==
  ReachesApproval({"awaiting_approval"}) /\ MustStop /\ Decides /\ Goto("parkRun")

ParkRunGoesOn ==
  pc = "parkRun" /\ WritesRun("awaiting_approval") /\ DrainThen("readRun")
ParkRunMisspelt == pc = "parkRun" /\ WritesRun("awaiting") /\ DrainThen("idle")
ParkRun == pc = "parkRun" /\ WritesRun("awaiting_approval") /\ DrainThen("idle")

\* A gated step that proceeds without a click is recorded as approved.
RecordsApproval ==
  \/ steps[at].flagged
  \/ seen[at] = "awaiting_approval"
  \/ /\ cur.policy # NULL /\ Tier(steps[at].type) = HARD_GATED
     /\ steps[at].type \in NormalizePreapproved(cur.preapproved)

\* Observer: the rules, as this pass read them, let the step run unattended.
WarrantByRules ==
  warrant' = [warrant EXCEPT ![at] =
     @ \/ MayRunUnattended(cur, steps[at].type, steps[at].flagged)]

AutoApprove ==
  /\ ReachesApproval(PendingOrAwaiting) /\ ~MustStop /\ RecordsApproval
  /\ SetStep(at, "approved") /\ WarrantByRules /\ Goto("autoEvent")
  /\ UNCHANGED <<run, entries, answer, owed, snapshot, stream, observed>>

AutoApproveEvent ==
  pc = "autoEvent" /\ Emits("APPROVAL_GRANTED", at) /\ Goto("enter")

PassGate ==
  /\ ReachesApproval(PendingOrAwaiting) /\ ~MustStop /\ ~RecordsApproval
  /\ WarrantByRules /\ Goto("enter")
  /\ UNCHANGED <<run, steps, entries, answer, owed, snapshot, stream, observed>>

\* An approved step needs no second approval; one an interrupted drive left
\* running asks the store for the running transition again.
PassApproved == ReachesApproval({"approved", "running"}) /\ Decides /\ Goto("enter")

-----------------------------------------------------------------------------
\* run_step.

\* The host refuses a second entry: the earlier attempt may have crossed its
\* entry boundary (store.py, set_step_state).
HostRefusesEntry == steps[at].status = "running" /\ entries[at] > 0

ReenterWithoutAsking == pc = "enter" /\ WritesStep("running") /\ Goto("startedEvent")
EnterRunning ==
  /\ pc = "enter" /\ ~HostRefusesEntry
  /\ WritesStep("running") /\ Goto("startedEvent")

EntryRefused == pc = "enter" /\ HostRefusesEntry /\ Ends /\ EndDrive("refused")

\* registry.resolve: a type nobody registered a handler for fails the step.
StartedEvent ==
  /\ pc = "startedEvent" /\ Emits("STEP_STARTED", at)
  /\ Goto(IF steps[at].type \in ALLOWED_STEP_TYPES THEN "invoke" ELSE "failStep")

\* The handler is called and crosses the host's entry boundary.
Invoke ==
  /\ pc = "invoke" /\ Goto("working")
  /\ entries' = [entries EXCEPT ![at] = @ + 1]
  /\ UNCHANGED <<run, steps, answer, warrant, owed, snapshot, stream, observed>>

\* The handler's authoritative outcomes: it returns, it raises StepNotApplicable,
\* it raises StepExecutionError or any other exception.
HandlerAnswers(result, next) ==
  /\ pc = "working" /\ Goto(next)
  /\ answer' = [answer EXCEPT ![at] = result]
  /\ UNCHANGED <<run, steps, entries, warrant, owed, snapshot, stream, observed>>

HandlerReturns      == HandlerAnswers("completed", "completeStep")
HandlerInapplicable == HandlerAnswers("skipped", "skipStep")
HandlerRaises       == HandlerAnswers("failed", "failStep")

UnknownFailsStep == pc = "working" /\ Decides /\ Goto("failStep")
\* StepOutcomeUnknown: nothing terminal is written, the drive ends.
OutcomeUnknown == pc = "working" /\ Ends /\ EndDrive("unknown")

PreparedKeepsGoing(parked) ==
  /\ pc = "working" /\ Spend("prepare") /\ Goto("enter")
  /\ SetStep(at, parked) /\ NewGeneration(at)
  /\ UNCHANGED <<run, owed, snapshot, stream, window, userStop>>
\* StepActionPrepared: the host replaced the action by a new generation and
\* re-parked the step, at the gate or before it; the engine reads it again.
HandlerPrepares(parked) ==
  /\ pc = "working" /\ Spend("prepare") /\ Goto("reread")
  /\ SetStep(at, parked) /\ NewGeneration(at)
  /\ status' = IF parked = "awaiting_approval" /\ status \notin StopStatuses
               THEN "awaiting_approval" ELSE status
  /\ UNCHANGED <<opts, owed, snapshot, stream, window, userStop>>

\* At the gate the drive ends, else the loop goes on.
Reread ==
  /\ pc = "reread" /\ Decides
  /\ DrainThen(CASE steps[at].status = "awaiting_approval" -> "idle"
                 [] steps[at].status = "failed"            -> "failRun"
                 [] OTHER                                  -> "readRun")

CompleteStep == pc = "completeStep" /\ WritesStep("completed") /\ Goto("completedEvent")

StepCompletedEvent ==
  pc = "completedEvent" /\ Emits("STEP_COMPLETED", at) /\ DrainThen("readRun")

\* _skip_step, for StepNotApplicable.
SkipStep == pc = "skipStep" /\ WritesStep("skipped") /\ Goto("skipEvent")

FailStep ==
  /\ pc = "failStep" /\ SetStep(at, "failed") /\ Goto("failedEvent")
  /\ owed' = [owed EXCEPT ![at] = TRUE]
  /\ UNCHANGED <<run, entries, answer, warrant, snapshot, stream, observed>>

StepFailedEvent ==
  pc = "failedEvent" /\ Emits("STEP_FAILED", at) /\ DrainThen("failRun")

-----------------------------------------------------------------------------
\* The ends of a run: _fail_run, and completion.

FailRun ==
  /\ pc = "failRun" /\ Appends("RUN_FAILED", at) /\ Goto("failStatus")
  /\ owed' = [owed EXCEPT ![at] = FALSE]
  /\ UNCHANGED <<entries, answer, warrant>>

FailRunStatus == pc = "failStatus" /\ WritesRun("failed") /\ Goto("hook")

FinalWithoutReading == pc = "decide" /\ at = 0 /\ Decides /\ Goto("complete")
\* Every step is done: the run is read once more for a pause or cancel.
FinalRead ==
  /\ pc = "decide" /\ at = 0 /\ Decides
  /\ IF status \in StopStatuses THEN DrainThen("idle") ELSE Goto("complete")

CompleteRun == pc = "complete" /\ WritesRun("completed") /\ Goto("completeEvent")

RunCompletedEvent ==
  pc = "completeEvent" /\ Emits("RUN_COMPLETED", 0) /\ Goto("hook")

HookAfterDrain ==
  /\ pc = "hook" /\ Emits("HOOK", 0)
  /\ pc' = "idle" /\ after' = "idle" /\ outcome' = "stopped"
\* on_run_end: the host's epilogue, if there is one, may append events.
CallHook == pc = "hook" /\ (Emits("HOOK", 0) \/ Decides) /\ DrainThen("idle")

EndEarly ==
  /\ pc # "idle" /\ Spend("end")
  /\ EndDrive("early")
  /\ UNCHANGED <<run, steps, ledger, stream, userStop>>

-----------------------------------------------------------------------------
Init ==
  /\ status = "planned" /\ opts \in Options /\ steps \in Plans /\ log = <<>>
  /\ entries = [s \in StepIds |-> 0]
  /\ answer = [s \in StepIds |-> "none"]
  /\ warrant = [s \in StepIds |-> FALSE]
  /\ owed = [s \in StepIds |-> FALSE]
  /\ pc = "idle" /\ after = "idle" /\ outcome = "none"
  /\ at = 0 /\ seen = NoSteps /\ cur = NoOptions
  /\ cursor = 0 /\ own = 0
  /\ window = {} /\ userStop = FALSE /\ moves = Limits

\* What a drive does on its own, and what a called handler does.
Loop ==
  \/ TakeCursor \/ ClaimRun \/ Drain \/ ReadRun \/ ReadSteps
  \/ RefuseUnrecognized \/ FindFailed \/ FailQuietly
Gates ==
  \/ SkipUngranted \/ RefuseRunning \/ SkipEvent
  \/ PauseForBudget \/ BudgetPause \/ BudgetPauseEvent
  \/ Park \/ ParkEvent \/ StillAwaiting \/ ParkRun
  \/ AutoApprove \/ AutoApproveEvent \/ PassGate \/ PassApproved
RunStep ==
  \/ EnterRunning \/ EntryRefused \/ StartedEvent \/ Invoke
  \/ HandlerReturns \/ HandlerInapplicable \/ HandlerRaises \/ OutcomeUnknown
  \/ \E parked \in PendingOrAwaiting : HandlerPrepares(parked)
  \/ Reread \/ CompleteStep \/ StepCompletedEvent
  \/ SkipStep \/ FailStep \/ StepFailedEvent
RunEnds ==
  \/ FailRun \/ FailRunStatus
  \/ FinalRead \/ CompleteRun \/ RunCompletedEvent \/ CallHook

Engine == Loop \/ Gates \/ RunStep \/ RunEnds

Next == Engine \/ StartDrive \/ EndEarly \/ Outside

Spec == Init /\ [][Next]_vars

\* A live drive keeps going, and a handler's call is answered or times out:
\* every request of host_client.py has a timeout.
FairSpec == Spec /\ WF_vars(Engine)
=============================================================================
