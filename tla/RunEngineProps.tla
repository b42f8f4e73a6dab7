---------------------------- MODULE RunEngineProps ----------------------------
(***************************************************************************)
(* What has to hold of every drive of RunEngine, and the abstract promise  *)
(* (GatedPlan) the rows and the host's records keep together.              *)
(***************************************************************************)
EXTENDS RunEngine

PcValues ==
  {"idle", "cursor", "claim", "drain", "readRun", "readSteps", "decide",
   "skipEvent", "budgetPause", "budgetEvent", "parkEvent", "parkRun",
   "autoEvent", "enter", "startedEvent", "invoke", "working", "reread",
   "completeStep", "completedEvent", "skipStep", "failStep", "failedEvent",
   "failRun", "failStatus", "failQuietly", "complete", "completeEvent", "hook"}

\* Where a drive has a step in hand.
StepPcs ==
  {"skipEvent", "budgetPause", "budgetEvent", "parkEvent", "parkRun",
   "autoEvent", "enter", "startedEvent", "invoke", "working", "reread",
   "completeStep", "completedEvent", "skipStep", "failStep", "failedEvent",
   "failRun", "failQuietly"}

Outcomes == {"none", "stopped", "refused", "unknown", "early"}

Events == [type : EVENT_TYPES, step : {0} \cup StepIds]

\* Every row and local has its type, and a step's row is only ever written by a
\* drive that has a step in hand (set_step_state, append_event with a step id).
TypeOK ==
  /\ status \in RunStatuses /\ opts \in Options
  /\ steps \in [StepIds -> StepRows]
  /\ log \in Seq(Events)
  /\ entries \in [StepIds -> Nat] /\ answer \in [StepIds -> Results]
  /\ warrant \in [StepIds -> BOOLEAN] /\ owed \in [StepIds -> BOOLEAN]
  /\ pc \in PcValues /\ after \in {"idle", "readRun", "failRun"}
  /\ outcome \in Outcomes
  /\ at \in {0} \cup StepIds
  /\ pc \in StepPcs \/ (pc = "drain" /\ after = "failRun") => at \in StepIds
  /\ seen \in [StepIds -> AnyStatus] /\ cur \in Options
  /\ cursor \in Nat /\ own \in Nat
  /\ window \subseteq Views /\ userStop \in BOOLEAN /\ moves \in [Moves -> Nat]

-----------------------------------------------------------------------------
\* The gates.

\* A handler is entered only when every earlier step is done, and only if at
\* some moment of this pass the run was neither paused nor cancelled, held the
\* step's grant and had step budget left: settings may change between the
\* engine's reads and the call, never so that the call was not allowed at all
\* (engine.py, gate ordering and fresh run re-reads).
EntryJustified ==
  pc = "invoke" =>
    /\ \E view \in window :
         /\ ~view.stopped
         /\ Permitted(view.opts, steps[at].type)
         /\ ~StepBudgetSpent(view.opts, Statuses)
    /\ \A t \in StepIds : t < at => steps[t].status \in Closed \cup {Absent}

\* A handler runs only for an action generation that a person approved or that
\* the rules let run unattended.  The approval of a replaced generation does not
\* count (engine.py, StepActionPrepared and resolve_gate).
EntryWarranted == pc \in {"invoke", "working"} => warrant[at]

\* Neither an exhausted budget nor the human gate stops a run in front of a step
\* that would only be skipped (engine.py, "an honest skip does no work").
StopsOnlyForWork ==
  pc \in {"budgetPause", "parkEvent", "parkRun"} =>
    \E view \in window : ~view.stopped /\ Permitted(view.opts, steps[at].type)

-----------------------------------------------------------------------------
\* Interrupted drives.

\* However many drives work on a step, and wherever they were interrupted, the
\* handler of one action generation is entered at most once (store.py,
\* set_step_state; the engine never retries).
EntryAtMostOnce == \A s \in StepIds : entries[s] <= 1

\* Once the handler was entered, the step is closed only with what the handler or
\* the host's record answered: a drive that observed no outcome writes none
\* (engine.py, StepOutcomeUnknown and RunningStepNotPermitted).
AuthoritativeOutcome ==
  \A s \in StepIds :
    entries[s] > 0 /\ steps[s].status \in {"completed", "failed", "skipped"}
      => answer[s] = steps[s].status

\* agent.run.failed is appended only for a failure the log does not report yet
\* (engine._run_failure_reported).
ReportsAreOwed == pc = "failRun" => owed[at]

\* A run is never ended as failed without a report of the failure while the
\* report is still owed (engine.py, "a re-drive neither duplicates them nor ends
\* a run silently").  A drive that dies at the wrong moment breaks this one.
NeverSilent == pc = "failQuietly" => ~owed[at]

\* A drive that ends on its own has streamed every event it caused, the run-end
\* hook's included (engine.py, the drain before every return).
StreamComplete == outcome = "stopped" => own <= cursor

-----------------------------------------------------------------------------
\* The end of a run.

\* A run is completed only while every step of the plan, those a handler appended
\* included, is completed or skipped.
CompletedMeansDone ==
  status = "completed" =>
    \A s \in StepIds : steps[s].status \in {"completed", "skipped", Absent}

\* A pause or cancel that lands while a step runs, or before the last read of the
\* run, is still there when the drive has ended, unless the step failed the run.
UserStopHeld ==
  pc = "idle" /\ outcome = "stopped" /\ userStop
    => status \in StopStatuses \cup {"failed"}

\* The same with no exception: "mid-run pause/cancel/policy changes are honored
\* (including during the LAST step)" (engine.py).  A failing step breaks it.
UserStopFinal ==
  pc = "idle" /\ outcome = "stopped" /\ userStop => status \in StopStatuses

\* The log tells that the run was completed, after the last event of any step.
CompletionTold ==
  \E i \in DOMAIN log :
    /\ log[i].type = "RUN_COMPLETED"
    /\ \A j \in DOMAIN log : j > i => log[j].step = 0

\* What a drive that ended on its own leaves behind is told in the log: after a
\* completed run's last step event comes agent.run.completed, and a failed run has
\* a failed step with agent.run.failed (engine.py, completion and _fail_run).
EndIsReported ==
  pc = "idle" /\ outcome = "stopped" =>
    /\ status = "completed" => CompletionTold
    /\ status = "failed" =>
         \E s \in StepIds : steps[s].status = "failed" /\ FailureReported(s)

\* "Run statuses a run cannot transition out of" (engine.py): a cancelled run
\* stays cancelled.  The engine writes the statuses it means to write whatever
\* the run's status has become since it read it, and so revives the run.
CancelledIsTerminal == [][status = "cancelled" => status' = "cancelled"]_vars

\* A gated step that proceeds has its approval in the log: "the trail shows WHY
\* it proceeded" (engine.py).  A drive that dies between the two writes breaks it.
TrailShowsWhy ==
  /\ pc = "invoke"
  /\ \/ steps[at].flagged
     \/ cur.policy # NULL /\ Tier(steps[at].type) = HARD_GATED
  => \E i \in DOMAIN log : log[i] = [type |-> "APPROVAL_GRANTED", step |-> at]

-----------------------------------------------------------------------------
\* Termination.

\* How far a step of this status is from its end.
ToDo(st) ==
  CASE st = "pending"           -> 4
    [] st = "awaiting_approval" -> 3
    [] st = "approved"          -> 2
    [] st = "running"           -> 1
    [] OTHER                    -> 0

\* How far the drive is from its end, or from the next write to a step: every way
\* through the loop leads down.
Height(p, a) ==
  CASE p = "cursor"                                                     -> 18
    [] p \in {"claim", "skipEvent", "completedEvent", "reread"}         -> 17
    [] p = "drain" /\ a = "readRun"                                     -> 16
    [] p = "readRun"                                                    -> 15
    [] p = "readSteps"                                                  -> 14
    [] p = "decide"                                                     -> 13
    [] p = "autoEvent"                                                  -> 12
    [] p = "enter"                                                      -> 11
    [] p = "startedEvent"                                               -> 10
    [] p = "invoke"                                                     ->  9
    [] p = "working"                                                    ->  8
    [] p \in {"completeStep", "skipStep", "failStep"}                   ->  7
    [] p = "failedEvent"                                                ->  6
    [] p = "drain" /\ a = "failRun"                                     ->  5
    [] p \in {"failRun", "complete"}                                    ->  4
    [] p \in {"failStatus", "completeEvent", "budgetPause", "parkEvent"} ->  3
    [] p \in {"hook", "failQuietly", "budgetEvent", "parkRun"}           ->  2
    [] p = "drain" /\ a = "idle"                                        ->  1
    [] OTHER                                                            ->  0

\* No step of the plan is further from its end than it was, and one is nearer.
KeepsSteps  == \A s \in StepIds : ToDo(steps'[s].status) <= ToDo(steps[s].status)
MovesAStep  == \E s \in StepIds : ToDo(steps'[s].status) < ToDo(steps[s].status)
TakesAMove  == \E kind \in Moves : Spend(kind)
ComesNearer == Height(pc', after') < Height(pc, after)
TakesBackAPause ==
  /\ Height(pc', after') = Height(pc, after)
  /\ status = "paused" /\ status' # "paused"

\* One of the moves that are limited from outside, or a step of the plan brought
\* forward and none back, or the drive nearer to its end, or a pause taken back:
\* each is finite once those before it are.
MakesProgress ==
  \/ TakesAMove
  \/ /\ KeepsSteps /\ UNCHANGED moves
     /\ MovesAStep \/ ComesNearer \/ TakesBackAPause

\* While a drive is under way, every step of it, of the user and of the host makes
\* progress, so that no drive makes infinitely many steps, however long the plan
\* (engine.py, "every pass makes progress or exits").
PassesMakeProgress == [][pc # "idle" => MakesProgress]_vars

\* A drive ends, whatever the handler answers and whatever the user does
\* (engine.py, "Termination is structural").
DriveEnds == (pc # "idle") ~> (pc = "idle")

-----------------------------------------------------------------------------
\* The refinement: the phase of a step's current action, and the run's result.

Phase(st, entered, cleared) ==
  CASE st = Absent     -> "none"
    [] st \in Closed   -> "done"
    [] st = "failed"   -> "failed"
    [] st \notin Closed \cup {Absent, "failed"} ->
         CASE entered = 0 -> IF cleared THEN "cleared" ELSE "open"
           [] entered = 1 -> "entered"
           [] OTHER       -> "entered twice"

PhaseOf(s) == Phase(steps[s].status, entries[s], warrant[s])

ResultOf == IF status \in {"completed", "failed"} THEN status ELSE "open"

Promise == INSTANCE GatedPlan WITH
  Ids <- StepIds, phase <- [s \in StepIds |-> PhaseOf(s)], result <- ResultOf

\* The rows, the host's records and every drive of them, crashes included, keep
\* the promise of GatedPlan.
KeepsPromise == Promise!Spec
=============================================================================
