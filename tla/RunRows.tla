------------------------------- MODULE RunRows -------------------------------
(***************************************************************************)
(* What a drive of the engine works on, and who else works on it.          *)
(*                                                                         *)
(* The host's durable rows are status, opts, steps and log; entries,       *)
(* answer, warrant and owed are what its records would show of each step's *)
(* current action generation.  A drive's locals are pc, after, at, seen,   *)
(* cur and cursor.  The host and the user are external: their moves are    *)
(* what store.py, the documentation and the tests say a host may do, and   *)
(* those that could repeat for ever are bounded by Limits.                 *)
(***************************************************************************)
EXTENDS AgentPolicies, Sequences, FiniteSets

CONSTANTS
  MaxPlan,         \* most steps a plan ever holds; a step's id is its place in it
  Plans,           \* the plans a run may start with
  ExtensionTypes,  \* types of the steps a handler may append to the plan
  Options,         \* the settings a user may choose for a run
  Limits           \* how often each kind of outside move may happen

VARIABLES
  \* --- the host's rows
  status,   \* the run's status
  opts,     \* the run's settings, see AgentPolicies
  steps,    \* the plan: id -> [type, flagged, status]
  log,      \* the durable events: [type, step], step 0 for none
  \* --- the host's record of each step's current action generation
  entries,  \* how often its handler was entered
  answer,   \* its authoritative outcome, "none" while there is none
  warrant,  \* a person approved it, or the rules let it run unattended
  owed,     \* it failed and the failure is not yet in the log
  \* --- the drive
  pc,       \* what the drive does next, "idle" when there is none
  after,    \* where it goes once it has streamed the new events
  at,       \* the step this pass is about, 0 for none
  seen,     \* step statuses as this pass read them
  cur,      \* the run's settings as this pass read them
  cursor,   \* the last event streamed
  own,      \* the last event this drive caused
  outcome,  \* how the last drive ended
  \* --- observers
  window,   \* every [opts, stopped] the run had since this pass began
  userStop, \* a pause or cancel landed where the drive has yet to read the run
  moves     \* outside moves left

run      == <<status, opts>>
ledger   == <<entries, answer, warrant, owed>>
snapshot == <<at, seen, cur>>
stream   == <<log, cursor, own>>
control  == <<pc, after, outcome>>
observed == <<window, userStop, moves>>
vars == <<run, steps, ledger, snapshot, stream, control, observed>>

StepIds == 1..MaxPlan

STEP_STATUSES ==
  {"pending", "awaiting_approval", "approved", "running",
   "completed", "failed", "skipped"}

\* "unrecognized" stands for any status outside the vocabulary, "absent" for
\* an id the plan does not hold.
Absent      == "absent"
AnyStatus   == STEP_STATUSES \cup {"unrecognized", Absent}
RunStatuses == {"planned", "running", "paused", "awaiting_approval",
                "completed", "failed", "cancelled"}

\* The events a drive and its surroundings append (contracts.EVENT_TYPES has some
\* more that no drive reads); "HOOK" is whatever the host's epilogue appends.
EVENT_TYPES ==
  {"STEP_STARTED", "STEP_COMPLETED", "STEP_FAILED", "STEP_SKIPPED",
   "APPROVAL_REQUIRED", "APPROVAL_GRANTED", "RUN_COMPLETED", "RUN_FAILED",
   "RUN_PAUSED", "RUN_CANCELLED", "RUN_RESUMED", "PLAN_EXTENDED",
   "BUDGET_EXHAUSTED", "HOOK"}

\* The run statuses a drive re-reads the run for: the user's stops.
StopStatuses == {"paused", "cancelled"}

\* The kinds of outside moves Limits bounds.
Moves == {"drive", "end", "stop", "set", "rerun", "prepare", "append", "hostfail"}

\* A row of the plan, what it records of an outcome, and a reading of the run.
StepRows == [type : STRING, flagged : BOOLEAN, status : AnyStatus]
Results  == {"none", "completed", "failed", "skipped"}
Views    == [opts : Options, stopped : BOOLEAN]

ASSUME RowsAssumption ==
  /\ MaxPlan \in Nat
  /\ Options # {}
  /\ Limits \in [Moves -> Nat]
  /\ ExtensionTypes \subseteq STRING
  /\ \A plan \in Plans :
       /\ plan \in [StepIds -> StepRows]
       /\ \A s \in StepIds : plan[s].status \in {"pending", "unrecognized", Absent}

Spend(kind) == moves[kind] > 0 /\ moves' = [moves EXCEPT ![kind] = @ - 1]

SetStep(s, x) == steps' = [steps EXCEPT ![s].status = x]

Statuses == [s \in StepIds |-> steps[s].status]

Now        == [opts |-> opts, stopped |-> status \in StopStatuses]
Seen(view) == window' = IF window = {} THEN {} ELSE window \cup {view}

\* An event the host appends on its own.
HostEmit(type, s) == /\ log' = Append(log, [type |-> type, step |-> s])
                     /\ UNCHANGED <<cursor, own>>

FailureNeverReported(s) == FALSE
AnyFailureReported(s)   == \E i \in DOMAIN log : log[i].type = "RUN_FAILED"
\* _run_failure_reported: the log already holds agent.run.failed for the step.
FailureReported(s) ==
  \E i \in DOMAIN log : log[i].type = "RUN_FAILED" /\ log[i].step = s

-----------------------------------------------------------------------------
\* The user, between any two calls of a drive.

SetOptions(o) ==
  /\ o # opts /\ Spend("set")
  /\ opts' = o
  /\ Seen([Now EXCEPT !.opts = o])
  /\ UNCHANGED <<status, steps, ledger, snapshot, stream, control, userStop>>

\* Where a drive reads the run once more before it decides anything else: while
\* a step is under way, and once no step is left.
ReadsRunAgain ==
  \/ pc \in {"enter", "startedEvent", "invoke", "working", "completeStep",
             "completedEvent", "skipStep", "skipEvent", "readRun"}
  \/ pc = "drain" /\ after = "readRun"
  \/ pc = "decide" /\ at = 0

\* Pause and cancel.
UserStops(s) ==
  /\ status \in {"planned", "running", "paused", "awaiting_approval"} \ {s}
  /\ Spend("stop")
  /\ status' = s
  /\ userStop' = (userStop \/ ReadsRunAgain)
  /\ Seen([opts |-> opts, stopped |-> TRUE])
  /\ HostEmit(IF s = "paused" THEN "RUN_PAUSED" ELSE "RUN_CANCELLED", 0)
  /\ UNCHANGED <<opts, steps, ledger, snapshot, control>>

Resume ==
  /\ status = "paused"
  /\ status' = "planned" /\ userStop' = FALSE
  /\ Seen([opts |-> opts, stopped |-> FALSE])
  /\ HostEmit("RUN_RESUMED", 0)
  /\ UNCHANGED <<opts, steps, ledger, snapshot, control, moves>>

Approve(s) ==
  /\ steps[s].status = "awaiting_approval"
  /\ SetStep(s, "approved")
  /\ warrant' = [warrant EXCEPT ![s] = TRUE]
  /\ HostEmit("APPROVAL_GRANTED", s)
  /\ UNCHANGED <<run, entries, answer, owed, snapshot, control, observed>>

-----------------------------------------------------------------------------
\* The host.

\* The current generation of a step's action ends: nothing carries over.
NewGeneration(s) ==
  /\ entries' = [entries EXCEPT ![s] = 0]
  /\ answer'  = [answer EXCEPT ![s] = "none"]
  /\ warrant' = [warrant EXCEPT ![s] = FALSE]

\* The host re-opens a failed run and leaves its steps alone.
Reopen ==
  /\ pc = "idle" /\ status = "failed" /\ Spend("rerun")
  /\ status' = "planned" /\ userStop' = FALSE
  /\ UNCHANGED <<opts, steps, ledger, snapshot, stream, control, window>>

\* The user has a finished step run again.
Rerun(s) ==
  /\ pc = "idle" /\ steps[s].status \in {"completed", "failed", "skipped"}
  /\ Spend("rerun")
  /\ SetStep(s, "pending")
  /\ NewGeneration(s)
  /\ owed' = [owed EXCEPT ![s] = FALSE]
  /\ status' = "planned" /\ userStop' = FALSE
  /\ UNCHANGED <<opts, snapshot, stream, control, window>>

\* A failure written outside the engine.  The log holds one report per step: a
\* host that fails a reported step again appends its own (README, "Run completion").
HostFailure(s) ==
  /\ SetStep(s, "failed")
  /\ owed' = [owed EXCEPT ![s] = ~FailureReported(s)]
  /\ IF FailureReported(s) THEN HostEmit("RUN_FAILED", s) ELSE UNCHANGED stream

\* A step an interrupted drive left running is reset by the reaper where its
\* handler was never entered, and settled from the host's record where it was.
Reclaim(s) ==
  /\ pc = "idle" /\ steps[s].status = "running" /\ entries[s] = 0
  /\ SetStep(s, "pending")
  /\ warrant' = [warrant EXCEPT ![s] = FALSE]
  /\ UNCHANGED <<run, entries, answer, owed, snapshot, stream, control, observed>>

Reconcile(s, result) ==
  /\ pc = "idle" /\ steps[s].status = "running" /\ entries[s] > 0
  /\ answer[s] \in {"none", result}
  /\ answer' = [answer EXCEPT ![s] = result]
  /\ IF result = "failed" THEN HostFailure(s)
     ELSE SetStep(s, result) /\ UNCHANGED <<owed, stream>>
  /\ UNCHANGED <<run, entries, warrant, snapshot, control, observed>>

\* The host fails a step no drive is working on.
HostFails(s) ==
  /\ pc \in {"idle", "working"} /\ s # at
  /\ steps[s].status \in {"pending", "awaiting_approval", "approved"}
  /\ Spend("hostfail")
  /\ HostFailure(s)
  /\ UNCHANGED <<run, entries, answer, warrant, snapshot, control, window, userStop>>

\* A handler extends the plan while it works.
HandlerAppends(s, type) ==
  /\ pc = "working" /\ Spend("append")
  /\ steps[s].status = Absent /\ \A t \in StepIds : t < s => steps[t].status # Absent
  /\ steps' = [steps EXCEPT ![s] =
                 [type |-> type, flagged |-> FALSE, status |-> "pending"]]
  /\ HostEmit("PLAN_EXTENDED", at)
  /\ UNCHANGED <<run, ledger, snapshot, control, window, userStop>>

Outside ==
  \/ Resume \/ Reopen
  \/ \E o \in Options : SetOptions(o)
  \/ \E s \in StopStatuses : UserStops(s)
  \/ \E s \in StepIds :
       \/ Approve(s) \/ Rerun(s) \/ Reclaim(s) \/ HostFails(s)
       \/ \E result \in Results \ {"none"} : Reconcile(s, result)
       \/ \E type \in ExtensionTypes : HandlerAppends(s, type)
=============================================================================
