# TLA+ models of SlimX-Agent

SlimX-Agent drives an agent *run*, a plan of steps, through permission, budget and approval
gates to a stop. The rows it drives belong to a *host*, the tools belong to the host too, and a
*user* pauses, cancels, approves and changes settings while a drive is under way. None of the
writes is conditional, a drive may die between any two of them, and answers get lost. This
directory models that: TLA+ modules translated from the source, TLC runs on small instances,
and TLAPS proofs for instances of every size.

Paths below are relative to `slimx_agent/` unless they say otherwise.

## The system

| Part | State | Operations | Hard because |
| --- | --- | --- | --- |
| Run engine, `engine.py` | locals of one drive: cursor, the run and the listing this pass read | the loop `execute_run_events`, `run_step`, `_fail_run`, completion | every store call is a point where the user acts or the drive dies; reads grow stale before they are used |
| Policies, `policies.py` | none (pure) | tiers, required grants, `requires_stop`, pre-approval | junk stored values, 40-odd types, 4 kinds of policy, rules spread over docstrings |
| Contracts, `contracts.py` | none | the closed vocabularies | statuses outside the vocabulary |
| Run store, `store.py`, `http_store.py` | the host's rows and event log | reads, unconditional writes, append | the `running` transition must be refused when a handler may have been entered |
| Tools, `tools.py`, `http_tools.py` | registry | five outcomes of a handler | an answer that is lost is no outcome; a prepared generation voids its approval |
| Host client, `host_client.py` | lease headers of an attempt | `for_execution`, one request per store call | refused, lost, malformed or late answers; a worker that outlives its lease; executions that share one client |
| Service, `service.py` | per request | execute, stream, `_bridge` | a worker thread, an event loop and an observer that comes and goes; one status for whatever the drive did |
| Check runner, `service.py` | one process group | `_run_bounded_check` | processes fork, escape, close pipes and exit while the runner reads, waits, kills and reaps |
| Host and user (external) | durable rows, invocation records | approve, stop, resume, rerun, reclaim, reconcile, append steps | they act between any two calls of a drive |
| Planning, `planning.py` | none (pure) | prompt, repair, validation, in a host's retry loop | models leave fields out, empty or of another type; three tables that must agree on what is offered |
| `__init__.py`, `scripts/` | none | re-exports, release tooling | not modelled |

The service reads a run and starts a drive; the drive calls the store and the registry, which
over HTTP are calls to the host; each drive's events go through `_bridge` to the observer; at
the end the hook calls the host. `PROJECT.json` has the components, the hazards at their lines,
and the map from definitions to lines.

What makes each part correct:

* *Engine*: a handler is entered only if the gates allowed it on one reading of the run, at most
  once per action generation, and only with an approval of that very generation; no outcome is
  invented; the run's end tells the truth and is reported once; a drive ends.
* *Policies*: the tables say what the documentation says, and taking consent back only tightens.
* *Stream*: everything, in order, once; the drive does not depend on the observer.
* *Leases*: only the attempt that holds a run writes it; what a drive sends takes effect once, in
  order and without gaps; the status of an execution tells what became of its writes.
* *Wire*: a row that arrives incomplete or damaged never lets more run than the whole one would.
* *Planning*: repair only widens what is accepted and cuts nothing; the prompt offers only what can run.
* *Check runner*: nothing survives, nothing foreign is killed, the result is honest, the call ends.

## Modules

| Module | Models | Uses |
| --- | --- | --- |
| `AgentPolicies` | the tables of `policies.py` and `contracts.py`, `engine.resolve_gate`, and, apart from them, the documented rules (`MayRunUnattended`) | |
| `PolicyMatrix`, `MCPolicyMatrix`, `PolicyMatrixProofs` | every input of the gate as a state, every way to take consent back as a step; the proofs | `AgentPolicies` |
| `GatedPlan` | the abstract promise: clear, enter once and in order, settle, complete | |
| `RunRows` | the rows, the host's record of each action generation, and the moves of the user and the host | `AgentPolicies` |
| `RunEngine` | `engine.py`, one action per call | `RunRows` |
| `RunEngineProps` | the properties, and the refinement mapping to `GatedPlan` | `RunEngine`, `GatedPlan` |
| `MCRunEngine` | the instances TLC checks | `RunEngineProps` |
| `RunEngineProofs` | proofs: types, entries and gates | `RunEngineProps` |
| `RunEngineEndsProofs` | proofs: how runs end, what the log tells, the refinement | `RunEngineProofs` |
| `ObservedDrive` | the abstract promise of the stream: the drive goes its way, and who watches is told all of it in order | |
| `StreamBridge`, `StreamBridgeProofs` | `_bridge` in `service.py`: worker, loop, observer; the proofs | `ObservedDrive` |
| `SoleWriter` | the abstract promise of the fence: one owner of a run at a time, who alone writes it | |
| `LeasedDrives` | the execute endpoints over `HostClient`: attempts, callbacks on a lossy network, the host's lease check | |
| `LeasedDrivesProps`, `MCLeasedDrives`, `LeasedDrivesProofs` | its properties and refinement of `SoleWriter`, its instances, its proofs | `LeasedDrives`, `SoleWriter` |
| `WireSnapshots`, `MCWireSnapshots`, `WireSnapshotsProofs` | `from_wire` and the field parsers of `http_store.py`, and what a pass decides from them; the proofs | `AgentPolicies` |
| `Planning`, `MCPlanning`, `PlanningProofs` | `planning.py` in a host's loop of prompt, model, repair, validation and feedback; the proofs | `AgentPolicies` |
| `RunCheck`, `RunCheckProofs` | `_run_bounded_check` and its processes, with the proofs | |

### RunEngine and RunRows

`pc` names the next call of the drive and `after` where it goes once it has drained the events.
A pass of the loop is `ReadRun`, `ReadSteps`, then exactly one of the actions guarded by
`Deciding(...)`: they are the branches of the loop in the order of the code (failed, permission,
budget, approval), and each one's guard contains the failure of the gates before it. `run_step`
is `EnterRunning`, `StartedEvent`, `Invoke`, an outcome, and its writes. `at`, `seen` and `cur`
are the step, the listing and the run *as this pass read them*; `steps`, `status` and `opts` are
the rows as they are. Every write of the code (`set_step_state`, `append_event`,
`set_run_status`) is a step of its own because over HTTP it is a request of its own
(`http_store.py` ignores `commit=False`).

`EndEarly` ends the drive anywhere: a process exit, a refused or lost callback, a malformed
snapshot, an exception the engine does not catch. A write that was applied though its answer was
lost is `EndEarly` right after that write.

The host and the user are external, and what they may do is taken from `store.py`,
`runtime.py`, the README and the tests: the user's moves happen between any two calls; a step is
re-run, reclaimed or reconciled only while no drive is under way; a step is failed by the host
only if no drive is deciding about it; a host that fails a reported step again appends its own
report (README, *Run completion*); the host refuses a second `running` transition once the
handler may have been entered (`store.py`, `HostRefusesEntry`). One drive at a time works on a
run: the host's leases see to that, which is what `LeasedDrives` is about.

`entries`, `answer`, `warrant` and `owed` are what the host's records would show: how often the
handler of the current action generation was entered, its authoritative outcome, whether anyone
or any rule cleared it, and whether it failed without a report. `window` is every state the run
had since the pass read it. They observe; no guard of the engine reads them, except that
`entries` decides what the host refuses.

`EntryWarranted` deserves care: `warrant` is set by an approval of a person and, when the gate
lets a step pass, by `MayRunUnattended`, which states the documented rules without the code's
tables. A gate that let too much pass would leave `warrant` unset. It is cleared with the
generation. An automatic approval that was recorded stays valid when a drive dies, even if the
user withdraws the pre-approval meanwhile: the code re-checks grants, not approvals.

### StreamBridge

Publishing is two steps, the look at `observer_gone` and `call_soon_threadsafe`; the callback
that puts the entry in the queue is a third one, on the loop; `asyncio.wait_for` either takes an
entry or times out. The observer leaves anywhere the generator can be closed, the loop closes
and the process exits anywhere. `late` counts what is scheduled after the observer has left.
`TellsTheDrive` refines `ObservedDrive`: thread, loop and queue disappear, and what is left is a
drive, what the observer was told of it, and whether the stream ended or was cut.

### LeasedDrives

An attempt is a number, its generation; the host posts each attempt once and claims a run only
for a later attempt than the one that holds it (`Claim`, whether that one is dead or merely slow).
`Refuse` and `Admit` are the head of both endpoints: token, lease and host URL, in the order in
which FastAPI and the code check them, then `for_execution`. `Send` is `_request` up to the wire:
it takes the headers of *its* wrapper, and `headers` is per attempt because `for_execution` copies
(the mutant `SharesHeaders` installs them on the shared client). The request is then in `net`
until the host applies, declines or refuses it or the network loses it, and the worker has
either an answer (`Hear`) or gives up (`TimesOut`). A worker that gave up leaves its request in
`net`: it may still arrive, under the next owner of the run. A read that nobody waits for any
more is dropped from `net`, since it changes nothing.

What the engine does between two callbacks is `RunEngine`'s business; here a drive is any
sequence of reads, writes and invocations, with the first read at most `MaxCalls` long before it winds up, and
`stage` says which part of it the next callback belongs to: the first read, the drive, the
run-end hook, the last drain, the final read of `execute`. A failed callback ends the drive
(`Fails`), except the hook's, which is logged and forgotten, and a final read that finds no run.
`Apply` takes effect and may answer 500 all the same, which stands for every answer that is no
good (5xx, a malformed body, a wrong shape): the code turns each into an error whose status is
not 4xx. Assumed of the host: the lease check and the effect of a callback are one step
(`docs/service-contract.md`), and a host that answers 4xx has changed nothing.

The variables `refused` and `lateCalls` observe. `OnlyTheHolderWrites` refines `SoleWriter` with
the authors of `applied` as what was written.

### WireSnapshots

A state is a run row and a step row as JSON, each field given, absent or of another type, as a
host may send them; `Remote` is what the engine decides over `HttpRunStore`, `InProcess` what it
decides over the host's own objects, `Decision` one pass of the loop. The steps damage a field
or leave it out. Only the fields that carry consent (`auto_approve`, the grants, the
pre-approvals) and the required ones are left out: an absent budget is documented as unbounded
and an absent flag as unset, so leaving those out loosens by design.

### Planning

A JSON value is one of seven kinds, told apart by what `or`, `str(...).strip()` and Pydantic see:
absent, null, falsy, the empty string, blanks, text, and anything truthy that is no string.
Repair adds four kinds of text that say where it came from, so that `AcceptedIsWhatWasWritten`
can tell the model's words from repair's. `Coerce` is SlimX's structured output as
`planning.py:11-16` describes it: declared fields are copied, others lost; a host may use it or
parse the text itself, so both are tried. The loop around it (`tries`) is the host's, and the
feedback is only that there is another try. `Items` is every item there can be, with any of
`UnknownTypes` for a type no table has; `Keep` is the list comprehension that drops items.

### RunCheck

The command's leader and its descendants are a state each: in the group, escaped to a session of
their own, exited, reaped. `holders` has the pipe's writing end. Bytes are counted, not
represented: the runner keeps a prefix. `ReadingFails` is an exception between the reads, from
which the `finally` clause still kills and reaps. The processes have the runner's credentials, so
`killpg` reaches all of the group.

## Runs

| Run | Question | Bounds |
| --- | --- | --- |
| `engine_recovery` | entries and stops justified and warranted; one entry, no invented outcome, no duplicate report, complete streams, an end the log tells; progress in every step of a drive; refinement of `GatedPlan` | plans of one and two steps with each tier, gated or flagged, first and last, an unknown type, an unrecognized status; five settings with one change between any two calls; two drives, one death, a rerun, a prepared generation, an appended step |
| `engine_ends` | failures not silent, completion true, stops held; a drive ends | a plan that grows to three steps, its second step granted or not; two drives, no deaths, host failures, a rerun, a pause or cancel |
| `policy_matrix` | the gate is the documented one; consent only tightens; cleaning a grant list grants neither more nor less | the whole vocabulary and one type outside it, five policies, stored values that are no list, empty, junk, padded |
| `stream_bridge` | nothing lost, few late entries, the drive and the stream end; refinement of `ObservedDrive` | four events; everything else is unbounded by nature |
| `run_check` | the check runner | two descendants, five bytes, a cap of three, a chunk of two, a pipe of three: a chunk that straddles the cap, one that meets it exactly, and one that finds it full all occur |
| `lease_takeover` | `SoleWriter`; once, in order, without gaps; a stale worker stops; the status tells the truth; an execution ends | two attempts at one run, every request and every setting, up to five callbacks each (the first read, one the engine makes, hook, drain and final read): a write in flight at the takeover, one that arrives after it, a hook after it |
| `planning` | repair only widens; nothing is cut or invented; only what the gate lets pass is offered | every set of grants; one item in every combination of kinds over the fields repair looks at, and up to four items of six sorts against a ceiling of two; one retry |
| `wire_snapshots` | parsing never loosens | a type of each tier and an unknown one, two policies, four lists, junk among them, any fields damaged |
| `cancel_overwritten`, `cancel_revived`, `silent_failure`, `trail_gap` | four statements of the source the code does not keep, see below | the smallest plan that shows it |

`Limits` bounds the moves that could repeat for ever, one counter per kind. Two drives are enough
for one to find what another left; the silent failure takes a third, which finds what a second did
to it. Two steps suffice for order, three for growth. That executions of *different* runs keep
their leases apart, and drives of more callbacks, are not in the instance: the proofs of
`LeasedDrivesProofs` cover them for any number. `Resume` and `Approve` are
bounded by what they undo. Deadlock checking is off everywhere because each of these systems
really stops: a run at a terminal status with no moves left, a stream that has ended, a check that
has returned.

Fairness: `WF_vars(Engine)` says that a live drive keeps going and a handler is answered or times
out (`host_client.py` gives every request a timeout, an in-process handler is the host's to
bound); nothing is assumed of the user or the host, and `DriveEnds` relies on their moves being
finite for prepared generations and appended steps only: a host that prepares a new generation
for ever under Auto-complete, or a handler that appends a step per step, would keep a drive
going, and the code's remedy for that is the step budget. `LeasedDrives` assumes
`WF_vars(Work(a))`: the thread of an execution runs, and every request has a timeout
(`STORE_TIMEOUT_SECONDS`, `INVOKE_TIMEOUT_SECONDS`), so a worker that waits either hears or gives
up; nothing is assumed of the host or the network. `StreamBridge` assumes that the worker, the loop
and the response run, and nothing of observers. `RunCheck` assumes only that the runner runs, and
never that an exception rescues it: `CallEnds` starts from a deadline that has passed, and holds
with descendants that hold the pipe open for ever.

Every property of a passing run has a mutant in `PROJECT.json`: a plausible bug in a mapped
definition (they stand next to it in the modules) with which TLC finds the property violated.

### Four statements the code does not keep

* `cancel_overwritten` (`UserStopFinal`): a pause or cancel that lands while a step runs is
  honoured if the step completes, and overwritten with `failed` if it fails, because
  `_fail_run` does not re-read the run. `engine.py:8-9` promises that it is honoured.
  `UserStopHeld` states what does hold. Both are about the stops that land where the drive reads
  the run again before it decides anything else (`ReadsRunAgain`); a stop that lands between a
  read and the claim, park, budget pause or completion that follows it is overwritten too, which
  is the next statement.
* `cancel_revived` (`CancelledIsTerminal`): every write of the run's status is unconditional, so a
  cancel that lands between a read of the run and the next write is lost, and a run that was
  cancelled is running again. `engine.py:36` calls `cancelled` a status "a run cannot transition
  out of". Hosts can refuse the transition; the protocol of `store.py` asks that of them for a
  step's `running` only.
* `silent_failure` (`NeverSilent`): a step that failed and was reported, was rerun and failed again
  in a drive that died before `agent.run.failed`, is taken for reported by the next drive, which
  ends the run without event and hook (`engine.py:150-160` says that it would not).
* `trail_gap` (`TrailShowsWhy`): a drive that dies between the automatic approval and its event
  leaves the next one to run the step with no approval in the log (`engine.py:220-222`).

## Proofs

All of them hold for every plan, plan length, set of settings and bound that satisfy the
assumptions of the modules, and TLC evaluates these on the instances: `RowsAssumption` (types,
and that a plan starts with no step begun), `LeaseAssumption`, `MaxEventsAssumption`,
`RunCheckAssumption`, `WireAssumption` (types and bounds), `MatrixAssumption` (grants and
pre-approvals are among the values a host may store) and `PlanningAssumption` (what a model may
write is lists of items). Two theorems assume that no drive dies besides, and say so.

### The engine

* `RunEngineProofs`, types: `TypeOK` is inductive once it says that a drive that writes a step
  has one in hand.
* Entries: `EntryAtMostOnce`, `EntryWarranted`, `AuthoritativeOutcome`. None is inductive: an
  entry is safe because of what is known when the host allows `running`. `PassInv` says what a
  pass's listing still tells when the gates use it (only an approval may have come between);
  `RecordInv` relates each row to the record of its generation (not entered while the row is
  before `running`, cleared from `approved` on, closed with the recorded answer) and says what
  the drive knows at each call of `run_step`. `GateKeepsRules` proves the code's gate from the
  tables to be within the documented rules for every type and stored value.
* Gates: `EntryJustified` and `StopsOnlyForWork` from `GateInv`: the reading the gates used is in
  `window`, which only grows within a pass, and the listing the budget was counted on still
  counts the same.
* `RunEngineEndsProofs`, ends: `CompletedMeansDone` from `DoneInv` (nothing but the last writes
  follows completion), `ReportsAreOwed` from `ReportInv` (a failed step owes a report or has one
  in the log, and the log only grows), `StreamComplete` from `StreamInv`. `UserStopHeld` needs
  `HeldInv`, which says at which calls a stop that counts can still stand: none from which the
  status is overwritten with anything but the failure of the step in hand. `EndIsReported`
  follows from `FailedInv` (a drive that is about to fail the run has a failed step; what the
  plan does not hold was never cleared) and `ToldInv` (that step's report is in the log before
  the status is written; a completed run is told as such, or is about to be, or its drive died in
  between).
* Two statements of the source that one death refutes, proved for drives that do not die
  (`Limits["end"] = 0`), so that the death is the whole reason. `NeverSilentHolds`: `SilentInv`
  says that a step can then be owed a report and have an old one only while the drive is on its
  way to writing the new. `TrailShowsWhyHolds`: `TrailInv` says that an approved step has its
  approval in the log or is the one whose approval the drive writes next, that a step that is
  `running` and not entered is the drive's own, and that from `enter` to the handler a gated step
  has its approval in the log. It needs `GatedIsRecorded`: the gate passes a gated step only where
  the code records the approval.
* Termination: `PassesMakeProgress`. `engine.py:137` calls termination structural: every pass
  makes progress or exits. The theorem is the measure that makes it so, for plans of any length:
  in order of weight, the outside moves left, how far each step is from its end (`ToDo`), how far
  the drive is from the next write or its own end (`Height`), and whether the run is paused. While
  a drive is under way, every step of anyone lowers one of these and raises none of a greater
  weight. That a write brings the step in hand forward needs to know what its row still says:
  `PassInv` at the gates, `RecordInv` in `run_step`. What is left of `DriveEnds` is that a live
  drive is never stuck, which is fairness and `ENABLED`, and stays with TLC.
* Refinement: `KeepsPromise`. `IInv` conjoins the invariants above, `FailedInv` included. Each
  step of engine, user and host is then one step of `GatedPlan` or leaves it alone; the lemmas
  `Settles`, `Clears`, `Renews`, `RowsAlone` say which.

### The service

* `LeasedDrivesProofs`: all of `LeasedDrivesProps` but liveness, for any runs, attempts, requests
  and drives of any length. `FenceInv` says that a wrapper in use carries its own attempt's
  lease, that a request in `net` was sent, and that the ledger only moves on; with it
  `OnlyTheHolderWrites` and `LeasesKeptApart` follow. `LateInv` counts what a worker that lost
  its run may still do. `CallInv` is the order of callbacks: between two requests of a drive none
  of its writes is on its way (`PendingInv`), after a write that is only reads were sent
  (`OrderInv`), and each write that was answered 200 took effect (`EffectInv`). `NeverReplayed`
  and `NothingAfterAGap` need all three: a write that is lost leaves no trace in `applied`, so
  what is excluded must be said of `net`, `sent` and `answer` together. That no attempt writes
  after a later one has is then proved from `SoleWriter` alone (`TakingTurns`), which makes
  `NeverReplayed` an order over all of a run's effects.
* `StreamBridgeProofs`: the invariants and the refinement for any number of events.
  `NothingLost` is not inductive without `ServedInv` (an observer who is served has not left) and
  `HandInv` (the end is in hand exactly if the drive is over); `EndMeansAll` follows from it,
  because the end can stand only behind every event; `LateInv` says why one late entry is the
  most. For `TellsTheDrive`, `NextInLine` shows that what the queue holds first is the event
  after those that were sent, or the end.
* `RunCheckProofs`: all five invariants of `RunCheck` from one inductive invariant: `OutputInv`
  (what was kept is the prefix of what was taken), `LeaderInv` (the leader is the command's until
  killed and not reaped before `wait`), `EndInv` (the end of the output was seen before the
  leader is waited for). `WindsUp` is the bound behind `CallEnds`: once the deadline has passed,
  the runner makes at most six more steps (`StepsLeft`), nothing its processes do adds one, and
  `process.wait` finds the leader dead. That it makes them is fairness, and stays with TLC.

### Policies, the wire and planning

* `PolicyMatrixProofs`: the four properties of the matrix for any types, policies and stored
  values. `GateIsRules` compares `resolve_gate`, which looks things up in tables, with the
  documented rules one tier at a time. For `TighteningNeverLoosens` each way to take consent back
  leaves everything the gate reads no looser (`Tighter`).
* `WireSnapshotsProofs`: both properties for any set of budgets. A field that arrives garbled, or
  a required one that does not arrive, makes the whole row refused (`DamageRefused`); a field of
  consent that is not there reads as no consent (`WithheldConsent`); every other reading is the
  one the host would make (`WireReadings`), so the decision is the same or tighter.
* `PlanningProofs`: the three properties for plans of any length and any ceiling. `OfferInv` and
  `PlanInv` say where the data came from at each phase. What is kept of a list is given by a
  recursive function over positions, and that it keeps what belongs together of two lists that
  agree item by item (`KeepTogether`), and everything if nothing is to go (`KeepAll`), needs
  induction over the list. The library's induction theorems take an operator as a parameter, which
  the provers cannot instantiate; so induction is stated about *sets* of naturals (`LeastNatural`,
  `NaturalsClosed`, from the well-foundedness of `<`), and each use names the set of lengths for
  which its fact holds. Coercion and repair are then shown, item by item, to keep what is
  acceptable acceptable and what was written as it was.

### Only model-checked

Liveness (`DriveEnds`, `DriveReachesItsStop`, `StreamEnds`, `CallEnds`, `ExecuteEnds`), which is
out of the provers' reach, but for the measures named above: every safety and action property of a passing run is stated by a theorem.
`UserStopFinal` and `CancelledIsTerminal` have no theorem, since the code does not keep them;
`UserStopHeld` is what holds of the first; the second is the host's to keep, by refusing such a
write.

## Not modelled

Payloads, reasons, labels and the wording of prompts and errors; HTTP routing, `/health`, the
rendering of validation errors; TLS trust, URL segments and the shape of event lists (a bad one
ends the drive); the wall clock (the wall budget is spent whenever the clock says so); two drives
of one run inside `RunEngine` (`LeasedDrives` has them, with the engine's calls by kind only);
the schemas of the self-check and of research verdicts (`planning.py:341-373`: records with
defaults that nothing in this package reads); `AgentRunContext` and the registration of handlers
(`tools.py`); credentials of check commands; `scripts/` (sequential release tooling) and the
re-exports of `__init__.py`.

## Plan

1. Done: policies, engine with host and user, its promise and its measure, the stream, leased
   drives, wire snapshots, planning, the check runner, and a proof of every safety property.
2. `RunEngine` with two drives at once under the fence of `LeasedDrives`: `SoleWriter` as the
   assumption under which one drive at a time is enough.
