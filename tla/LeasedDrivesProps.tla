-------------------------- MODULE LeasedDrivesProps --------------------------
(***************************************************************************)
(* What has to hold of leased drives, and the promise (SoleWriter) that    *)
(* the fence keeps.                                                        *)
(***************************************************************************)
EXTENDS LeasedDrives

Stages == {"open", "drive", "hook", "drain", "final", "over"}
Codes  == {200, 401, 404, 409, 422, 500, 502, 503}

Calls == [by : Attempts, n : Nat, kind : Kinds, lease : Attempts]

\* Each thing has its type, and a worker that calls has an admitted wrapper.
TypeOK ==
  /\ holder \in [Runs -> Attempts \cup {Nobody}]
  /\ applied \in [Runs -> Seq([by : Attempts, n : Nat])]
  /\ net \subseteq Calls
  /\ env \in Settings
  /\ ask \in [Attempts -> Requests]
  /\ pc \in [Attempts -> {"unposted", "received", "ready", "waiting", "done", "dead"}]
  /\ stage \in [Attempts -> Stages]
  /\ headers \in [Attempts -> Attempts \cup {Nobody}]
  /\ sent \in [Attempts -> Seq(Kinds)]
  /\ answer \in [Attempts -> Codes \cup {NoAnswer}]
  /\ reply \in [Attempts -> Codes \cup {NoReply}]
  /\ refused \subseteq Attempts /\ lateCalls \in [Attempts -> Nat]

-----------------------------------------------------------------------------
\* Whatever takes effect on a run was sent by the attempt that holds the run at
\* that moment, and no attempt gets a run back: what is still on its way from a
\* worker that was taken for dead changes nothing (host_client.py, the lease
\* headers on every request; docs/service-contract.md, the callback fence).
Authors == [r \in Runs |-> [i \in DOMAIN applied[r] |-> applied[r][i].by]]
Sole    == INSTANCE SoleWriter WITH owner <- holder, written <- Authors
OnlyTheHolderWrites == Sole!Spec

\* What takes effect on a run's records is what one attempt after another did,
\* the callbacks of each once and in the order the engine made them, whatever is
\* lost, late or answered with an error (host_client.py, "The client NEVER
\* retries a callback", and the lease headers on every request).
NeverReplayed ==
  \A r \in Runs : \A i, j \in DOMAIN applied[r] :
    i < j => LET e == applied[r][i]
                 f == applied[r][j]
             IN  e.by < f.by \/ (e.by = f.by /\ e.n < f.n)

TookEffect(a, n) == [by |-> a, n |-> n] \in {applied[RunOf[a]][i] : i \in DOMAIN applied[RunOf[a]]}

\* No write is attempted on top of one whose fate is unknown: of what a drive
\* sent, all but the last write has taken effect (host_client.py, _request;
\* http_tools.py, StepOutcomeUnknown ends the drive).
NothingAfterAGap ==
  \A a \in Attempts : \A m, n \in DOMAIN sent[a] :
    m < n /\ sent[a][m] \in Mutating /\ sent[a][n] \in Mutating => TookEffect(a, m)

\* The status of execute tells what became of the run's records: before any
\* callback was made it is 401, 422 or 503, and only then; 200 says that every
\* write of the drive took effect; and unless it is 502 nothing of the drive is
\* still on its way, the epilogue aside (service.py, _host_http_error).
AnswerTellsTruth ==
  \A a \in Attempts : pc[a] = "done" /\ ~ask[a].stream =>
    /\ (sent[a] = <<>>) = (reply[a] \in {401, 422, 503})
    /\ reply[a] = 200 =>
         \A n \in DOMAIN sent[a] : sent[a][n] \in {"write", "invoke"} => TookEffect(a, n)
    /\ reply[a] # 502 => \A c \in net : c.by = a => c.kind = "runEnd"

\* The host refuses the lease of an attempt only if it has given the run to
\* another one: no execution ever speaks with another's lease (host_client.py,
\* for_execution).
LeasesKeptApart == \A a \in refused : Superseded(a)

\* A worker whose run was taken over makes at most two more callbacks: the first
\* is refused and ends the drive, unless it is the epilogue's, whose failure is
\* swallowed (service.py, on_run_end).
StaleDriveStops == \A a \in Attempts : lateCalls[a] <= 2

\* An execution that the service took up is over after a while, whatever the
\* host does with its callbacks, unless the process exits (host_client.py,
\* STORE_TIMEOUT_SECONDS, INVOKE_TIMEOUT_SECONDS).
ExecuteEnds ==
  \A a \in Attempts : (pc[a] = "received") ~> (pc[a] \in {"done", "dead"})
=============================================================================
