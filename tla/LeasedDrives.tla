---------------------------- MODULE LeasedDrives ----------------------------
(***************************************************************************)
(* The execute endpoints of slimx_agent/service.py over the callbacks of   *)
(* slimx_agent/host_client.py: attempts at runs, each driven by a worker   *)
(* of the service that calls the host back one request at a time, with the *)
(* attempt's lease on each.  Requests and answers are lost or late, the    *)
(* host refuses, fails or answers nonsense, takes a run away from a worker *)
(* that still works, and the service dies.                                 *)
(***************************************************************************)
EXTENDS Naturals, Sequences

CONSTANTS
  Runs,
  Attempts,     \* attempts by their generation: a later one supersedes
  RunOf,        \* the run of each attempt
  Requests,     \* what the host posts
  Settings,     \* is a token configured, is the host's URL
  MaxCalls      \* most callbacks before a drive winds up

ASSUME LeaseAssumption ==
  /\ Attempts \subseteq Nat \ {0}
  /\ RunOf \in [Attempts -> Runs]
  /\ Requests # {}
  /\ Requests \subseteq
       [stream : BOOLEAN, token : BOOLEAN, lease : {"complete", "partial", "absent"}]
  /\ Settings \subseteq [token : BOOLEAN, hostUrl : BOOLEAN]
  /\ MaxCalls \in Nat

VARIABLES
  holder,    \* the host's ledger: the attempt that holds each run, 0 if none
  applied,   \* the callbacks that took effect on each run's records, in order
  net,       \* requests on their way to the host
  env,       \* the service's settings
  ask,       \* the request an attempt was posted with
  pc,        \* where the service is with it
  stage,     \* which part of the drive its next or pending callback belongs to
  headers,   \* the lease headers of its HostClient
  sent,      \* the kinds of the callbacks it sent, in order
  answer,    \* the status its pending callback was answered with, if it was
  reply,     \* the status the execute request was answered with, if it was
  refused,   \* observer: attempts whose lease the host refused
  lateCalls  \* observer: callbacks an attempt sent after it had lost its run

host     == <<holder, applied>>
observer == <<refused, lateCalls>>
worker   == <<pc, stage, headers, sent, answer, reply>>
vars     == <<host, net, env, ask, worker, observer>>

Kinds    == {"read", "write", "invoke", "runEnd"}
Mutating == Kinds \ {"read"}
Nobody   == 0
NoAnswer == 0
NoReply  == 0

NoRequest == CHOOSE q \in Requests : TRUE

Superseded(a) == holder[RunOf[a]] > a

Set(f, a, x) == [f EXCEPT ![a] = x]

-----------------------------------------------------------------------------
\* The host gives out runs.

\* The host claims the run for a new attempt, from nobody or from an attempt it
\* takes for dead, and posts the execution to the service.
Claim(a, q) ==
  /\ pc[a] = "unposted" /\ holder[RunOf[a]] < a
  /\ holder' = Set(holder, RunOf[a], a)
  /\ ask' = Set(ask, a, q) /\ pc' = Set(pc, a, "received")
  /\ UNCHANGED <<applied, net, env, stage, headers, sent, answer, reply, observer>>

-----------------------------------------------------------------------------
\* The service answers.

RelaysEverything(code) == code
\* A host's 4xx is relayed; a 5xx, a malformed answer and no answer are a 502.
HostHttpError(code) == IF code \in 400..499 THEN code ELSE 502

\* The drive is over.  A stream was answered when it opened and merely ends.
Finish(a, code) ==
  /\ pc' = Set(pc, a, "done")
  /\ reply' = IF ask[a].stream /\ stage[a] # "open" THEN reply ELSE Set(reply, a, code)

\* require_internal_token: with no token configured nobody is turned away.
Unauthorized(q) == env.token /\ ~q.token
\* ProfileBody: a lease with a part missing, and one that is not there at all.
NoLease(q) == q.lease # "complete"
\* The client is built at the first request, which needs the host's URL.
Unconfigured == ~env.hostUrl

\* Why a request is refused before any callback, in the order of the checks.
Refusal(q) ==
  CASE Unauthorized(q) -> 401
    [] NoLease(q)      -> 422
    [] Unconfigured    -> 503
    [] OTHER           -> NoReply

\* for_execution installed on the headers every wrapper shares.
SharesHeaders(a) == headers' = [b \in Attempts |-> a]
\* for_execution: the lease is copied into a wrapper of this execution alone.
ForExecution(a) == headers' = Set(headers, a, a)

Refuse(a) ==
  /\ pc[a] = "received" /\ Refusal(ask[a]) # NoReply
  /\ Finish(a, Refusal(ask[a]))
  /\ UNCHANGED <<host, net, env, ask, stage, headers, sent, answer, observer>>

Admit(a) ==
  /\ pc[a] = "received" /\ Refusal(ask[a]) = NoReply
  /\ ForExecution(a)
  /\ pc' = Set(pc, a, "ready")
  /\ UNCHANGED <<host, net, env, ask, stage, sent, answer, reply, observer>>

-----------------------------------------------------------------------------
\* A drive and its callbacks.

\* store_and_run reads the run; the engine calls what it will; then the run-end
\* hook, if the run ended; the last drain; execute reads the run once more.
KindsOf(s) ==
  CASE s = "drive" -> {"read", "write", "invoke"}
    [] s = "hook"  -> {"runEnd"}
    [] OTHER       -> {"read"}

\* _request: one request, with the wrapper's headers.
Send(a, kind) ==
  /\ pc[a] = "ready" /\ kind \in KindsOf(stage[a])
  /\ sent' = Set(sent, a, Append(sent[a], kind))
  /\ net' = net \cup {[by |-> a, n |-> Len(sent[a]) + 1, kind |-> kind,
                       lease |-> headers[a]]}
  /\ pc' = Set(pc, a, "waiting") /\ answer' = Set(answer, a, NoAnswer)
  /\ lateCalls' = IF Superseded(a) THEN Set(lateCalls, a, lateCalls[a] + 1)
                  ELSE lateCalls
  /\ UNCHANGED <<host, env, ask, stage, headers, reply, refused>>

LastSent(a) == sent[a][Len(sent[a])]

\* The stages a 2xx leads to.  The hook follows the run's last write; a drive
\* stops after a read; a stream has no final read, its last stage is "over".
NextStages(a) ==
  LET last == IF ask[a].stream THEN "over" ELSE "final"
  IN CASE stage[a] = "open"  -> {"drive"}
       [] stage[a] = "drive" ->
            (IF Len(sent[a]) < MaxCalls THEN {"drive"} ELSE {})
              \cup (IF LastSent(a) = "write" THEN {"hook"} ELSE {last})
       [] stage[a] = "hook"  -> {"drain"}
       [] stage[a] = "drain" -> {last}
       [] OTHER              -> {"over"}

\* The drive goes on, or was the last of it.
Proceed(a) == \E s \in NextStages(a) :
  /\ stage' = Set(stage, a, s)
  /\ IF s = "over" THEN Finish(a, 200)
     ELSE /\ pc' = Set(pc, a, "ready")
          /\ reply' = IF stage[a] = "open" /\ ask[a].stream THEN Set(reply, a, 200)
                      ELSE reply

CarriesOn(a, code) ==
  /\ UNCHANGED stage
  /\ IF stage[a] = "drive" /\ Len(sent[a]) <= MaxCalls + 1
     THEN pc' = Set(pc, a, "ready") /\ UNCHANGED reply
     ELSE Finish(a, HostHttpError(code))
\* A failed callback ends the drive, but for the hook's, which is logged and
\* forgotten, and a final read that finds no run, which keeps the first answer.
Fails(a, code) ==
  \/ /\ stage[a] = "hook" /\ stage' = Set(stage, a, "drain")
     /\ pc' = Set(pc, a, "ready") /\ UNCHANGED reply
  \/ stage[a] = "final" /\ code = 404 /\ Finish(a, 200) /\ UNCHANGED stage
  \/ /\ stage[a] # "hook" /\ (stage[a] = "final" => code # 404)
     /\ Finish(a, HostHttpError(code)) /\ UNCHANGED stage

Hear(a) ==
  /\ pc[a] = "waiting" /\ answer[a] # NoAnswer
  /\ answer' = Set(answer, a, NoAnswer)
  /\ IF answer[a] = 200 THEN Proceed(a) ELSE Fails(a, answer[a])
  /\ UNCHANGED <<host, net, env, ask, headers, sent, observer>>

RetriesOnce(a) ==
  /\ pc[a] = "waiting" /\ answer[a] = NoAnswer
  /\ pc' = Set(pc, a, "ready")
  /\ sent' = Set(sent, a, SubSeq(sent[a], 1, Len(sent[a]) - 1))
  /\ UNCHANGED <<host, net, env, ask, stage, headers, answer, reply, observer>>
WaitsForInvocations(a) ==
  /\ pc[a] = "waiting" /\ answer[a] = NoAnswer /\ LastSent(a) # "invoke"
  /\ Fails(a, 503)
  /\ UNCHANGED <<host, net, env, ask, headers, sent, answer, observer>>
\* HostUnavailable: the transport fails or times out.  The request may still be
\* on its way, which matters if it is not a read, or its answer be lost.
TimesOut(a) ==
  /\ pc[a] = "waiting" /\ answer[a] = NoAnswer
  /\ Fails(a, 503)
  /\ net' = {c \in net : c.by = a => c.kind \in Mutating}
  /\ UNCHANGED <<host, env, ask, headers, sent, answer, observer>>

\* RunningStepNotPermitted, on what the drive just read.
NotPermitted(a) ==
  /\ pc[a] = "ready" /\ stage[a] = "drive" /\ LastSent(a) = "read"
  /\ Finish(a, 409)
  /\ UNCHANGED <<host, net, env, ask, stage, headers, sent, answer, observer>>

-----------------------------------------------------------------------------
\* The host answers callbacks, the network loses them, the service dies.

\* The answer reaches a worker that still waits for it, or is lost.
Answers(c, code) ==
  \/ /\ pc[c.by] = "waiting" /\ c.n = Len(sent[c.by])
     /\ answer' = Set(answer, c.by, code)
  \/ UNCHANGED answer

Current(c) == c.lease = holder[RunOf[c.by]]

\* The lease is checked when the callback arrives, against the run it names.
RefuseLease(c) ==
  /\ ~Current(c) /\ net' = net \ {c} /\ Answers(c, 409)
  /\ refused' = refused \cup {c.by}
  /\ UNCHANGED <<host, env, ask, pc, stage, headers, sent, reply, lateCalls>>

\* It takes effect; the answer may still be a 5xx or, all the same, nonsense.
Apply(c, code) ==
  /\ Current(c) /\ net' = net \ {c} /\ Answers(c, code)
  /\ applied' = IF c.kind \in Mutating
                THEN Set(applied, RunOf[c.by],
                         Append(applied[RunOf[c.by]], [by |-> c.by, n |-> c.n]))
                ELSE applied
  /\ UNCHANGED <<holder, env, ask, pc, stage, headers, sent, reply, observer>>

\* The host has no such row, refuses the transition, or fails and rolls back.
Decline(c, code) ==
  /\ Current(c) /\ net' = net \ {c} /\ Answers(c, code)
  /\ UNCHANGED <<host, env, ask, pc, stage, headers, sent, reply, observer>>

Lose(c) ==
  /\ net' = net \ {c}
  /\ UNCHANGED <<host, env, ask, worker, observer>>

Arrive(c) ==
  \/ RefuseLease(c)
  \/ \E code \in {200, 500} : Apply(c, code)
  \/ \E code \in {404, 409, 500} : Decline(c, code)
  \/ Lose(c)

Alive == {"received", "ready", "waiting"}

ProcessExits ==
  /\ \E a \in Attempts : pc[a] \in Alive
  /\ pc' = [a \in Attempts |-> IF pc[a] \in Alive THEN "dead" ELSE pc[a]]
  /\ UNCHANGED <<host, net, env, ask, stage, headers, sent, answer, reply, observer>>

-----------------------------------------------------------------------------
Init ==
  /\ holder = [r \in Runs |-> Nobody] /\ applied = [r \in Runs |-> <<>>]
  /\ net = {} /\ env \in Settings
  /\ ask = [a \in Attempts |-> NoRequest]
  /\ pc = [a \in Attempts |-> "unposted"] /\ stage = [a \in Attempts |-> "open"]
  /\ headers = [a \in Attempts |-> Nobody] /\ sent = [a \in Attempts |-> <<>>]
  /\ answer = [a \in Attempts |-> NoAnswer] /\ reply = [a \in Attempts |-> NoReply]
  /\ refused = {} /\ lateCalls = [a \in Attempts |-> 0]

Work(a) ==
  \/ Refuse(a) \/ Admit(a) \/ (\E kind \in Kinds : Send(a, kind))
  \/ Hear(a) \/ TimesOut(a)

Next ==
  \/ \E a \in Attempts :
       Work(a) \/ NotPermitted(a) \/ (\E q \in Requests : Claim(a, q))
  \/ (\E c \in net : Arrive(c)) \/ ProcessExits

Spec == Init /\ [][Next]_vars

\* A worker's thread runs, and every request has a timeout; nothing is assumed
\* of the host or the network.
FairSpec == Spec /\ \A a \in Attempts : WF_vars(Work(a))
=============================================================================
