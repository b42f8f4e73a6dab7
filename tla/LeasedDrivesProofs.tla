-------------------------- MODULE LeasedDrivesProofs --------------------------
(***************************************************************************)
(* The fence around leased drives, the order of their callbacks and the    *)
(* answer of execute, for any number of runs, attempts and callbacks.      *)
(***************************************************************************)
EXTENDS LeasedDrivesProps, TLAPS

-----------------------------------------------------------------------------
\* A wrapper in use carries the lease of its attempt, and so does every request.
LeaseInv ==
  /\ \A a \in Attempts : pc[a] \in {"ready", "waiting"} => headers[a] = a
  /\ \A c \in net : c.lease = c.by

\* A request on its way was sent: its number says when, and hence what it was.
SentInv ==
  /\ \A a \in Attempts : pc[a] \in {"unposted", "received"} =>
       sent[a] = <<>> /\ stage[a] = "open" /\ lateCalls[a] = 0
  /\ \A a \in Attempts : pc[a] = "waiting" \/ stage[a] # "open" => sent[a] # <<>>
  /\ \A c \in net : c.n \in DOMAIN sent[c.by] /\ c.kind = sent[c.by][c.n]

\* The host's ledger only moves on.
HeldInv == \A a \in Attempts : pc[a] # "unposted" => holder[RunOf[a]] >= a

FenceInv == TypeOK /\ LeaseInv /\ SentInv /\ HeldInv /\ LeasesKeptApart

\* Between two requests none is on its way but the epilogue's, and that only when
\* the drive has no more writes to make; an answered request is not on its way.
Writing == {"open", "drive", "hook"}
PendingInv ==
  \A a \in Attempts :
    /\ pc[a] = "waiting" => sent[a][Len(sent[a])] \in KindsOf(stage[a])
    /\ pc[a] \in {"ready", "waiting"} => \A c \in net : c.by = a =>
         \/ c.kind = "runEnd" /\ stage[a] \notin Writing
         \/ pc[a] = "waiting" /\ c.n = Len(sent[a]) /\ answer[a] = NoAnswer

\* What takes effect of one drive does so once and in the order it was sent.
InSendingOrder ==
  \A r \in Runs : \A i, j \in DOMAIN applied[r] :
    i < j /\ applied[r][i].by = applied[r][j].by => applied[r][i].n < applied[r][j].n

\* After a write on its way only reads were sent.
OrderInv ==
  /\ \A c \in net : c.kind \in Mutating =>
       \A n \in DOMAIN sent[c.by] : n > c.n => sent[c.by][n] = "read"
  /\ \A r \in Runs : \A i \in DOMAIN applied[r] : LET e == applied[r][i] IN
       /\ e.n \in DOMAIN sent[e.by] /\ sent[e.by][e.n] \in Mutating
       /\ \A c \in net : c.by = e.by => c.n # e.n

\* A drive that goes on has had every write take effect that it was answered 200,
\* the epilogue's aside, whose failure is swallowed.
Answered(a, n) ==
  /\ sent[a][n] \in Mutating
  /\ sent[a][n] = "runEnd" => stage[a] \in Writing
  /\ n = Len(sent[a]) => pc[a] = "ready" \/ answer[a] = 200
EffectInv ==
  \A a \in Attempts : pc[a] \in {"ready", "waiting"} =>
    \A n \in DOMAIN sent[a] : Answered(a, n) => TookEffect(a, n)

CallInv ==
  PendingInv /\ OrderInv /\ EffectInv /\ InSendingOrder /\ NothingAfterAGap /\ AnswerTellsTruth

\* A worker that lost its run gets no more good answers.
LateInv ==
  \A a \in Attempts :
    /\ lateCalls[a] <= 2
    /\ lateCalls[a] > 0 => Superseded(a)
    /\ pc[a] = "ready" => lateCalls[a] <= (IF stage[a] = "drain" THEN 1 ELSE 0)
    /\ pc[a] = "waiting" => lateCalls[a] <= (IF stage[a] = "drain" THEN 2 ELSE 1)
    /\ pc[a] = "waiting" /\ lateCalls[a] > 0 => answer[a] # 200

\* The host's answers are none of the service's own refusals.
AnswerInv == \A a \in Attempts : answer[a] \in {NoAnswer, 200, 404, 409, 500}

-----------------------------------------------------------------------------
\* What the worker's steps do.

\* A request of attempt a was answered or timed out: where that leaves it.
Moves(a, p, s, q) ==
  pc' = Set(pc, a, p) /\ stage' = Set(stage, a, s) /\ reply' = Set(reply, a, q)

LEMMA Numbers == Attempts \subseteq Nat /\ 0 \notin Attempts /\ RunOf \in [Attempts -> Runs]
BY LeaseAssumption

LEMMA FinishMoves ==
  ASSUME TypeOK, NEW a \in Attempts, NEW code \in Codes, Finish(a, code), UNCHANGED stage
  PROVE  \E q \in Codes \cup {NoReply} :
           Moves(a, "done", stage[a], q) /\ (~ask[a].stream => q = code)
<1>1. stage' = Set(stage, a, stage[a])
  BY DEF TypeOK, Set
<1>2. CASE ask[a].stream /\ stage[a] # "open"
  <2>1. reply' = Set(reply, a, reply[a]) /\ reply[a] \in Codes \cup {NoReply}
    BY <1>2 DEF TypeOK, Set, Finish
  <2> QED BY <1>1, <1>2, <2>1 DEF Moves, Finish
<1>3. CASE ~(ask[a].stream /\ stage[a] # "open")
  BY <1>1, <1>3 DEF Moves, Finish
<1> QED BY <1>2, <1>3

LEMMA Relayed ==
  ASSUME NEW code \in {200, 404, 409, 500, 503}
  PROVE  HostHttpError(code) \in {404, 409, 502} /\ HostHttpError(503) = 502
<1>1. 200 \notin 400..499 /\ 404 \in 400..499 /\ 409 \in 400..499 /\ 500 \notin 400..499
        /\ 503 \notin 400..499
  OBVIOUS
<1> QED BY <1>1 DEF HostHttpError

LEMMA FailsMoves ==
  ASSUME TypeOK, NEW a \in Attempts, NEW code \in {404, 409, 500, 503}, Fails(a, code)
  PROVE  \E p \in {"ready", "done"}, s \in Stages, q \in Codes \cup {NoReply} :
           /\ Moves(a, p, s, q)
           /\ p = "ready" => stage[a] = "hook" /\ s = "drain"
           /\ p = "done" => s = stage[a]
           /\ p = "done" /\ ~ask[a].stream =>
                \/ q = HostHttpError(code)
                \/ q = 200 /\ code = 404 /\ stage[a] = "final"
<1>1. stage[a] \in Stages /\ reply[a] \in Codes \cup {NoReply} /\ "drain" \in Stages
        /\ 200 \in Codes
  BY DEF TypeOK, Stages, Codes
<1>2. CASE stage[a] = "hook" /\ stage' = Set(stage, a, "drain")
             /\ pc' = Set(pc, a, "ready") /\ UNCHANGED reply
  <2>1. reply' = Set(reply, a, reply[a])
    BY <1>2 DEF TypeOK, Set
  <2> QED BY <1>1, <1>2, <2>1 DEF Moves
<1>3. CASE stage[a] = "final" /\ code = 404 /\ Finish(a, 200) /\ UNCHANGED stage
  <2>1. PICK q \in Codes \cup {NoReply} :
          Moves(a, "done", stage[a], q) /\ (~ask[a].stream => q = 200)
    BY <1>1, <1>3, FinishMoves
  <2> QED BY <1>1, <1>3, <2>1
<1>4. CASE Finish(a, HostHttpError(code)) /\ UNCHANGED stage
  <2>1. HostHttpError(code) \in Codes
    BY Relayed DEF Codes
  <2>2. PICK q \in Codes \cup {NoReply} :
          Moves(a, "done", stage[a], q) /\ (~ask[a].stream => q = HostHttpError(code))
    BY <1>4, <2>1, FinishMoves
  <2> QED BY <1>1, <2>2
<1> QED BY <1>2, <1>3, <1>4 DEF Fails

LEMMA ProceedMoves ==
  ASSUME TypeOK, NEW a \in Attempts, Proceed(a)
  PROVE  \E p \in {"ready", "done"}, s \in Stages, q \in Codes \cup {NoReply} :
           /\ Moves(a, p, s, q)
           /\ s # "open" /\ (s \in Writing => stage[a] \in Writing)
           /\ p = "done" /\ ~ask[a].stream => q = 200
<1>1. PICK s \in NextStages(a) :
        /\ stage' = Set(stage, a, s)
        /\ IF s = "over" THEN Finish(a, 200)
           ELSE /\ pc' = Set(pc, a, "ready")
                /\ reply' = IF stage[a] = "open" /\ ask[a].stream THEN Set(reply, a, 200)
                            ELSE reply
  BY DEF Proceed
<1>2. s \in Stages /\ s # "open" /\ (s \in Writing => stage[a] \in Writing)
  <2> DEFINE last == IF ask[a].stream THEN "over" ELSE "final"
  <2>1. CASE stage[a] = "open"
    BY <2>1 DEF NextStages, Stages, Writing
  <2>2. CASE stage[a] = "drive"
    BY <2>2 DEF NextStages, Stages, Writing
  <2>3. CASE stage[a] \notin {"open", "drive"}
    BY <2>3 DEF NextStages, Stages, Writing
  <2> QED BY <2>1, <2>2, <2>3
<1>3. 200 \in Codes /\ reply[a] \in Codes \cup {NoReply} /\ reply = Set(reply, a, reply[a])
  BY DEF TypeOK, Set, Codes
<1>4. CASE s = "over"
  <2>1. pc' = Set(pc, a, "done")
    BY <1>1, <1>4 DEF Finish
  <2>2. CASE ask[a].stream /\ stage[a] # "open"
    <3>1. reply' = Set(reply, a, reply[a])
      BY <1>1, <1>3, <1>4, <2>2 DEF Finish
    <3> QED BY <1>1, <1>2, <1>3, <2>1, <2>2, <3>1 DEF Moves
  <2>3. CASE ~(ask[a].stream /\ stage[a] # "open")
    <3>1. reply' = Set(reply, a, 200)
      BY <1>1, <1>4, <2>3 DEF Finish
    <3> QED BY <1>1, <1>2, <1>3, <2>1, <3>1 DEF Moves
  <2> QED BY <2>2, <2>3
<1>5. CASE s # "over" /\ stage[a] = "open" /\ ask[a].stream
  <2>1. pc' = Set(pc, a, "ready") /\ reply' = Set(reply, a, 200)
    BY <1>1, <1>5
  <2> QED BY <1>1, <1>2, <1>3, <2>1 DEF Moves
<1>6. CASE s # "over" /\ ~(stage[a] = "open" /\ ask[a].stream)
  <2>1. pc' = Set(pc, a, "ready") /\ reply' = Set(reply, a, reply[a])
    BY <1>1, <1>3, <1>6
  <2> QED BY <1>1, <1>2, <1>3, <2>1 DEF Moves
<1> QED BY <1>4, <1>5, <1>6

\* What Hear and TimesOut have in common.
LEMMA Hears ==
  ASSUME TypeOK, AnswerInv, NEW a \in Attempts, Hear(a) \/ TimesOut(a)
  PROVE  \E p \in {"ready", "done"}, s \in Stages, q \in Codes \cup {NoReply} :
           /\ Moves(a, p, s, q)
           /\ p = "ready" => s # "open" /\ (s \in Writing => stage[a] \in Writing)
           /\ p = "ready" /\ answer[a] # 200 => stage[a] = "hook" /\ s = "drain"
           /\ p = "done" /\ ~ask[a].stream =>
                /\ q \in {200, 404, 409, 502}
                /\ q = 200 => answer[a] = 200 \/ stage[a] = "final"
                /\ q # 502 => answer[a] # NoAnswer
<1>1. CASE Hear(a) /\ answer[a] = 200
  <2>1. Proceed(a) /\ 200 # NoAnswer
    BY <1>1 DEF Hear, NoAnswer
  <2> QED BY <1>1, <2>1, ProceedMoves
<1>2. CASE Hear(a) /\ answer[a] # 200
  <2>1. Fails(a, answer[a]) /\ answer[a] # NoAnswer /\ answer[a] \in {404, 409, 500}
    BY <1>2 DEF Hear, AnswerInv
  <2>2. PICK p \in {"ready", "done"}, s \in Stages, q \in Codes \cup {NoReply} :
           /\ Moves(a, p, s, q)
           /\ p = "ready" => stage[a] = "hook" /\ s = "drain"
           /\ p = "done" => s = stage[a]
           /\ p = "done" /\ ~ask[a].stream =>
                \/ q = HostHttpError(answer[a])
                \/ q = 200 /\ answer[a] = 404 /\ stage[a] = "final"
    BY <2>1, FailsMoves
  <2>3. HostHttpError(answer[a]) \in {404, 409, 502}
    BY <2>1, Relayed
  <2> QED BY <1>2, <2>1, <2>2, <2>3 DEF Writing
<1>3. CASE TimesOut(a)
  <2>1. Fails(a, 503) /\ answer[a] = NoAnswer
    BY <1>3 DEF TimesOut
  <2>2. PICK p \in {"ready", "done"}, s \in Stages, q \in Codes \cup {NoReply} :
           /\ Moves(a, p, s, q)
           /\ p = "ready" => stage[a] = "hook" /\ s = "drain"
           /\ p = "done" => s = stage[a]
           /\ p = "done" /\ ~ask[a].stream =>
                \/ q = HostHttpError(503)
                \/ q = 200 /\ 503 = 404 /\ stage[a] = "final"
    BY <2>1, FailsMoves
  <2> QED BY <2>1, <2>2, Relayed DEF Writing
<1> QED BY <1>1, <1>2, <1>3

\* What the arrival of a request at the host changes.
Arrival(c) ==
  /\ net' = net \ {c}
  /\ \/ UNCHANGED answer
     \/ /\ pc[c.by] = "waiting" /\ c.n = Len(sent[c.by])
        /\ \E code \in {200, 404, 409, 500} :
             /\ answer' = Set(answer, c.by, code)
             /\ code = 200 => Current(c) /\
                  (c.kind \in Mutating => applied' =
                     Set(applied, RunOf[c.by], Append(applied[RunOf[c.by]], [by |-> c.by, n |-> c.n])))
  /\ \/ UNCHANGED applied
     \/ /\ Current(c) /\ c.kind \in Mutating
        /\ applied' = Set(applied, RunOf[c.by],
                          Append(applied[RunOf[c.by]], [by |-> c.by, n |-> c.n]))
  /\ \/ UNCHANGED refused
     \/ ~Current(c) /\ refused' = refused \cup {c.by}
  /\ UNCHANGED <<holder, env, ask, pc, stage, headers, sent, reply, lateCalls>>

LEMMA Arrives == ASSUME NEW c \in net, Arrive(c) PROVE Arrival(c)
<1> USE DEF Arrival, Answers, host, worker, observer
<1>1. CASE RefuseLease(c)
  BY <1>1 DEF RefuseLease
<1>2. ASSUME NEW code \in {200, 500}, Apply(c, code) PROVE Arrival(c)
  <2>1. CASE c.kind \in Mutating
    BY <1>2, <2>1 DEF Apply
  <2>2. CASE c.kind \notin Mutating
    BY <1>2, <2>2 DEF Apply
  <2> QED BY <2>1, <2>2
<1>3. ASSUME NEW code \in {404, 409, 500}, Decline(c, code) PROVE Arrival(c)
  BY <1>3 DEF Decline
<1>4. CASE Lose(c)
  BY <1>4 DEF Lose
<1> QED BY <1>1, <1>2, <1>3, <1>4 DEF Arrive

-----------------------------------------------------------------------------
\* The fence.

LEMMA FenceInit == ASSUME Init PROVE FenceInv /\ AnswerInv
<1>1. NoRequest \in Requests
  BY LeaseAssumption DEF NoRequest
<1>2. TypeOK
  BY <1>1, Numbers DEF Init, TypeOK, Stages
<1>3. LeaseInv /\ HeldInv /\ LeasesKeptApart /\ AnswerInv
  BY DEF Init, LeaseInv, HeldInv, LeasesKeptApart, AnswerInv
<1>4. SentInv
  BY DEF Init, SentInv
<1> QED BY <1>2, <1>3, <1>4 DEF FenceInv

LEMMA Holders ==
  ASSUME TypeOK, NEW r \in Runs PROVE holder[r] \in Nat
<1>1. holder[r] \in Attempts \cup {Nobody}
  BY DEF TypeOK
<1>2. Nobody \in Nat
  BY DEF Nobody
<1> QED BY <1>1, <1>2, Numbers

LEMMA ClaimGrows ==
  ASSUME TypeOK, NEW a \in Attempts, NEW q \in Requests, Claim(a, q)
  PROVE  /\ RunOf[a] \in Runs /\ a \in Nat
         /\ holder' = Set(holder, RunOf[a], a) /\ holder'[RunOf[a]] = a
         /\ \A r \in Runs : holder[r] \in Nat /\ holder'[r] \in Nat /\ holder'[r] >= holder[r]
<1>1. RunOf[a] \in Runs /\ a \in Nat /\ holder[RunOf[a]] < a
  BY Numbers DEF Claim
<1>2. /\ holder' = Set(holder, RunOf[a], a) /\ holder'[RunOf[a]] = a
      /\ \A r \in Runs \ {RunOf[a]} : holder'[r] = holder[r]
  BY <1>1 DEF Claim, TypeOK, Set
<1> QED BY <1>1, <1>2, Holders

LEMMA FenceClaim ==
  ASSUME FenceInv, NEW a \in Attempts, NEW q \in Requests, Claim(a, q) PROVE FenceInv'
<1> USE DEF FenceInv, observer
<1>1. RunOf[a] \in Runs /\ a \in Nat
  BY Numbers
<1>2. holder' = Set(holder, RunOf[a], a) /\ holder'[RunOf[a]] = a
  BY ClaimGrows
<1>3. \A r \in Runs : holder[r] \in Nat /\ holder'[r] \in Nat /\ holder'[r] >= holder[r]
  BY ClaimGrows
<1>4. TypeOK'
  <2>1. holder' \in [Runs -> Attempts \cup {Nobody}]
    BY <1>1, <1>2 DEF TypeOK, Set
  <2>2. ask' \in [Attempts -> Requests]
        /\ pc' \in [Attempts -> {"unposted", "received", "ready", "waiting", "done", "dead"}]
    BY DEF Claim, TypeOK, Set
  <2> QED BY <2>1, <2>2 DEF Claim, TypeOK
<1>5. LeaseInv' /\ SentInv'
  BY DEF Claim, LeaseInv, SentInv, TypeOK, Set
<1>6. HeldInv'
  <2> SUFFICES ASSUME NEW b \in Attempts, pc'[b] # "unposted"
               PROVE  holder'[RunOf[b]] >= b
    BY DEF HeldInv
  <2>1. CASE b = a
    BY <1>1, <1>2, <2>1
  <2>2. CASE b # a
    <3>1. holder[RunOf[b]] >= b
      BY <2>2 DEF Claim, HeldInv, TypeOK, Set
    <3> QED BY <1>3, <3>1, Numbers
  <2> QED BY <2>1, <2>2
<1>7. LeasesKeptApart'
  <2> SUFFICES ASSUME NEW b \in refused' PROVE holder'[RunOf[b]] > b
    BY DEF LeasesKeptApart, Superseded
  <2>1. b \in Attempts /\ holder[RunOf[b]] > b
    BY DEF Claim, LeasesKeptApart, Superseded, TypeOK
  <2>2. RunOf[b] \in Runs /\ b \in Nat
    BY <2>1, Numbers
  <2> QED BY <1>3, <2>1, <2>2
<1> QED BY <1>4, <1>5, <1>6, <1>7

LEMMA FenceRefuse ==
  ASSUME FenceInv, NEW a \in Attempts, Refuse(a) PROVE FenceInv'
<1> USE DEF FenceInv, host, observer
<1>1. Refusal(ask[a]) \in Codes /\ UNCHANGED stage
  BY DEF Refuse, Refusal, Unauthorized, NoLease, Unconfigured, Codes
<1>2. PICK q \in Codes \cup {NoReply} : Moves(a, "done", stage[a], q)
  BY <1>1, FinishMoves DEF Refuse
<1>3. TypeOK'
  BY <1>2 DEF Refuse, Moves, TypeOK, Set
<1>4. LeaseInv' /\ SentInv'
  BY <1>2 DEF Refuse, Moves, LeaseInv, SentInv, TypeOK, Set
<1>5. HeldInv' /\ LeasesKeptApart'
  BY <1>2 DEF Refuse, Moves, HeldInv, LeasesKeptApart, Superseded, TypeOK, Set
<1> QED BY <1>3, <1>4, <1>5

LEMMA FenceAdmit ==
  ASSUME FenceInv, NEW a \in Attempts, Admit(a) PROVE FenceInv'
<1> USE DEF FenceInv, host, observer
<1>1. TypeOK'
  BY DEF Admit, ForExecution, TypeOK, Set
<1>2. LeaseInv' /\ SentInv'
  BY DEF Admit, ForExecution, LeaseInv, SentInv, TypeOK, Set
<1>3. HeldInv' /\ LeasesKeptApart'
  BY DEF Admit, HeldInv, LeasesKeptApart, Superseded, TypeOK, Set
<1> QED BY <1>1, <1>2, <1>3

\* What a request is, and what sending it leaves alone.
LEMMA Sends ==
  ASSUME FenceInv, NEW a \in Attempts, NEW kind \in Kinds, Send(a, kind)
  PROVE  LET c == [by |-> a, n |-> Len(sent[a]) + 1, kind |-> kind, lease |-> a]
         IN  /\ net' = net \cup {c} /\ c \in Calls
             /\ sent'[a] = Append(sent[a], kind) /\ Len(sent'[a]) = Len(sent[a]) + 1
             /\ DOMAIN sent'[a] = 1..(Len(sent[a]) + 1)
             /\ \A n \in DOMAIN sent[a] : n \in Nat /\ n <= Len(sent[a]) /\ sent'[a][n] = sent[a][n]
             /\ sent'[a][Len(sent[a]) + 1] = kind
             /\ \A b \in Attempts \ {a} : sent'[b] = sent[b] /\ pc'[b] = pc[b]
             /\ pc'[a] = "waiting"
<1>1. sent[a] \in Seq(Kinds) /\ Len(sent[a]) \in Nat /\ headers[a] = a
  BY DEF FenceInv, TypeOK, LeaseInv, Send
<1>2. sent'[a] = Append(sent[a], kind)
  BY DEF FenceInv, TypeOK, Send, Set
<1>3. \A b \in Attempts \ {a} : sent'[b] = sent[b] /\ pc'[b] = pc[b]
  BY DEF FenceInv, TypeOK, Send, Set
<1>4. pc'[a] = "waiting"
  BY DEF FenceInv, TypeOK, Send, Set
<1> QED BY <1>1, <1>2, <1>3, <1>4 DEF Send, Calls

LEMMA FenceSend ==
  ASSUME FenceInv, NEW a \in Attempts, NEW kind \in Kinds, Send(a, kind) PROVE FenceInv'
<1> USE DEF FenceInv
<1> DEFINE c == [by |-> a, n |-> Len(sent[a]) + 1, kind |-> kind, lease |-> a]
<1>1. /\ net' = net \cup {c} /\ c \in Calls /\ sent'[a] = Append(sent[a], kind)
      /\ \A b \in Attempts \ {a} : sent'[b] = sent[b] /\ pc'[b] = pc[b]
      /\ pc'[a] = "waiting" /\ UNCHANGED <<holder, headers, stage, refused>>
  BY Sends DEF Send, host
<1>2. TypeOK'
  <2>1. sent' \in [Attempts -> Seq(Kinds)]
    BY DEF Send, TypeOK, Set
  <2>2. lateCalls' \in [Attempts -> Nat]
    BY DEF Send, TypeOK, Set
  <2> QED BY <1>1, <2>1, <2>2 DEF Send, TypeOK, Set, host
<1>3. LeaseInv'
  BY <1>1 DEF Send, LeaseInv, TypeOK
<1>4. SentInv'
  <2>1. \A b \in Attempts : pc'[b] \in {"unposted", "received"} =>
          sent'[b] = <<>> /\ stage'[b] = "open" /\ lateCalls'[b] = 0
    BY <1>1 DEF Send, SentInv, TypeOK, Set
  <2>2. \A b \in Attempts : pc'[b] = "waiting" \/ stage'[b] # "open" => sent'[b] # <<>>
    BY <1>1 DEF SentInv, TypeOK
  <2>3. \A d \in net' : d.n \in DOMAIN sent'[d.by] /\ d.kind = sent'[d.by][d.n]
    <3> TAKE d \in net'
    <3>1. CASE d = c
      BY <3>1, Sends
    <3>2. CASE d # c
      <4>1. d \in net /\ d.by \in Attempts
        BY <1>1, <3>2 DEF TypeOK, Calls
      <4>2. d.n \in DOMAIN sent[d.by] /\ d.kind = sent[d.by][d.n]
        BY <4>1 DEF SentInv
      <4>3. CASE d.by = a
        <5>1. d.n \in Nat /\ d.n <= Len(sent[a]) /\ sent'[a][d.n] = sent[a][d.n]
          BY <4>2, <4>3, Sends
        <5>2. Len(sent[a]) \in Nat /\ d.n >= 1
          BY <4>2, <4>3 DEF TypeOK
        <5>3. d.n \in 1..(Len(sent[a]) + 1)
          BY <5>1, <5>2
        <5> QED BY <4>2, <4>3, <5>1, <5>3, Sends
      <4>4. CASE d.by # a
        BY <1>1, <4>1, <4>2, <4>4
      <4> QED BY <4>3, <4>4
    <3> QED BY <3>1, <3>2
  <2> QED BY <2>1, <2>2, <2>3 DEF SentInv
<1>5. pc[a] = "ready"
  BY DEF Send
<1>6. HeldInv'
  <2>1. \A b \in Attempts : pc[b] # "unposted" => holder[RunOf[b]] >= b
    BY DEF HeldInv
  <2>2. \A b \in Attempts : pc'[b] # "unposted" => pc[b] # "unposted"
    BY <1>1, <1>5
  <2> QED BY <1>1, <2>1, <2>2 DEF HeldInv
<1>7. LeasesKeptApart'
  <2>1. UNCHANGED <<holder, refused>>
    BY <1>1
  <2> QED BY <2>1 DEF LeasesKeptApart, Superseded
<1> QED BY <1>2, <1>3, <1>4, <1>6, <1>7

\* Hear and TimesOut.
LEMMA FenceHears ==
  ASSUME FenceInv, AnswerInv, NEW a \in Attempts, Hear(a) \/ TimesOut(a) PROVE FenceInv'
<1> USE DEF FenceInv
<1>1. PICK p \in {"ready", "done"}, s \in Stages, q \in Codes \cup {NoReply} :
        Moves(a, p, s, q)
  BY Hears
<1>2. /\ pc[a] = "waiting" /\ net' \subseteq net
      /\ answer' = Set(answer, a, NoAnswer)
      /\ UNCHANGED <<holder, applied, env, ask, headers, sent, refused, lateCalls>>
  <2>1. CASE Hear(a)
    BY <2>1 DEF Hear, host, observer
  <2>2. CASE TimesOut(a)
    BY <2>2 DEF TimesOut, host, observer, Set, TypeOK
  <2> QED BY <2>1, <2>2
<1>3. TypeOK'
  BY <1>1, <1>2 DEF Moves, TypeOK, Set
<1>4. LeaseInv'
  BY <1>1, <1>2 DEF Moves, LeaseInv, TypeOK, Set
<1>5. SentInv'
  <2>1. sent[a] # <<>>
    BY <1>2 DEF SentInv
  <2> QED BY <1>1, <1>2, <2>1 DEF Moves, SentInv, TypeOK, Set
<1>6. HeldInv' /\ LeasesKeptApart'
  BY <1>1, <1>2 DEF Moves, HeldInv, LeasesKeptApart, Superseded, TypeOK, Set
<1> QED BY <1>3, <1>4, <1>5, <1>6

LEMMA FenceNotPermitted ==
  ASSUME FenceInv, NEW a \in Attempts, NotPermitted(a) PROVE FenceInv'
<1> USE DEF FenceInv, host, observer
<1>1. PICK q \in Codes \cup {NoReply} : Moves(a, "done", stage[a], q)
  BY FinishMoves DEF NotPermitted, Codes
<1>2. TypeOK'
  BY <1>1 DEF NotPermitted, Moves, TypeOK, Set
<1>3. LeaseInv' /\ SentInv'
  BY <1>1 DEF NotPermitted, Moves, LeaseInv, SentInv, TypeOK, Set
<1>4. HeldInv' /\ LeasesKeptApart'
  BY <1>1 DEF NotPermitted, Moves, HeldInv, LeasesKeptApart, Superseded, TypeOK, Set
<1> QED BY <1>2, <1>3, <1>4

LEMMA FenceArrive ==
  ASSUME FenceInv, NEW c \in net, Arrive(c) PROVE FenceInv'
<1> USE DEF FenceInv
<1>1. Arrival(c)
  BY Arrives
<1>2. c \in Calls /\ c.by \in Attempts /\ c.lease = c.by /\ RunOf[c.by] \in Runs
  BY Numbers DEF TypeOK, Calls, LeaseInv
<1>3. TypeOK'
  <2>1. applied' \in [Runs -> Seq([by : Attempts, n : Nat])]
    <3> DEFINE e == [by |-> c.by, n |-> c.n]
               s == Append(applied[RunOf[c.by]], e)
    <3>1. e \in [by : Attempts, n : Nat]
      BY <1>2 DEF Calls
    <3>2. applied[RunOf[c.by]] \in Seq([by : Attempts, n : Nat])
      BY <1>2 DEF TypeOK
    <3>3. s \in Seq([by : Attempts, n : Nat])
      BY <3>1, <3>2
    <3>4. applied' = applied \/ applied' = Set(applied, RunOf[c.by], s)
      BY <1>1 DEF Arrival
    <3> HIDE DEF s
    <3> QED BY <3>3, <3>4 DEF TypeOK, Set
  <2>2. answer' \in [Attempts -> Codes \cup {NoAnswer}]
    <3>1. UNCHANGED answer \/ \E code \in Codes : answer' = Set(answer, c.by, code)
      BY <1>1 DEF Arrival, Codes
    <3> QED BY <3>1 DEF TypeOK, Set
  <2>3. net' \subseteq Calls /\ refused' \subseteq Attempts
    BY <1>1, <1>2 DEF Arrival, TypeOK
  <2>4. UNCHANGED <<holder, env, ask, pc, stage, headers, sent, reply, lateCalls>>
    BY <1>1 DEF Arrival
  <2> QED BY <2>1, <2>2, <2>3, <2>4 DEF TypeOK
<1>4. LeaseInv' /\ SentInv' /\ HeldInv'
  BY <1>1 DEF Arrival, LeaseInv, SentInv, HeldInv
<1>5. LeasesKeptApart'
  <2>1. pc[c.by] \notin {"unposted", "received"}
    <3>1. c.n \in DOMAIN sent[c.by]
      BY DEF SentInv
    <3>2. sent[c.by] # <<>>
      BY <3>1
    <3> QED BY <1>2, <3>2 DEF SentInv
  <2>2. holder[RunOf[c.by]] >= c.by /\ holder[RunOf[c.by]] \in Nat /\ c.by \in Nat
    BY <1>2, <2>1, Numbers, Holders DEF HeldInv
  <2>3. ~Current(c) => Superseded(c.by)
    BY <1>2, <2>2 DEF Current, Superseded
  <2> QED BY <1>1, <2>3 DEF Arrival, LeasesKeptApart, Superseded
<1> QED BY <1>3, <1>4, <1>5

LEMMA FenceExits ==
  ASSUME FenceInv, ProcessExits PROVE FenceInv'
<1> USE DEF FenceInv, host, observer
<1>1. TypeOK'
  BY DEF ProcessExits, TypeOK
<1>2. \A a \in Attempts : pc'[a] \in {pc[a], "dead"} /\ (pc'[a] = "dead" => pc[a] # "unposted")
  BY DEF ProcessExits, TypeOK, Alive
<1>3. LeaseInv' /\ SentInv'
  BY <1>2 DEF ProcessExits, LeaseInv, SentInv
<1>4. HeldInv' /\ LeasesKeptApart'
  BY <1>2 DEF ProcessExits, HeldInv, LeasesKeptApart, Superseded
<1> QED BY <1>1, <1>3, <1>4

LEMMA FenceStep ==
  ASSUME FenceInv, AnswerInv, [Next]_vars PROVE FenceInv'
<1>1. ASSUME NEW a \in Attempts, Work(a) PROVE FenceInv'
  BY <1>1, FenceRefuse, FenceAdmit, FenceSend, FenceHears DEF Work
<1>2. CASE ProcessExits
  BY <1>2, FenceExits
<1>3. CASE UNCHANGED vars
  BY <1>3 DEF vars, host, worker, observer, FenceInv, TypeOK, LeaseInv, SentInv, HeldInv,
     LeasesKeptApart, Superseded
<1> QED BY <1>1, <1>2, <1>3, FenceClaim, FenceNotPermitted, FenceArrive DEF Next

\* An arrival answers its own worker, if any, and 200 only to the run's holder.
LEMMA AnswersOne ==
  ASSUME TypeOK, NEW c \in net, Arrival(c), NEW b \in Attempts, answer'[b] # answer[b]
  PROVE  /\ b = c.by /\ pc[b] = "waiting" /\ c.n = Len(sent[b])
         /\ answer'[b] = 200 => Current(c)
<1>1. PICK code \in {200, 404, 409, 500} :
        /\ pc[c.by] = "waiting" /\ c.n = Len(sent[c.by])
        /\ answer' = Set(answer, c.by, code) /\ (code = 200 => Current(c))
  BY DEF Arrival
<1>2. \A a \in Attempts : answer'[a] = (IF a = c.by THEN code ELSE answer[a])
  BY <1>1 DEF Set, TypeOK
<1> QED BY <1>1, <1>2

\* The host answers as it does.
LEMMA AnswerStep ==
  ASSUME FenceInv, AnswerInv, [Next]_vars PROVE AnswerInv'
<1> USE DEF FenceInv, AnswerInv, host, worker, observer
<1>1. ASSUME NEW a \in Attempts, Work(a) PROVE AnswerInv'
  BY <1>1 DEF Work, Refuse, Admit, Send, Hear, TimesOut, Set, TypeOK
<1>2. ASSUME NEW c \in net, Arrive(c) PROVE AnswerInv'
  <2>1. c.by \in Attempts
    BY DEF TypeOK, Calls
  <2>2. Arrival(c)
    BY <1>2, Arrives
  <2>3. \/ answer' = answer
        \/ \E code \in {200, 404, 409, 500} : answer' = [answer EXCEPT ![c.by] = code]
    BY <2>2 DEF Arrival, Set
  <2>4. answer \in [Attempts -> Codes \cup {NoAnswer}]
    BY DEF TypeOK
  <2> QED BY <2>1, <2>3, <2>4
<1>3. CASE ProcessExits \/ UNCHANGED vars
  BY <1>3 DEF ProcessExits, vars
<1>4. ASSUME NEW a \in Attempts, NotPermitted(a) \/ \E q \in Requests : Claim(a, q) PROVE AnswerInv'
  BY <1>4 DEF NotPermitted, Claim
<1> QED BY <1>1, <1>2, <1>3, <1>4 DEF Next

-----------------------------------------------------------------------------
\* A worker that lost its run stops.

LEMMA LateStays ==
  ASSUME LateInv, UNCHANGED <<holder, stage, answer, lateCalls>>,
         \A a \in Attempts : pc'[a] \in {"ready", "waiting"} => pc'[a] = pc[a]
  PROVE  LateInv'
BY DEF LateInv, Superseded

LEMMA LateStep ==
  ASSUME FenceInv, AnswerInv, LateInv, [Next]_vars PROVE LateInv'
<1> USE DEF FenceInv
<1>1. ASSUME NEW a \in Attempts, NEW q \in Requests, Claim(a, q) PROVE LateInv'
  <2>1. \A r \in Runs : holder[r] \in Nat /\ holder'[r] \in Nat /\ holder'[r] >= holder[r]
    BY <1>1, ClaimGrows
  <2>2. \A b \in Attempts : Superseded(b) => Superseded(b)'
    BY <2>1, Numbers DEF Superseded
  <2> QED BY <1>1, <2>2 DEF Claim, LateInv, TypeOK, Set, observer
<1>2. ASSUME NEW a \in Attempts, Refuse(a) \/ NotPermitted(a) PROVE LateInv'
  <2>1. pc' = Set(pc, a, "done")
    BY <1>2 DEF Refuse, NotPermitted, Finish
  <2> QED BY <1>2, <2>1, LateStays DEF Refuse, NotPermitted, host, observer, TypeOK, Set
<1>3. ASSUME NEW a \in Attempts, Admit(a) PROVE LateInv'
  <2>1. lateCalls[a] = 0
    BY <1>3 DEF Admit, SentInv
  <2> QED BY <1>3, <2>1 DEF Admit, LateInv, Superseded, host, observer, TypeOK, Set
<1>4. ASSUME NEW a \in Attempts, NEW kind \in Kinds, Send(a, kind) PROVE LateInv'
  <2>1. /\ pc[a] = "ready" /\ pc'[a] = "waiting" /\ answer'[a] = NoAnswer
        /\ UNCHANGED <<holder, stage>>
        /\ lateCalls'[a] = IF Superseded(a) THEN lateCalls[a] + 1 ELSE lateCalls[a]
    BY <1>4 DEF Send, TypeOK, Set, host
  <2>2. \A b \in Attempts \ {a} : pc'[b] = pc[b] /\ answer'[b] = answer[b]
                                   /\ lateCalls'[b] = lateCalls[b]
    BY <1>4 DEF Send, TypeOK, Set
  <2>3. lateCalls[a] \in Nat /\ lateCalls[a] <= (IF stage[a] = "drain" THEN 1 ELSE 0)
    BY <2>1 DEF LateInv, TypeOK
  <2>4. \A b \in Attempts : Superseded(b)' = Superseded(b)
    BY <2>1 DEF Superseded
  <2> QED BY <2>1, <2>2, <2>3, <2>4 DEF LateInv, NoAnswer
<1>5. ASSUME NEW a \in Attempts, Hear(a) \/ TimesOut(a) PROVE LateInv'
  <2>1. PICK p \in {"ready", "done"}, s \in Stages, q \in Codes \cup {NoReply} :
          /\ Moves(a, p, s, q)
          /\ p = "ready" /\ answer[a] # 200 => stage[a] = "hook" /\ s = "drain"
    BY <1>5, Hears
  <2>2. /\ pc[a] = "waiting" /\ UNCHANGED <<holder, lateCalls>>
        /\ \A b \in Attempts \ {a} : answer'[b] = answer[b]
    BY <1>5 DEF Hear, TimesOut, Set, TypeOK, host, observer
  <2>3. /\ pc'[a] = p /\ stage'[a] = s
        /\ \A b \in Attempts \ {a} : pc'[b] = pc[b] /\ stage'[b] = stage[b]
    BY <2>1 DEF Moves, Set, TypeOK
  <2>4. /\ lateCalls[a] \in Nat /\ (lateCalls[a] > 0 => answer[a] # 200)
        /\ lateCalls[a] <= (IF stage[a] = "drain" THEN 2 ELSE 1)
    BY <2>2 DEF LateInv, TypeOK
  <2>5. \A b \in Attempts : Superseded(b)' = Superseded(b)
    BY <2>2 DEF Superseded
  <2> QED BY <2>1, <2>2, <2>3, <2>4, <2>5 DEF LateInv
<1>6. ASSUME NEW c \in net, Arrive(c) PROVE LateInv'
  <2>1. Arrival(c)
    BY <1>6, Arrives
  <2>2. c.by \in Attempts /\ c.lease = c.by /\ holder[RunOf[c.by]] \in Nat /\ c.by \in Nat
    BY Numbers, Holders DEF TypeOK, Calls, LeaseInv
  <2>3. Current(c) => ~Superseded(c.by)
    BY <2>2 DEF Current, Superseded
  <2>4. \A b \in Attempts : answer'[b] = 200 /\ answer'[b] # answer[b] => ~Superseded(b)
    BY <2>1, <2>3, AnswersOne
  <2>5. UNCHANGED <<holder, pc, stage, lateCalls>>
    BY <2>1 DEF Arrival
  <2>6. \A b \in Attempts : Superseded(b)' = Superseded(b)
    BY <2>5 DEF Superseded
  <2> QED BY <2>4, <2>5, <2>6 DEF LateInv
<1>7. CASE ProcessExits \/ UNCHANGED vars
  BY <1>7, LateStays DEF ProcessExits, vars, host, worker, observer, Alive
<1> QED BY <1>1, <1>2, <1>3, <1>4, <1>5, <1>6, <1>7 DEF Next, Work

-----------------------------------------------------------------------------
\* The order of callbacks and their effects.

\* A sequence and one more element.
LEMMA Appended ==
  ASSUME NEW S, NEW seq \in Seq(S), NEW e \in S
  PROVE  /\ DOMAIN seq = 1..Len(seq) /\ Len(seq) \in Nat
         /\ DOMAIN Append(seq, e) = 1..(Len(seq) + 1)
         /\ \A i \in DOMAIN seq : i \in DOMAIN Append(seq, e) /\ Append(seq, e)[i] = seq[i]
         /\ Append(seq, e)[Len(seq) + 1] = e
OBVIOUS

\* Two requests with one sender and one number are one request.
LEMMA OneRequest ==
  ASSUME FenceInv, NEW c \in net, NEW d \in net, c.by = d.by, c.n = d.n PROVE c = d
<1>1. c \in Calls /\ d \in Calls
  BY DEF FenceInv, TypeOK
<1>2. c.kind = d.kind /\ c.lease = d.lease
  BY DEF FenceInv, SentInv, LeaseInv
<1> QED BY <1>1, <1>2 DEF Calls

\* What an arrival does to the effects.
LEMMA Effects ==
  ASSUME FenceInv, NEW c \in net, Arrival(c)
  PROVE  /\ \A a \in Attempts : \A n : TookEffect(a, n) => TookEffect(a, n)'
         /\ UNCHANGED applied \/ TookEffect(c.by, c.n)'
         /\ \A r \in Runs : \A i \in DOMAIN applied'[r] :
              \/ i \in DOMAIN applied[r] /\ applied'[r][i] = applied[r][i]
              \/ /\ applied'[r][i] = [by |-> c.by, n |-> c.n] /\ c.kind \in Mutating
                 /\ i = Len(applied[r]) + 1
                 /\ \A j \in DOMAIN applied[r] : applied'[r][j] = applied[r][j]
<1> DEFINE e == [by |-> c.by, n |-> c.n]
           r == RunOf[c.by]
           S == [by : Attempts, n : Nat]
<1>1. r \in Runs /\ e \in S /\ c.by \in Attempts
  BY Numbers DEF FenceInv, TypeOK, Calls
<1>2. \A t \in Runs : applied[t] \in Seq(S)
  BY DEF FenceInv, TypeOK
<1>3. CASE UNCHANGED applied
  BY <1>3 DEF TookEffect
<1>4. CASE c.kind \in Mutating /\ applied' = Set(applied, r, Append(applied[r], e))
  <2>1. /\ applied'[r] = Append(applied[r], e)
        /\ \A t \in Runs \ {r} : applied'[t] = applied[t]
    BY <1>1, <1>4 DEF FenceInv, TypeOK, Set
  <2>2. /\ DOMAIN applied[r] = 1..Len(applied[r]) /\ Len(applied[r]) \in Nat
        /\ DOMAIN applied'[r] = 1..(Len(applied[r]) + 1)
        /\ \A i \in DOMAIN applied[r] : i \in DOMAIN applied'[r] /\ applied'[r][i] = applied[r][i]
        /\ applied'[r][Len(applied[r]) + 1] = e
    BY <1>1, <1>2, <2>1, Appended
  <2>3. \A t \in Runs : \A i \in DOMAIN applied[t] :
          i \in DOMAIN applied'[t] /\ applied'[t][i] = applied[t][i]
    BY <2>1, <2>2
  <2>4. \A a \in Attempts : \A n : TookEffect(a, n) => TookEffect(a, n)'
    <3> SUFFICES ASSUME NEW a \in Attempts, NEW n, TookEffect(a, n) PROVE TookEffect(a, n)'
      OBVIOUS
    <3>1. RunOf[a] \in Runs
      BY Numbers
    <3>2. PICK i \in DOMAIN applied[RunOf[a]] : [by |-> a, n |-> n] = applied[RunOf[a]][i]
      BY DEF TookEffect
    <3> QED BY <2>3, <3>1, <3>2 DEF TookEffect
  <2>5. TookEffect(c.by, c.n)'
    <3>1. Len(applied[r]) + 1 \in DOMAIN applied'[r]
      BY <2>2
    <3> QED BY <2>2, <3>1 DEF TookEffect
  <2>6. ASSUME NEW t \in Runs, NEW i \in DOMAIN applied'[t]
        PROVE  \/ i \in DOMAIN applied[t] /\ applied'[t][i] = applied[t][i]
               \/ /\ applied'[t][i] = e /\ c.kind \in Mutating
                  /\ i = Len(applied[t]) + 1
                  /\ \A j \in DOMAIN applied[t] : applied'[t][j] = applied[t][j]
    <3>1. CASE t # r
      BY <2>1, <2>6, <3>1
    <3>2. CASE t = r /\ i \in DOMAIN applied[r]
      BY <2>2, <3>2
    <3>3. CASE t = r /\ i = Len(applied[r]) + 1
      BY <1>4, <2>2, <3>3
    <3> QED BY <2>2, <2>6, <3>1, <3>2, <3>3
  <2> QED BY <2>4, <2>5, <2>6
<1> QED BY <1>3, <1>4 DEF Arrival

\* A request whose place in the host's records is new took effect.
LEMMA AppendTakesEffect ==
  ASSUME FenceInv, NEW c \in net,
         applied' = Set(applied, RunOf[c.by],
                        Append(applied[RunOf[c.by]], [by |-> c.by, n |-> c.n]))
  PROVE  TookEffect(c.by, c.n)'
<1> DEFINE e == [by |-> c.by, n |-> c.n]
           r == RunOf[c.by]
           S == [by : Attempts, n : Nat]
<1>1. r \in Runs /\ e \in S
  BY Numbers DEF FenceInv, TypeOK, Calls
<1>2. applied[r] \in Seq(S) /\ applied'[r] = Append(applied[r], e)
  BY <1>1 DEF FenceInv, TypeOK, Set
<1> HIDE DEF S, e
<1>3. /\ Len(applied[r]) + 1 \in DOMAIN applied'[r]
      /\ applied'[r][Len(applied[r]) + 1] = e
  <2>1. Len(applied[r]) \in Nat
    BY <1>2
  <2> QED BY <1>1, <1>2, <2>1, Appended
<1> QED BY <1>3 DEF TookEffect, e

\* What hearing an answer, or none, changes, attempt by attempt.
LEMMA HearsOf ==
  ASSUME FenceInv, AnswerInv, NEW a \in Attempts, Hear(a) \/ TimesOut(a)
  PROVE  /\ pc[a] = "waiting" /\ pc'[a] \in {"ready", "done"} /\ sent[a] # <<>>
         /\ UNCHANGED <<sent, applied, ask>> /\ net' \subseteq net
         /\ answer[a] = NoAnswer => \A c \in net' : c.by = a => c.kind \in Mutating
         /\ \A b \in Attempts \ {a} : /\ pc'[b] = pc[b] /\ stage'[b] = stage[b]
                                      /\ answer'[b] = answer[b] /\ reply'[b] = reply[b]
         /\ pc'[a] = "ready" =>
              /\ stage'[a] \in Writing => stage[a] \in Writing
              /\ answer[a] # 200 => stage[a] = "hook" /\ stage'[a] = "drain"
         /\ pc'[a] = "done" /\ ~ask[a].stream =>
              /\ reply'[a] \in {200, 404, 409, 502}
              /\ reply'[a] = 200 => answer[a] = 200 \/ stage[a] = "final"
              /\ reply'[a] # 502 => answer[a] # NoAnswer
<1>1. PICK p \in {"ready", "done"}, s \in Stages, q \in Codes \cup {NoReply} :
        /\ Moves(a, p, s, q)
        /\ p = "ready" => s # "open" /\ (s \in Writing => stage[a] \in Writing)
        /\ p = "ready" /\ answer[a] # 200 => stage[a] = "hook" /\ s = "drain"
        /\ p = "done" /\ ~ask[a].stream =>
             /\ q \in {200, 404, 409, 502}
             /\ q = 200 => answer[a] = 200 \/ stage[a] = "final"
             /\ q # 502 => answer[a] # NoAnswer
  BY Hears DEF FenceInv
<1>2. /\ pc'[a] = p /\ stage'[a] = s /\ reply'[a] = q
      /\ \A b \in Attempts \ {a} : pc'[b] = pc[b] /\ stage'[b] = stage[b] /\ reply'[b] = reply[b]
  BY <1>1 DEF Moves, Set, FenceInv, TypeOK
<1>3. /\ pc[a] = "waiting" /\ UNCHANGED <<sent, applied, ask>> /\ net' \subseteq net
      /\ answer[a] = NoAnswer => \A c \in net' : c.by = a => c.kind \in Mutating
      /\ \A b \in Attempts \ {a} : answer'[b] = answer[b]
  <2>1. CASE Hear(a)
    BY <2>1 DEF Hear, host, Set, FenceInv, TypeOK
  <2>2. CASE TimesOut(a)
    BY <2>2 DEF TimesOut, host, Set, FenceInv, TypeOK
  <2> QED BY <2>1, <2>2
<1>4. sent[a] # <<>>
  BY <1>3 DEF FenceInv, SentInv
<1> QED BY <1>1, <1>2, <1>3, <1>4

\* What a stage that makes no writes sends.
LEMMA StageKinds ==
  ASSUME NEW s
  PROVE  /\ s \notin Writing => KindsOf(s) = {"read"}
         /\ s \notin {"drive", "hook"} => KindsOf(s) = {"read"}
         /\ KindsOf("hook") = {"runEnd"}
         /\ "drain" \notin Writing /\ "drive" \in Writing /\ "hook" \in Writing
         /\ "final" \notin Writing
BY DEF KindsOf, Writing

\* The requests of an attempt that is between two of them.
LEMMA PendingStays ==
  ASSUME FenceInv, PendingInv, UNCHANGED <<stage, answer, sent>>, net' \subseteq net,
         \A a \in Attempts :
           \/ pc'[a] = pc[a]
           \/ pc'[a] \notin {"ready", "waiting"}
           \/ pc'[a] = "ready" /\ sent[a] = <<>>
  PROVE  PendingInv'
<1> SUFFICES ASSUME NEW a \in Attempts
             PROVE  /\ pc'[a] = "waiting" => sent[a][Len(sent[a])] \in KindsOf(stage[a])
                    /\ pc'[a] \in {"ready", "waiting"} => \A c \in net' : c.by = a =>
                         \/ c.kind = "runEnd" /\ stage[a] \notin Writing
                         \/ pc'[a] = "waiting" /\ c.n = Len(sent[a]) /\ answer[a] = NoAnswer
  BY DEF PendingInv, KindsOf
<1>1. CASE pc'[a] = pc[a]
  BY <1>1 DEF PendingInv
<1>2. CASE pc'[a] = "ready" /\ sent[a] = <<>>
  <2>1. \A c \in net : c.by # a
    BY <1>2 DEF FenceInv, SentInv
  <2> QED BY <1>2, <2>1
<1> QED BY <1>1, <1>2

LEMMA PendingStep ==
  ASSUME FenceInv, AnswerInv, PendingInv, [Next]_vars PROVE PendingInv'
<1>1. ASSUME NEW a \in Attempts, NEW q \in Requests, Claim(a, q) PROVE PendingInv'
  BY <1>1, PendingStays DEF Claim, Set, FenceInv, TypeOK, observer
<1>2. ASSUME NEW a \in Attempts, Refuse(a) \/ NotPermitted(a) PROVE PendingInv'
  <2>1. pc' = Set(pc, a, "done")
    BY <1>2 DEF Refuse, NotPermitted, Finish
  <2> QED BY <1>2, <2>1, PendingStays DEF Refuse, NotPermitted, Set, FenceInv, TypeOK
<1>3. ASSUME NEW a \in Attempts, Admit(a) PROVE PendingInv'
  <2>1. sent[a] = <<>>
    BY <1>3 DEF Admit, FenceInv, SentInv
  <2> QED BY <1>3, <2>1, PendingStays DEF Admit, Set, FenceInv, TypeOK
<1>4. ASSUME NEW a \in Attempts, NEW kind \in Kinds, Send(a, kind) PROVE PendingInv'
  <2> DEFINE c == [by |-> a, n |-> Len(sent[a]) + 1, kind |-> kind, lease |-> a]
  <2>1. /\ net' = net \cup {c} /\ Len(sent'[a]) = Len(sent[a]) + 1
        /\ sent'[a][Len(sent[a]) + 1] = kind
        /\ \A b \in Attempts \ {a} : sent'[b] = sent[b] /\ pc'[b] = pc[b]
        /\ pc'[a] = "waiting"
    BY <1>4, Sends
  <2>2. /\ pc[a] = "ready" /\ kind \in KindsOf(stage[a]) /\ UNCHANGED stage
        /\ answer'[a] = NoAnswer /\ \A b \in Attempts \ {a} : answer'[b] = answer[b]
    BY <1>4 DEF Send, Set, FenceInv, TypeOK
  <2> SUFFICES ASSUME NEW b \in Attempts
               PROVE  /\ pc'[b] = "waiting" => sent'[b][Len(sent'[b])] \in KindsOf(stage[b])
                      /\ pc'[b] \in {"ready", "waiting"} => \A d \in net' : d.by = b =>
                           \/ d.kind = "runEnd" /\ stage[b] \notin Writing
                           \/ pc'[b] = "waiting" /\ d.n = Len(sent'[b]) /\ answer'[b] = NoAnswer
    BY <2>2 DEF PendingInv, KindsOf
  <2>3. CASE b = a
    BY <2>1, <2>2, <2>3 DEF PendingInv
  <2>4. CASE b # a
    <3>1. sent'[b] = sent[b] /\ pc'[b] = pc[b] /\ answer'[b] = answer[b]
      BY <2>1, <2>2, <2>4
    <3>2. \A d \in net' : d.by = b => d \in net
      BY <2>1, <2>4
    <3> QED BY <3>1, <3>2 DEF PendingInv
  <2> QED BY <2>3, <2>4
<1>5. ASSUME NEW a \in Attempts, Hear(a) \/ TimesOut(a) PROVE PendingInv'
  <2> SUFFICES ASSUME NEW b \in Attempts
               PROVE  /\ pc'[b] = "waiting" => sent[b][Len(sent[b])] \in KindsOf(stage'[b])
                      /\ pc'[b] \in {"ready", "waiting"} => \A d \in net' : d.by = b =>
                           \/ d.kind = "runEnd" /\ stage'[b] \notin Writing
                           \/ pc'[b] = "waiting" /\ d.n = Len(sent[b]) /\ answer'[b] = NoAnswer
    <3>1. UNCHANGED sent
      BY <1>5, HearsOf
    <3> QED BY <3>1 DEF PendingInv, KindsOf
  <2>1. CASE b # a
    <3>1. /\ pc'[b] = pc[b] /\ stage'[b] = stage[b] /\ answer'[b] = answer[b]
          /\ net' \subseteq net
      BY <1>5, <2>1, HearsOf
    <3> QED BY <3>1 DEF PendingInv
  <2>2. CASE b = a /\ pc'[a] = "ready"
    <3> SUFFICES ASSUME NEW d \in net', d.by = a
                 PROVE  d.kind = "runEnd" /\ stage'[a] \notin Writing
      BY <2>2
    <3>1. /\ pc[a] = "waiting" /\ d \in net
          /\ stage'[a] \in Writing => stage[a] \in Writing
          /\ answer[a] # 200 => stage[a] = "hook" /\ stage'[a] = "drain"
          /\ answer[a] = NoAnswer => d.kind \in Mutating
      BY <1>5, <2>2, HearsOf
    <3>2. CASE d.kind = "runEnd" /\ stage[a] \notin Writing
      BY <3>1, <3>2
    <3>3. CASE d.n = Len(sent[a]) /\ answer[a] = NoAnswer
      <4>1. stage[a] = "hook" /\ stage'[a] = "drain"
        BY <3>1, <3>3 DEF NoAnswer
      <4>2. d.kind = sent[a][Len(sent[a])]
        BY <3>1, <3>3 DEF FenceInv, SentInv
      <4>3. sent[a][Len(sent[a])] \in KindsOf("hook")
        BY <3>1, <4>1 DEF PendingInv
      <4> QED BY <4>1, <4>2, <4>3, StageKinds
    <3> QED BY <3>1, <3>2, <3>3 DEF PendingInv
  <2>3. pc'[a] \in {"ready", "done"}
    BY <1>5, HearsOf
  <2> QED BY <2>1, <2>2, <2>3
<1>6. ASSUME NEW c \in net, Arrive(c) PROVE PendingInv'
  <2>1. Arrival(c) /\ c.by \in Attempts
    BY <1>6, Arrives DEF FenceInv, TypeOK, Calls
  <2>2. UNCHANGED <<pc, stage, sent>> /\ net' = net \ {c}
    BY <2>1 DEF Arrival
  <2>3. \A b \in Attempts : answer'[b] = answer[b] \/ (b = c.by /\ c.n = Len(sent[b]))
    BY <2>1, AnswersOne DEF FenceInv
  <2> SUFFICES ASSUME NEW b \in Attempts, pc[b] \in {"ready", "waiting"},
                      NEW d \in net', d.by = b
               PROVE  \/ d.kind = "runEnd" /\ stage[b] \notin Writing
                      \/ pc[b] = "waiting" /\ d.n = Len(sent[b]) /\ answer'[b] = NoAnswer
    BY <2>2 DEF PendingInv, KindsOf
  <2>4. d \in net /\ d # c
    BY <2>2
  <2>5. CASE answer'[b] = answer[b]
    BY <2>4, <2>5 DEF PendingInv
  <2>6. CASE b = c.by /\ c.n = Len(sent[b])
    <3>1. d.n # Len(sent[b])
      BY <2>4, <2>6, OneRequest
    <3> QED BY <2>4, <3>1 DEF PendingInv
  <2> QED BY <2>3, <2>5, <2>6
<1>7. CASE ProcessExits \/ UNCHANGED vars
  BY <1>7, PendingStays DEF ProcessExits, vars, worker, Alive
<1> QED BY <1>1, <1>2, <1>3, <1>4, <1>5, <1>6, <1>7 DEF Next, Work

\* What took effect, and its place.
LEMMA EntryOf ==
  ASSUME FenceInv, OrderInv, NEW r \in Runs, NEW i \in DOMAIN applied[r]
  PROVE  /\ applied[r][i].by \in Attempts /\ applied[r][i].n \in Nat
         /\ applied[r][i].n \in DOMAIN sent[applied[r][i].by]
         /\ sent[applied[r][i].by][applied[r][i].n] \in Mutating
         /\ \A c \in net : c.by = applied[r][i].by => c.n # applied[r][i].n
         /\ i \in Nat /\ i <= Len(applied[r]) /\ Len(applied[r]) \in Nat
<1> DEFINE S == [by : Attempts, n : Nat]
<1>1. applied[r] \in Seq(S)
  BY DEF FenceInv, TypeOK
<1> HIDE DEF S
<1>2. Len(applied[r]) \in Nat /\ DOMAIN applied[r] = 1..Len(applied[r])
  BY <1>1
<1>3. applied[r][i] \in S
  BY <1>1
<1>4. i \in Nat /\ i <= Len(applied[r])
  BY <1>2
<1> QED BY <1>2, <1>3, <1>4 DEF OrderInv, S

LEMMA OrderStays ==
  ASSUME OrderInv, InSendingOrder, UNCHANGED <<sent, applied>>, net' \subseteq net
  PROVE  OrderInv' /\ InSendingOrder'
BY DEF OrderInv, InSendingOrder

LEMMA OrderStep ==
  ASSUME FenceInv, AnswerInv, PendingInv, OrderInv, InSendingOrder, [Next]_vars
  PROVE  OrderInv' /\ InSendingOrder'
<1>1. ASSUME NEW a \in Attempts,
             \/ \E q \in Requests : Claim(a, q)
             \/ Refuse(a) \/ NotPermitted(a) \/ Admit(a)
      PROVE  OrderInv' /\ InSendingOrder'
  BY <1>1, OrderStays DEF Claim, Refuse, NotPermitted, Admit, host
<1>2. ASSUME NEW a \in Attempts, Hear(a) \/ TimesOut(a) PROVE OrderInv' /\ InSendingOrder'
  BY <1>2, HearsOf, OrderStays
<1>3. ASSUME NEW a \in Attempts, NEW kind \in Kinds, Send(a, kind)
      PROVE  OrderInv' /\ InSendingOrder'
  <2> DEFINE c == [by |-> a, n |-> Len(sent[a]) + 1, kind |-> kind, lease |-> a]
  <2>1. /\ net' = net \cup {c} /\ UNCHANGED applied
        /\ DOMAIN sent'[a] = 1..(Len(sent[a]) + 1) /\ Len(sent[a]) \in Nat
        /\ DOMAIN sent[a] = 1..Len(sent[a])
        /\ \A n \in DOMAIN sent[a] : n \in Nat /\ n <= Len(sent[a]) /\ sent'[a][n] = sent[a][n]
        /\ sent'[a][Len(sent[a]) + 1] = kind
        /\ \A b \in Attempts \ {a} : sent'[b] = sent[b]
    <3>1. sent[a] \in Seq(Kinds)
      BY DEF FenceInv, TypeOK
    <3>2. DOMAIN sent[a] = 1..Len(sent[a]) /\ Len(sent[a]) \in Nat
      BY <3>1
    <3> QED BY <1>3, <3>2, Sends DEF Send, host
  <2>2. /\ pc[a] = "ready" /\ kind \in KindsOf(stage[a])
        /\ \A d \in net : d.by \in Attempts
    BY <1>3 DEF Send, FenceInv, TypeOK, Calls
  <2>3. ASSUME NEW d \in net', d.kind \in Mutating, NEW n \in DOMAIN sent'[d.by], n > d.n
        PROVE  sent'[d.by][n] = "read"
    <3>1. CASE d = c
      BY <2>1, <2>3, <3>1
    <3>2. CASE d \in net /\ d.by # a
      <4>1. sent'[d.by] = sent[d.by]
        BY <2>1, <2>2, <3>2
      <4> QED BY <2>3, <3>2, <4>1 DEF OrderInv
    <3>3. CASE d \in net /\ d.by = a
      <4>1. d.kind = "runEnd" /\ stage[a] \notin Writing
        BY <2>2, <3>3 DEF PendingInv
      <4>2. kind = "read"
        BY <2>2, <4>1, StageKinds
      <4>3. CASE n = Len(sent[a]) + 1
        BY <2>1, <3>3, <4>2, <4>3
      <4>4. CASE n # Len(sent[a]) + 1
        <5>1. n \in DOMAIN sent[a]
          BY <2>1, <2>3, <3>3, <4>4
        <5> QED BY <2>1, <2>3, <3>3, <5>1 DEF OrderInv
      <4> QED BY <4>3, <4>4
    <3> QED BY <2>1, <2>3, <3>1, <3>2, <3>3
  <2>4. ASSUME NEW r \in Runs, NEW i \in DOMAIN applied'[r]
        PROVE  LET e == applied'[r][i] IN
                 /\ e.n \in DOMAIN sent'[e.by] /\ sent'[e.by][e.n] \in Mutating
                 /\ \A d \in net' : d.by = e.by => d.n # e.n
    <3> DEFINE e == applied[r][i]
    <3>1. /\ e.by \in Attempts /\ e.n \in DOMAIN sent[e.by] /\ sent[e.by][e.n] \in Mutating
          /\ \A d \in net : d.by = e.by => d.n # e.n
      BY <2>1, <2>4, EntryOf
    <3> HIDE DEF e
    <3>2. CASE e.by = a
      <4>1. /\ e.n \in DOMAIN sent'[a] /\ sent'[a][e.n] = sent[a][e.n]
            /\ e.n # Len(sent[a]) + 1
        BY <2>1, <3>1, <3>2
      <4>2. \A d \in net' : d.by = e.by => d.n # e.n
        BY <2>1, <3>1, <4>1
      <4> QED BY <2>1, <3>1, <3>2, <4>1, <4>2 DEF e
    <3>3. CASE e.by # a
      <4>1. sent'[e.by] = sent[e.by]
        BY <2>1, <3>1, <3>3
      <4>2. \A d \in net' : d.by = e.by => d.n # e.n
        BY <2>1, <3>1, <3>3
      <4> QED BY <2>1, <3>1, <4>1, <4>2 DEF e
    <3> QED BY <3>2, <3>3
  <2>5. OrderInv'
    BY <2>3, <2>4 DEF OrderInv, Mutating, Kinds
  <2>6. InSendingOrder'
    BY <2>1 DEF InSendingOrder
  <2> QED BY <2>5, <2>6
<1>4. ASSUME NEW c \in net, Arrive(c) PROVE OrderInv' /\ InSendingOrder'
  <2>1. Arrival(c)
    BY <1>4, Arrives
  <2>2. UNCHANGED sent /\ net' = net \ {c} /\ c.by \in Attempts /\ c.n \in Nat
    BY <2>1 DEF Arrival, FenceInv, TypeOK, Calls
  <2>3. \A r \in Runs : \A i \in DOMAIN applied'[r] :
          \/ i \in DOMAIN applied[r] /\ applied'[r][i] = applied[r][i]
          \/ /\ applied'[r][i] = [by |-> c.by, n |-> c.n] /\ c.kind \in Mutating
             /\ i = Len(applied[r]) + 1
             /\ \A j \in DOMAIN applied[r] : applied'[r][j] = applied[r][j]
    BY <2>1, Effects
  <2>4. c.n \in DOMAIN sent[c.by] /\ c.kind = sent[c.by][c.n]
    BY DEF FenceInv, SentInv
  <2>5. ASSUME NEW r \in Runs, NEW i \in DOMAIN applied'[r]
        PROVE  LET e == applied'[r][i] IN
                 /\ e.n \in DOMAIN sent[e.by] /\ sent[e.by][e.n] \in Mutating
                 /\ \A d \in net' : d.by = e.by => d.n # e.n
    <3>1. CASE i \in DOMAIN applied[r] /\ applied'[r][i] = applied[r][i]
      BY <2>2, <3>1 DEF OrderInv
    <3>2. CASE applied'[r][i] = [by |-> c.by, n |-> c.n] /\ c.kind \in Mutating
      <4>1. \A d \in net' : d.by = c.by => d.n # c.n
        BY <2>2, OneRequest
      <4> QED BY <2>4, <3>2, <4>1
    <3> QED BY <2>3, <3>1, <3>2
  <2>6. OrderInv'
    <3>1. \A d \in net' : d.kind \in Mutating =>
            \A n \in DOMAIN sent[d.by] : n > d.n => sent[d.by][n] = "read"
      BY <2>2 DEF OrderInv
    <3> QED BY <2>2, <2>5, <3>1 DEF OrderInv, Mutating, Kinds
  <2>7. InSendingOrder'
    <3> SUFFICES ASSUME NEW r \in Runs, NEW i \in DOMAIN applied'[r], NEW j \in DOMAIN applied'[r],
                        i < j, applied'[r][i].by = applied'[r][j].by
                 PROVE  applied'[r][i].n < applied'[r][j].n
      BY DEF InSendingOrder
    <3>1. CASE j \in DOMAIN applied[r] /\ applied'[r][j] = applied[r][j]
      <4>1. j \in Nat /\ j <= Len(applied[r]) /\ Len(applied[r]) \in Nat
        BY <3>1, EntryOf
      <4>2. i # Len(applied[r]) + 1
        BY <4>1
      <4>3. i \in DOMAIN applied[r] /\ applied'[r][i] = applied[r][i]
        BY <2>3, <4>2
      <4> QED BY <3>1, <4>3 DEF InSendingOrder
    <3>2. CASE /\ applied'[r][j] = [by |-> c.by, n |-> c.n] /\ c.kind \in Mutating
               /\ j = Len(applied[r]) + 1
               /\ \A k \in DOMAIN applied[r] : applied'[r][k] = applied[r][k]
      <4>1. applied[r] \in Seq([by : Attempts, n : Nat])
        BY DEF FenceInv, TypeOK
      <4>2. i # Len(applied[r]) + 1
        <5>1. Len(applied[r]) + 1 \in Nat
          BY <4>1
        <5> QED BY <3>2, <5>1
      <4>3. i \in DOMAIN applied[r] /\ applied'[r][i] = applied[r][i]
        BY <2>3, <4>2
      <4> DEFINE e == applied[r][i]
      <4>4. /\ e.n \in DOMAIN sent[c.by] /\ sent[c.by][e.n] \in Mutating /\ e.n # c.n
            /\ e.n \in Nat
        BY <3>2, <4>3, EntryOf
      <4>5. ~(e.n > c.n)
        BY <3>2, <4>4 DEF OrderInv, Mutating
      <4> QED BY <2>2, <3>2, <4>3, <4>4, <4>5
    <3> QED BY <2>3, <3>1, <3>2
  <2> QED BY <2>6, <2>7
<1>5. CASE ProcessExits \/ UNCHANGED vars
  BY <1>5, OrderStays DEF ProcessExits, vars, host, worker
<1> QED BY <1>1, <1>2, <1>3, <1>4, <1>5 DEF Next, Work

\* An attempt whose drive goes on and whose requests stay as they are.
LEMMA EffectStays ==
  ASSUME EffectInv, UNCHANGED <<sent, applied, stage, answer>>,
         \A a \in Attempts :
           \/ pc'[a] = pc[a]
           \/ pc'[a] \notin {"ready", "waiting"}
           \/ sent[a] = <<>>
  PROVE  EffectInv'
<1> SUFFICES ASSUME NEW a \in Attempts, pc'[a] \in {"ready", "waiting"}, NEW n \in DOMAIN sent'[a],
                    Answered(a, n)'
             PROVE  TookEffect(a, n)'
  BY DEF EffectInv
<1>1. pc'[a] = pc[a]
  OBVIOUS
<1>2. Answered(a, n)
  BY <1>1 DEF Answered, Mutating, Kinds, Writing
<1> QED BY <1>1, <1>2 DEF EffectInv, TookEffect

LEMMA EffectStep ==
  ASSUME FenceInv, AnswerInv, PendingInv, EffectInv, [Next]_vars PROVE EffectInv'
<1>1. ASSUME NEW a \in Attempts, NEW q \in Requests, Claim(a, q) PROVE EffectInv'
  BY <1>1, EffectStays DEF Claim, Set, FenceInv, TypeOK
<1>2. ASSUME NEW a \in Attempts, Refuse(a) \/ NotPermitted(a) PROVE EffectInv'
  <2>1. pc' = Set(pc, a, "done")
    BY <1>2 DEF Refuse, NotPermitted, Finish
  <2> QED BY <1>2, <2>1, EffectStays DEF Refuse, NotPermitted, host, Set, FenceInv, TypeOK
<1>3. ASSUME NEW a \in Attempts, Admit(a) PROVE EffectInv'
  <2>1. sent[a] = <<>>
    BY <1>3 DEF Admit, FenceInv, SentInv
  <2> QED BY <1>3, <2>1, EffectStays DEF Admit, host, Set, FenceInv, TypeOK
<1>4. ASSUME NEW a \in Attempts, NEW kind \in Kinds, Send(a, kind) PROVE EffectInv'
  <2>1. /\ DOMAIN sent'[a] = 1..(Len(sent[a]) + 1) /\ Len(sent'[a]) = Len(sent[a]) + 1
        /\ \A n \in DOMAIN sent[a] : n \in Nat /\ n <= Len(sent[a]) /\ sent'[a][n] = sent[a][n]
        /\ \A b \in Attempts \ {a} : sent'[b] = sent[b] /\ pc'[b] = pc[b]
        /\ pc'[a] = "waiting"
    BY <1>4, Sends
  <2>2. /\ pc[a] = "ready" /\ UNCHANGED <<stage, applied>> /\ answer'[a] = NoAnswer
        /\ \A b \in Attempts \ {a} : answer'[b] = answer[b]
    BY <1>4 DEF Send, host, Set, FenceInv, TypeOK
  <2>3. DOMAIN sent[a] = 1..Len(sent[a]) /\ Len(sent[a]) \in Nat
    <3>1. sent[a] \in Seq(Kinds)
      BY DEF FenceInv, TypeOK
    <3> QED BY <3>1
  <2> SUFFICES ASSUME NEW b \in Attempts, pc'[b] \in {"ready", "waiting"},
                      NEW n \in DOMAIN sent'[b], Answered(b, n)'
               PROVE  TookEffect(b, n)
    BY <2>2 DEF EffectInv, TookEffect
  <2>4. CASE b = a
    <3>1. n # Len(sent[a]) + 1
      BY <2>1, <2>2, <2>4 DEF Answered, NoAnswer
    <3>2. n \in DOMAIN sent[a]
      BY <2>1, <2>3, <2>4, <3>1
    <3>3. Answered(a, n)
      BY <2>1, <2>2, <2>4, <3>2 DEF Answered, Mutating, Kinds, Writing
    <3> QED BY <2>2, <2>4, <3>2, <3>3 DEF EffectInv
  <2>5. CASE b # a
    <3>1. Answered(b, n) /\ sent'[b] = sent[b] /\ pc'[b] = pc[b]
      BY <2>1, <2>2, <2>5 DEF Answered, Mutating, Kinds, Writing
    <3> QED BY <3>1 DEF EffectInv
  <2> QED BY <2>4, <2>5
<1>5. ASSUME NEW a \in Attempts, Hear(a) \/ TimesOut(a) PROVE EffectInv'
  <2>1. /\ pc[a] = "waiting" /\ pc'[a] \in {"ready", "done"} /\ UNCHANGED <<sent, applied>>
        /\ \A b \in Attempts \ {a} : /\ pc'[b] = pc[b] /\ stage'[b] = stage[b]
                                    /\ answer'[b] = answer[b]
        /\ pc'[a] = "ready" =>
             /\ stage'[a] \in Writing => stage[a] \in Writing
             /\ answer[a] # 200 => stage[a] = "hook" /\ stage'[a] = "drain"
    BY <1>5, HearsOf
  <2> SUFFICES ASSUME NEW b \in Attempts, pc'[b] \in {"ready", "waiting"},
                      NEW n \in DOMAIN sent[b], Answered(b, n)'
               PROVE  TookEffect(b, n)
    BY <2>1 DEF EffectInv, TookEffect
  <2>2. CASE b # a
    <3>1. Answered(b, n) /\ pc'[b] = pc[b]
      BY <2>1, <2>2 DEF Answered, Mutating, Kinds, Writing
    <3> QED BY <3>1 DEF EffectInv
  <2>3. CASE b = a
    <3>1. pc'[a] = "ready"
      BY <2>1, <2>3
    <3>2. /\ sent[a][n] \in Mutating /\ (sent[a][n] = "runEnd" => stage[a] \in Writing)
          /\ (sent[a][n] = "runEnd" => stage'[a] \in Writing)
      BY <2>1, <2>3, <3>1 DEF Answered, Mutating, Kinds, Writing
    <3>3. n = Len(sent[a]) => answer[a] = 200
      <4> SUFFICES ASSUME n = Len(sent[a]), answer[a] # 200 PROVE FALSE
        OBVIOUS
      <4>1. stage[a] = "hook" /\ stage'[a] = "drain"
        BY <2>1, <3>1
      <4>2. sent[a][n] = "runEnd"
        BY <2>1, <4>1, StageKinds DEF PendingInv
      <4> QED BY <3>2, <4>1, <4>2, StageKinds
    <3>4. Answered(a, n)
      BY <3>2, <3>3 DEF Answered
    <3> QED BY <2>1, <2>3, <3>4 DEF EffectInv
  <2> QED BY <2>2, <2>3
<1>6. ASSUME NEW c \in net, Arrive(c) PROVE EffectInv'
  <2>1. Arrival(c) /\ c.by \in Attempts
    BY <1>6, Arrives DEF FenceInv, TypeOK, Calls
  <2>2. UNCHANGED <<pc, stage, sent>>
    BY <2>1 DEF Arrival
  <2>3. \A a \in Attempts : \A n : TookEffect(a, n) => TookEffect(a, n)'
    BY <2>1, Effects
  <2> SUFFICES ASSUME NEW b \in Attempts, pc[b] \in {"ready", "waiting"},
                      NEW n \in DOMAIN sent[b], Answered(b, n)'
               PROVE  TookEffect(b, n)'
    BY <2>2 DEF EffectInv
  <2>4. CASE answer'[b] = answer[b] \/ n # Len(sent[b])
    <3>1. Answered(b, n)
      BY <2>2, <2>4 DEF Answered, Mutating, Kinds, Writing
    <3> QED BY <2>3, <3>1 DEF EffectInv
  <2>5. CASE pc[b] = "ready"
    <3>1. Answered(b, n)
      BY <2>2, <2>5 DEF Answered, Mutating, Kinds, Writing
    <3> QED BY <2>3, <3>1 DEF EffectInv
  <2>6. CASE answer'[b] # answer[b] /\ n = Len(sent[b]) /\ pc[b] = "waiting"
    <3>1. answer'[b] = 200 /\ sent[b][n] \in Mutating
      BY <2>2, <2>6 DEF Answered, Mutating, Kinds
    <3>2. b = c.by /\ c.n = Len(sent[b])
      BY <2>1, <2>6, AnswersOne DEF FenceInv
    <3>3. c.kind \in Mutating
      BY <2>6, <3>1, <3>2 DEF FenceInv, SentInv
    <3>4. TookEffect(c.by, c.n)'
      <4>1. ~UNCHANGED answer
        BY <2>6
      <4>2. PICK code \in {200, 404, 409, 500} :
              /\ answer' = Set(answer, c.by, code)
              /\ code = 200 => Current(c) /\
                   (c.kind \in Mutating => applied' =
                      Set(applied, RunOf[c.by], Append(applied[RunOf[c.by]], [by |-> c.by, n |-> c.n])))
        BY <2>1, <4>1 DEF Arrival
      <4>3. code = 200
        BY <2>1, <3>1, <3>2, <4>2 DEF Set, FenceInv, TypeOK
      <4>4. applied' = Set(applied, RunOf[c.by], Append(applied[RunOf[c.by]], [by |-> c.by, n |-> c.n]))
        BY <3>3, <4>2, <4>3
      <4> QED BY <2>1, <4>4, AppendTakesEffect
    <3> QED BY <2>6, <3>2, <3>4
  <2> QED BY <2>4, <2>5, <2>6
<1>7. CASE ProcessExits \/ UNCHANGED vars
  BY <1>7, EffectStays DEF ProcessExits, vars, host, worker, Alive
<1> QED BY <1>1, <1>2, <1>3, <1>4, <1>5, <1>6, <1>7 DEF Next, Work

\* What took effect stays so.
LEMMA EffectsLast ==
  ASSUME FenceInv, AnswerInv, [Next]_vars
  PROVE  \A a \in Attempts : \A n : TookEffect(a, n) => TookEffect(a, n)'
<1>1. CASE \E c \in net : Arrive(c)
  BY <1>1, Arrives, Effects
<1>2. CASE ~\E c \in net : Arrive(c)
  <2>1. UNCHANGED applied
    BY <1>2 DEF Next, Work, Claim, Refuse, Admit, Send, Hear, TimesOut, NotPermitted,
       ProcessExits, vars, host
  <2> QED BY <2>1 DEF TookEffect
<1> QED BY <1>1, <1>2

LEMMA GapStep ==
  ASSUME FenceInv, AnswerInv, EffectInv, NothingAfterAGap, [Next]_vars
  PROVE  NothingAfterAGap'
<1>1. CASE UNCHANGED sent
  BY <1>1, EffectsLast DEF NothingAfterAGap, Mutating, Kinds
<1>2. ASSUME NEW a \in Attempts, NEW kind \in Kinds, Send(a, kind) PROVE NothingAfterAGap'
  <2>1. /\ DOMAIN sent'[a] = 1..(Len(sent[a]) + 1)
        /\ \A n \in DOMAIN sent[a] : n \in Nat /\ n <= Len(sent[a]) /\ sent'[a][n] = sent[a][n]
        /\ sent'[a][Len(sent[a]) + 1] = kind
        /\ \A b \in Attempts \ {a} : sent'[b] = sent[b]
    BY <1>2, Sends
  <2>2. pc[a] = "ready" /\ kind \in KindsOf(stage[a])
    BY <1>2 DEF Send
  <2>3. DOMAIN sent[a] = 1..Len(sent[a]) /\ Len(sent[a]) \in Nat
    <3>1. sent[a] \in Seq(Kinds)
      BY DEF FenceInv, TypeOK
    <3> QED BY <3>1
  <2> SUFFICES ASSUME NEW b \in Attempts, NEW m \in DOMAIN sent'[b], NEW n \in DOMAIN sent'[b],
                      m < n, sent'[b][m] \in Mutating, sent'[b][n] \in Mutating
               PROVE  TookEffect(b, m)
    BY EffectsLast DEF NothingAfterAGap, Mutating, Kinds
  <2>4. CASE b # a
    BY <2>1, <2>4 DEF NothingAfterAGap
  <2>5. CASE b = a /\ n # Len(sent[a]) + 1
    <3>1. m \in DOMAIN sent[a] /\ n \in DOMAIN sent[a]
      BY <2>1, <2>3, <2>5
    <3> QED BY <2>1, <2>5, <3>1 DEF NothingAfterAGap
  <2>6. CASE b = a /\ n = Len(sent[a]) + 1
    <3>1. m \in DOMAIN sent[a] /\ sent[a][m] \in Mutating
      BY <2>1, <2>3, <2>6
    <3>2. stage[a] \in Writing
      BY <2>1, <2>2, <2>6, StageKinds DEF Mutating, Kinds
    <3>3. Answered(a, m)
      BY <2>2, <3>1, <3>2 DEF Answered
    <3> QED BY <2>2, <2>6, <3>1, <3>3 DEF EffectInv
  <2> QED BY <2>4, <2>5, <2>6
<1>3. ASSUME NEW a \in Attempts, Hear(a) \/ TimesOut(a) PROVE UNCHANGED sent
  BY <1>3, HearsOf
<1>4. ASSUME NEW c \in net, Arrive(c) PROVE UNCHANGED sent
  BY <1>4, Arrives DEF Arrival
<1>5. CASE \/ ProcessExits \/ UNCHANGED vars
           \/ \E a \in Attempts : \/ Refuse(a) \/ Admit(a) \/ NotPermitted(a)
                                  \/ \E q \in Requests : Claim(a, q)
  BY <1>1, <1>5 DEF ProcessExits, vars, worker, Refuse, Admit, NotPermitted, Claim
<1> QED BY <1>1, <1>2, <1>3, <1>4, <1>5 DEF Next, Work

\* What the answer of execute says of one attempt.
Truth(a) ==
  /\ (sent[a] = <<>>) <=> (reply[a] \in {401, 422, 503})
  /\ reply[a] = 200 =>
       \A n \in DOMAIN sent[a] : sent[a][n] \in {"write", "invoke"} => TookEffect(a, n)
  /\ reply[a] # 502 => \A c \in net : c.by = a => c.kind = "runEnd"

LEMMA TruthOf ==
  AnswerTellsTruth <=> \A a \in Attempts : pc[a] = "done" /\ ~ask[a].stream => Truth(a)
BY DEF AnswerTellsTruth, Truth

LEMMA TruthOfNext ==
  AnswerTellsTruth' <=> \A a \in Attempts : pc'[a] = "done" /\ ~ask'[a].stream => Truth(a)'
BY DEF AnswerTellsTruth, Truth

\* An answer that was given stays true.
LEMMA TruthStays ==
  ASSUME FenceInv, AnswerInv, [Next]_vars, NEW a \in Attempts, Truth(a),
         sent'[a] = sent[a], reply'[a] = reply[a],
         \A c \in net' : c.by = a => c \in net
  PROVE  Truth(a)'
<1>1. \A n : TookEffect(a, n) => TookEffect(a, n)'
  BY EffectsLast
<1> QED BY <1>1 DEF Truth

LEMMA TruthStep ==
  ASSUME FenceInv, AnswerInv, PendingInv, EffectInv, AnswerTellsTruth, [Next]_vars
  PROVE  AnswerTellsTruth'
<1> SUFFICES ASSUME NEW b \in Attempts, pc'[b] = "done", ~ask'[b].stream PROVE Truth(b)'
  BY TruthOfNext
\* An attempt that was answered before, and that this step is not about.
<1>1. ASSUME pc[b] = "done", ask'[b] = ask[b], sent'[b] = sent[b], reply'[b] = reply[b],
             \A c \in net' : c.by = b => c \in net
      PROVE  Truth(b)'
  BY <1>1, TruthOf, TruthStays
<1>2. ASSUME NEW a \in Attempts, NEW q \in Requests, Claim(a, q) PROVE Truth(b)'
  <2>1. b # a
    BY <1>2 DEF Claim, Set, FenceInv, TypeOK
  <2> QED BY <1>1, <1>2, <2>1 DEF Claim, Set, FenceInv, TypeOK
<1>3. ASSUME NEW a \in Attempts, Refuse(a) PROVE Truth(b)'
  <2>1. Refusal(ask[a]) \in {401, 422, 503} /\ sent[a] = <<>> /\ UNCHANGED <<stage, sent, ask, net>>
    BY <1>3 DEF Refuse, Refusal, Unauthorized, NoLease, Unconfigured, NoReply, FenceInv, SentInv
  <2>2. PICK q \in Codes \cup {NoReply} :
          Moves(a, "done", stage[a], q) /\ (~ask[a].stream => q = Refusal(ask[a]))
    BY <1>3, <2>1, FinishMoves DEF Refuse, FenceInv, Codes
  <2>3. CASE b = a
    <3>1. reply'[a] = Refusal(ask[a])
      BY <2>1, <2>2, <2>3 DEF Moves, Set, FenceInv, TypeOK
    <3>2. \A c \in net : c.by # a
      BY <2>1 DEF FenceInv, SentInv
    <3> QED BY <2>1, <2>3, <3>1, <3>2 DEF Truth
  <2>4. CASE b # a
    BY <1>1, <2>1, <2>2, <2>4 DEF Moves, Set, FenceInv, TypeOK
  <2> QED BY <2>3, <2>4
<1>4. ASSUME NEW a \in Attempts, Admit(a) PROVE Truth(b)'
  <2>1. b # a
    BY <1>4 DEF Admit, Set, FenceInv, TypeOK
  <2> QED BY <1>1, <1>4, <2>1 DEF Admit, Set, FenceInv, TypeOK
<1>5. ASSUME NEW a \in Attempts, NEW kind \in Kinds, Send(a, kind) PROVE Truth(b)'
  <2>1. b # a
    BY <1>5, Sends
  <2>2. pc'[b] = pc[b] /\ sent'[b] = sent[b] /\ UNCHANGED <<ask, reply>>
    BY <1>5, <2>1, Sends DEF Send
  <2>3. \E k : net' = net \cup {k} /\ k.by = a
    <3> DEFINE k == [by |-> a, n |-> Len(sent[a]) + 1, kind |-> kind, lease |-> a]
    <3>1. net' = net \cup {k} /\ k.by = a
      BY <1>5, Sends
    <3> QED BY <3>1
  <2>4. \A c \in net' : c.by = b => c \in net
    BY <2>1, <2>3
  <2> QED BY <1>1, <2>2, <2>4
<1>6. ASSUME NEW a \in Attempts, NotPermitted(a) PROVE Truth(b)'
  <2>1. UNCHANGED <<stage, sent, ask, net>> /\ pc[a] = "ready" /\ stage[a] = "drive"
    BY <1>6 DEF NotPermitted
  <2>2. PICK q \in Codes \cup {NoReply} :
          Moves(a, "done", stage[a], q) /\ (~ask[a].stream => q = 409)
    BY <1>6, <2>1, FinishMoves DEF NotPermitted, FenceInv, Codes
  <2>3. CASE b = a
    <3>1. reply'[a] = 409
      BY <2>1, <2>2, <2>3 DEF Moves, Set, FenceInv, TypeOK
    <3>2. \A c \in net : c.by # a
      BY <2>1, StageKinds DEF PendingInv
    <3>3. sent[a] # <<>>
      BY <2>1 DEF FenceInv, SentInv
    <3> QED BY <2>1, <2>3, <3>1, <3>2, <3>3 DEF Truth
  <2>4. CASE b # a
    BY <1>1, <2>1, <2>2, <2>4 DEF Moves, Set, FenceInv, TypeOK
  <2> QED BY <2>3, <2>4
<1>7. ASSUME NEW a \in Attempts, Hear(a) \/ TimesOut(a) PROVE Truth(b)'
  <2>1. /\ pc[a] = "waiting" /\ sent[a] # <<>>
        /\ UNCHANGED <<sent, applied, ask>> /\ net' \subseteq net
        /\ \A d \in Attempts \ {a} : pc'[d] = pc[d] /\ reply'[d] = reply[d]
        /\ pc'[a] = "done" /\ ~ask[a].stream =>
             /\ reply'[a] \in {200, 404, 409, 502}
             /\ reply'[a] = 200 => answer[a] = 200 \/ stage[a] = "final"
             /\ reply'[a] # 502 => answer[a] # NoAnswer
    BY <1>7, HearsOf
  <2>2. CASE b # a
    BY <1>1, <2>1, <2>2
  <2>3. CASE b = a
    <3>1. /\ reply'[a] \in {200, 404, 409, 502}
          /\ reply'[a] = 200 => answer[a] = 200 \/ stage[a] = "final"
          /\ reply'[a] # 502 => answer[a] # NoAnswer
      BY <2>1, <2>3
    <3>2. reply'[a] # 502 => \A c \in net' : c.by = a => c.kind = "runEnd"
      BY <2>1, <3>1 DEF PendingInv
    <3>3. ASSUME reply'[a] = 200, NEW n \in DOMAIN sent[a], sent[a][n] \in {"write", "invoke"}
          PROVE  TookEffect(a, n)
      <4>1. n = Len(sent[a]) => answer[a] = 200
        <5>1. n = Len(sent[a]) => sent[a][n] \in KindsOf(stage[a])
          BY <2>1 DEF PendingInv
        <5>2. n = Len(sent[a]) => stage[a] # "final"
          BY <3>3, <5>1, StageKinds
        <5> QED BY <3>1, <3>3, <5>2
      <4>2. Answered(a, n)
        BY <3>3, <4>1 DEF Answered, Mutating, Kinds
      <4> QED BY <2>1, <4>2 DEF EffectInv
    <3>4. \A n : TookEffect(a, n)' <=> TookEffect(a, n)
      BY <2>1 DEF TookEffect
    <3> QED BY <2>1, <2>3, <3>1, <3>2, <3>3, <3>4 DEF Truth
  <2> QED BY <2>2, <2>3
<1>8. ASSUME NEW c \in net, Arrive(c) PROVE Truth(b)'
  <2>1. Arrival(c)
    BY <1>8, Arrives
  <2>2. UNCHANGED <<pc, ask, sent, reply>> /\ net' \subseteq net
    BY <2>1 DEF Arrival
  <2> QED BY <1>1, <2>2
<1>9. CASE ProcessExits \/ UNCHANGED vars
  BY <1>1, <1>9 DEF ProcessExits, vars, worker, Alive
<1> QED BY <1>2, <1>3, <1>4, <1>5, <1>6, <1>7, <1>8, <1>9 DEF Next, Work

-----------------------------------------------------------------------------
\* The theorems.

IInv == FenceInv /\ AnswerInv /\ LateInv /\ CallInv

LEMMA IInvInit == ASSUME Init PROVE IInv
<1>1. FenceInv /\ AnswerInv
  BY FenceInit
<1>2. LateInv
  BY DEF Init, LateInv
<1>3. PendingInv /\ OrderInv /\ EffectInv
  BY DEF Init, PendingInv, OrderInv, EffectInv
<1>4. InSendingOrder /\ NothingAfterAGap /\ AnswerTellsTruth
  BY DEF Init, InSendingOrder, NothingAfterAGap, AnswerTellsTruth
<1> QED BY <1>1, <1>2, <1>3, <1>4 DEF IInv, CallInv

LEMMA IInvStep == ASSUME IInv, [Next]_vars PROVE IInv'
<1>1. FenceInv' /\ AnswerInv' /\ LateInv'
  BY FenceStep, AnswerStep, LateStep DEF IInv
<1>2. PendingInv' /\ OrderInv' /\ InSendingOrder' /\ EffectInv'
  BY PendingStep, OrderStep, EffectStep DEF IInv, CallInv
<1>3. NothingAfterAGap' /\ AnswerTellsTruth'
  BY GapStep, TruthStep DEF IInv, CallInv
<1> QED BY <1>1, <1>2, <1>3 DEF IInv, CallInv

LEMMA IInvHolds == Spec => []IInv
<1>1. Init => IInv
  BY IInvInit
<1>2. IInv /\ [Next]_vars => IInv'
  BY IInvStep
<1> QED BY <1>1, <1>2, PTL DEF Spec

\* Every variable keeps its type, and a worker that calls carries its own lease
\* (host_client.py, for_execution).
THEOREM LeasedTypeCorrect == Spec => []TypeOK
<1>1. IInv => TypeOK
  BY DEF IInv, FenceInv
<1> QED BY <1>1, IInvHolds, PTL

\* The host refuses a lease only of an attempt that has lost its run, however many
\* executions a service drives at once (host_client.py, for_execution).
THEOREM LeasesKeptApartHolds == Spec => []LeasesKeptApart
<1>1. IInv => LeasesKeptApart
  BY DEF IInv, FenceInv
<1> QED BY <1>1, IInvHolds, PTL

\* No drive writes on top of a write whose fate it does not know (host_client.py,
\* _request; http_tools.py, StepOutcomeUnknown).
THEOREM NothingAfterAGapHolds == Spec => []NothingAfterAGap
<1>1. IInv => NothingAfterAGap
  BY DEF IInv, CallInv
<1> QED BY <1>1, IInvHolds, PTL

\* A worker that lost its run makes at most two more callbacks, however long its
\* drive would have been (service.py, on_run_end).
THEOREM StaleDriveStopsHolds == Spec => []StaleDriveStops
<1>1. IInv => StaleDriveStops
  BY DEF IInv, LateInv, StaleDriveStops
<1> QED BY <1>1, IInvHolds, PTL

\* The status of execute tells what became of the run's records (service.py,
\* _host_http_error).
THEOREM AnswerTellsTruthHolds == Spec => []AnswerTellsTruth
<1>1. IInv => AnswerTellsTruth
  BY DEF IInv, CallInv
<1> QED BY <1>1, IInvHolds, PTL

-----------------------------------------------------------------------------
\* The refinement.

LEMMA SoleInit == ASSUME Init PROVE Sole!Init
<1>1. \A r \in Runs : applied[r] = <<>>
  BY DEF Init
<1>2. ASSUME NEW r \in Runs PROVE [i \in DOMAIN applied[r] |-> applied[r][i].by] = <<>>
  <2> DEFINE f == [i \in DOMAIN applied[r] |-> applied[r][i].by]
  <2>1. DOMAIN applied[r] = 1..0
    BY <1>1
  <2>2. f \in [1..0 -> Attempts]
    BY <2>1
  <2>3. f \in Seq(Attempts) /\ Len(f) = 0
    BY <2>2
  <2> HIDE DEF f
  <2>4. f = <<>>
    BY <2>3
  <2> QED BY <2>4 DEF f
<1>3. Authors = [r \in Runs |-> <<>>]
  BY <1>2 DEF Authors
<1> QED BY <1>3 DEF Init, Sole!Init, Nobody

\* The authors of a sequence of entries and one more.
LEMMA AuthorsAppend ==
  ASSUME NEW seq \in Seq([by : Attempts, n : Nat]), NEW e \in [by : Attempts, n : Nat]
  PROVE  [i \in DOMAIN Append(seq, e) |-> Append(seq, e)[i].by]
           = Append([i \in DOMAIN seq |-> seq[i].by], e.by)
<1> DEFINE S == [by : Attempts, n : Nat]
           f == [i \in DOMAIN seq |-> seq[i].by]
           g == [i \in DOMAIN Append(seq, e) |-> Append(seq, e)[i].by]
<1>1. /\ DOMAIN seq = 1..Len(seq) /\ Len(seq) \in Nat
      /\ DOMAIN Append(seq, e) = 1..(Len(seq) + 1)
      /\ \A i \in DOMAIN seq : i \in DOMAIN Append(seq, e) /\ Append(seq, e)[i] = seq[i]
      /\ Append(seq, e)[Len(seq) + 1] = e
  <2> HIDE DEF S
  <2>1. seq \in Seq(S) /\ e \in S
    BY DEF S
  <2> QED BY <2>1, Appended
<1>2. \A i \in DOMAIN seq : seq[i].by \in Attempts
  <2> HIDE DEF S
  <2>1. seq \in Seq(S)
    BY DEF S
  <2>2. \A i \in DOMAIN seq : seq[i] \in S
    BY <2>1
  <2> QED BY <2>2 DEF S
<1>3. f \in Seq(Attempts) /\ Len(f) = Len(seq) /\ DOMAIN f = 1..Len(seq)
  <2>1. f \in [1..Len(seq) -> Attempts]
    BY <1>1, <1>2
  <2> QED BY <1>1, <2>1
<1>4. e.by \in Attempts
  OBVIOUS
<1> HIDE DEF f
<1>5. /\ DOMAIN Append(f, e.by) = 1..(Len(seq) + 1)
      /\ \A i \in DOMAIN f : Append(f, e.by)[i] = f[i]
      /\ Append(f, e.by)[Len(seq) + 1] = e.by
      /\ Append(f, e.by) \in Seq(Attempts)
  BY <1>3, <1>4, Appended
<1>6. \A i \in 1..(Len(seq) + 1) : g[i] = Append(f, e.by)[i]
  <2> TAKE i \in 1..(Len(seq) + 1)
  <2>1. CASE i = Len(seq) + 1
    BY <1>1, <1>5, <2>1
  <2>2. CASE i # Len(seq) + 1
    <3>1. i \in DOMAIN seq
      BY <1>1, <2>2
    <3> QED BY <1>1, <1>3, <1>5, <3>1 DEF f
  <2> QED BY <2>1, <2>2
<1>7. g = [i \in 1..(Len(seq) + 1) |-> g[i]]
  BY <1>1
<1>8. Append(f, e.by) = [i \in 1..(Len(seq) + 1) |-> Append(f, e.by)[i]]
  BY <1>5
<1> QED BY <1>6, <1>7, <1>8 DEF f

LEMMA SoleStep == ASSUME FenceInv, AnswerInv, [Next]_vars PROVE [Sole!Next]_(Sole!vars)
<1>1. ASSUME NEW a \in Attempts, NEW q \in Requests, Claim(a, q) PROVE Sole!Next
  <2>1. RunOf[a] \in Runs /\ holder' = Set(holder, RunOf[a], a) /\ holder[RunOf[a]] < a
    BY <1>1, Numbers DEF Claim
  <2>2. UNCHANGED applied
    BY <1>1 DEF Claim
  <2>3. UNCHANGED Authors
    BY <2>2 DEF Authors
  <2>4. a > holder[RunOf[a]]
    BY <2>1, Numbers, Holders DEF FenceInv
  <2>5. Sole!TakeOver(RunOf[a])
    BY <2>1, <2>3, <2>4 DEF Sole!TakeOver, Set
  <2> QED BY <2>1, <2>5 DEF Sole!Next
<1>2. ASSUME NEW c \in net, Arrive(c) PROVE [Sole!Next]_(Sole!vars)
  <2>1. Arrival(c) /\ UNCHANGED holder
    BY <1>2, Arrives DEF Arrival
  <2>2. CASE UNCHANGED applied
    <3>1. UNCHANGED Authors
      BY <2>2 DEF Authors
    <3> QED BY <2>1, <3>1 DEF Sole!vars
  <2>3. CASE /\ Current(c)
             /\ applied' = Set(applied, RunOf[c.by],
                               Append(applied[RunOf[c.by]], [by |-> c.by, n |-> c.n]))
    <3> DEFINE r == RunOf[c.by]
               e == [by |-> c.by, n |-> c.n]
    <3>1. /\ c.by \in Attempts /\ r \in Runs /\ e \in [by : Attempts, n : Nat]
          /\ holder[r] = c.by /\ e.by = c.by
      BY <2>3, Numbers DEF Current, FenceInv, LeaseInv, TypeOK, Calls
    <3>2. /\ applied'[r] = Append(applied[r], e)
          /\ \A t \in Runs \ {r} : applied'[t] = applied[t]
      BY <2>3, <3>1 DEF FenceInv, TypeOK, Set
    <3>3. applied[r] \in Seq([by : Attempts, n : Nat])
      BY <3>1 DEF FenceInv, TypeOK
    <3>4. [i \in DOMAIN applied'[r] |-> applied'[r][i].by]
            = Append([i \in DOMAIN applied[r] |-> applied[r][i].by], e.by)
      <4> HIDE DEF e
      <4> QED BY <3>1, <3>2, <3>3, AuthorsAppend
    <3> HIDE DEF e
    <3>5. /\ Authors'[r] = Append(Authors[r], holder[r])
          /\ \A t \in Runs \ {r} : Authors'[t] = Authors[t]
      BY <3>1, <3>2, <3>4 DEF Authors
    <3>6. Authors' = [Authors EXCEPT ![r] = Append(@, holder[r])]
      BY <3>1, <3>5 DEF Authors
    <3>7. holder[r] # 0
      BY <3>1, Numbers
    <3>8. Sole!Write(r)
      BY <2>1, <3>6, <3>7 DEF Sole!Write
    <3> QED BY <3>1, <3>8 DEF Sole!Next
  <2> QED BY <2>1, <2>2, <2>3 DEF Arrival
<1>3. CASE UNCHANGED <<holder, applied>>
  <2>1. UNCHANGED Authors
    BY <1>3 DEF Authors
  <2> QED BY <1>3, <2>1 DEF Sole!vars
<1>4. ASSUME NEW a \in Attempts, Work(a) \/ NotPermitted(a) PROVE UNCHANGED <<holder, applied>>
  BY <1>4 DEF Work, Refuse, Admit, Send, Hear, TimesOut, NotPermitted, host
<1>5. CASE ProcessExits \/ UNCHANGED vars
  BY <1>3, <1>5 DEF ProcessExits, vars, host
<1> QED BY <1>1, <1>2, <1>3, <1>4, <1>5 DEF Next

\* For any runs and attempts the lease headers make the host's records those of
\* SoleWriter: one owner at a time, who never comes back, and every effect is the
\* owner's (host_client.py, the lease headers on every request).
THEOREM OnlyTheHolderWritesHolds == Spec => OnlyTheHolderWrites
<1>1. Init => Sole!Init
  BY SoleInit
<1>2. IInv /\ [Next]_vars => [Sole!Next]_(Sole!vars)
  BY SoleStep DEF IInv
<1> QED BY <1>1, <1>2, IInvHolds, PTL DEF Spec, OnlyTheHolderWrites, Sole!Spec

-----------------------------------------------------------------------------
\* What SoleWriter gives: no attempt writes after a later one has written.
TakingTurns ==
  \A r \in Runs : \A i \in DOMAIN Authors[r] :
    /\ Authors[r][i] <= holder[r]
    /\ \A j \in DOMAIN Authors[r] : i < j => Authors[r][i] <= Authors[r][j]

LEMMA AuthorsAre ==
  ASSUME TypeOK, NEW r \in Runs
  PROVE  /\ DOMAIN Authors[r] = DOMAIN applied[r]
         /\ Authors[r] \in Seq(Nat) /\ holder[r] \in Nat
         /\ \A i \in DOMAIN applied[r] :
              Authors[r][i] = applied[r][i].by /\ applied[r][i].by \in Nat
<1>1. applied[r] \in Seq([by : Attempts, n : Nat]) /\ holder[r] \in Nat
  <2>1. holder \in [Runs -> Attempts \cup {Nobody}] /\ applied \in [Runs -> Seq([by : Attempts, n : Nat])]
    BY DEF TypeOK
  <2>2. Attempts \cup {Nobody} \subseteq Nat
    BY Numbers DEF Nobody
  <2> QED BY <2>1, <2>2
<1>2. Authors[r] = [i \in DOMAIN applied[r] |-> applied[r][i].by]
  BY DEF Authors
<1>3. DOMAIN applied[r] = 1..Len(applied[r]) /\ Len(applied[r]) \in Nat
  BY <1>1
<1>4. \A i \in DOMAIN applied[r] : applied[r][i].by \in Nat
  <2> TAKE i \in DOMAIN applied[r]
  <2>1. applied[r][i] \in [by : Attempts, n : Nat]
    <3> DEFINE S == [by : Attempts, n : Nat]
               seq == applied[r]
    <3>1. seq \in Seq(S)
      BY <1>1
    <3> HIDE DEF S, seq
    <3>2. \A k \in DOMAIN seq : seq[k] \in S
      BY <3>1
    <3> QED BY <3>2 DEF S, seq
  <2>2. applied[r][i].by \in Attempts
    BY <2>1
  <2> QED BY <2>2, Numbers
<1>5. Authors[r] \in [1..Len(applied[r]) -> Nat]
  BY <1>2, <1>3, <1>4
<1> QED BY <1>1, <1>2, <1>3, <1>4, <1>5

LEMMA TurnsTaken ==
  ASSUME TypeOK, TakingTurns, [Sole!Next]_(Sole!vars) PROVE TakingTurns'
<1>t. \A r \in Runs : Authors[r] \in Seq(Nat) /\ holder[r] \in Nat
  BY AuthorsAre
<1>h. holder = [r \in Runs |-> holder[r]]
  BY DEF TypeOK
<1>1. ASSUME NEW r \in Runs, Sole!TakeOver(r) PROVE TakingTurns'
  <2>1. PICK a \in Attempts : a > holder[r] /\ holder' = [holder EXCEPT ![r] = a]
    BY <1>1 DEF Sole!TakeOver
  <2>2. \A q \in Runs : holder'[q] \in Nat /\ holder[q] <= holder'[q]
    BY <2>1, <1>t, <1>h, Numbers
  <2>3. Authors' = Authors
    BY <1>1 DEF Sole!TakeOver
  <2> HIDE DEF Authors
  <2>4. ASSUME NEW q \in Runs, NEW i \in DOMAIN Authors[q] PROVE Authors[q][i] <= holder'[q]
    <3>1. Authors[q][i] \in Nat /\ Authors[q][i] <= holder[q]
      BY <1>t DEF TakingTurns
    <3> QED BY <3>1, <2>2, <1>t
  <2> QED BY <2>3, <2>4 DEF TakingTurns
<1>2. ASSUME NEW r \in Runs, Sole!Write(r) PROVE TakingTurns'
  <2> DEFINE w == Authors
             x == Authors'
  <2>1. x = [w EXCEPT ![r] = Append(w[r], holder[r])] /\ holder' = holder
    BY <1>2 DEF Sole!Write
  <2>2. w = [q \in Runs |-> w[q]]
    BY DEF Authors
  <2>3. /\ \A q \in Runs : w[q] \in Seq(Nat) /\ holder[q] \in Nat
        /\ \A q \in Runs : \A i \in DOMAIN w[q] :
             w[q][i] <= holder[q] /\ \A j \in DOMAIN w[q] : i < j => w[q][i] <= w[q][j]
    BY <1>t DEF TakingTurns
  <2>g. SUFFICES \A q \in Runs : \A i \in DOMAIN x[q] :
          x[q][i] <= holder[q] /\ \A j \in DOMAIN x[q] : i < j => x[q][i] <= x[q][j]
    BY <2>1 DEF TakingTurns
  <2> HIDE DEF w, x
  <2>4. ASSUME NEW q \in Runs, q # r PROVE x[q] = w[q]
    BY <2>1, <2>2, <2>4
  <2>5. x[r] = Append(w[r], holder[r])
    BY <2>1, <2>2
  <2>6. /\ DOMAIN x[r] = 1..(Len(w[r]) + 1) /\ Len(w[r]) \in Nat
        /\ \A i \in 1..Len(w[r]) : x[r][i] = w[r][i]
        /\ x[r][Len(w[r]) + 1] = holder[r] /\ DOMAIN w[r] = 1..Len(w[r])
    BY <2>3, <2>5
  <2>7. ASSUME NEW i \in DOMAIN x[r]
        PROVE  x[r][i] <= holder[r] /\ \A j \in DOMAIN x[r] : i < j => x[r][i] <= x[r][j]
    <3> DEFINE n == Len(w[r])
               h == holder[r]
               a == w[r]
               b == x[r]
    <3>1. /\ n \in Nat /\ h \in Nat /\ DOMAIN a = 1..n /\ DOMAIN b = 1..(n + 1)
          /\ (\A k \in 1..n : b[k] = a[k]) /\ b[n + 1] = h
      BY <2>3, <2>6
    <3>2. \A k \in 1..n : a[k] <= h /\ \A j \in 1..n : k < j => a[k] <= a[j]
      BY <2>3, <2>6
    <3>3. i \in 1..(n + 1)
      BY <2>7, <3>1
    <3> SUFFICES b[i] <= h /\ \A j \in 1..(n + 1) : i < j => b[i] <= b[j]
      BY <3>1
    <3> HIDE DEF n, h, a, b
    <3>4. CASE i = n + 1
      BY <3>1, <3>4
    <3>5. CASE i \in 1..n
      <4>1. b[i] = a[i] /\ a[i] <= h
        BY <3>1, <3>2, <3>5
      <4>2. ASSUME NEW j \in 1..(n + 1), i < j PROVE b[i] <= b[j]
        <5>1. CASE j = n + 1
          BY <3>1, <4>1, <5>1
        <5>2. CASE j \in 1..n
          BY <3>1, <3>2, <3>5, <4>1, <4>2, <5>2
        <5> QED BY <3>1, <5>1, <5>2
      <4> QED BY <4>1, <4>2
    <3> QED BY <3>1, <3>3, <3>4, <3>5
  <2> QED BY <2>3, <2>4, <2>7
<1>3. CASE UNCHANGED Sole!vars
  BY <1>3 DEF Sole!vars, TakingTurns
<1> QED BY <1>1, <1>2, <1>3 DEF Sole!Next

LEMMA TurnsHold == Spec => []TakingTurns
<1>1. Init => TakingTurns
  BY SoleInit DEF Sole!Init, TakingTurns
<1>2. IInv /\ TakingTurns /\ [Next]_vars => TakingTurns'
  BY SoleStep, TurnsTaken DEF IInv, FenceInv
<1> QED BY <1>1, <1>2, IInvHolds, PTL DEF Spec

\* What takes effect on a run is one attempt's callbacks after another's, each in
\* the order it was sent and once (host_client.py, _request and the lease headers).
THEOREM NeverReplayedHolds == Spec => []NeverReplayed
<1>1. IInv /\ TakingTurns => NeverReplayed
  <2> SUFFICES ASSUME IInv, TakingTurns, NEW r \in Runs,
                      NEW i \in DOMAIN applied[r], NEW j \in DOMAIN applied[r], i < j
               PROVE  \/ applied[r][i].by < applied[r][j].by
                      \/ applied[r][i].by = applied[r][j].by /\ applied[r][i].n < applied[r][j].n
    BY DEF NeverReplayed
  <2>1. TypeOK /\ InSendingOrder
    BY DEF IInv, FenceInv, CallInv
  <2>2. applied[r][i].by \in Nat /\ applied[r][j].by \in Nat
    BY <2>1, AuthorsAre
  <2>3. applied[r][i].by <= applied[r][j].by
    BY <2>1, AuthorsAre DEF TakingTurns
  <2>4. applied[r][i].by = applied[r][j].by => applied[r][i].n < applied[r][j].n
    BY <2>1 DEF InSendingOrder
  <2> QED BY <2>2, <2>3, <2>4
<1> QED BY <1>1, IInvHolds, TurnsHold, PTL
=============================================================================
