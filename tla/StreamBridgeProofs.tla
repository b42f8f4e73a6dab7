-------------------------- MODULE StreamBridgeProofs --------------------------
(***************************************************************************)
(* The stream of a drive, for any number of events: nothing is lost or     *)
(* reordered on its way to an observer who stays, the end comes last, and  *)
(* at most one entry is scheduled after the observer has left.  With these *)
(* invariants StreamBridge implements ObservedDrive.                       *)
(***************************************************************************)
EXTENDS StreamBridge, SequenceTheorems, TLAPS

-----------------------------------------------------------------------------
\* Before the first iteration of the response nothing has happened.
FreshInv ==
  reader = "unstarted" =>
    /\ worker = "none" /\ produced = 0 /\ ~gone /\ loopOpen
    /\ got = <<>> /\ queue = <<>> /\ calls = <<>>

\* What the worker has in hand is the end exactly if its drive is over.
HandInv ==
  /\ worker \in {"none", "driving"} => drive = "running"
  /\ worker \in {"checking", "scheduling"} => hand \in Entries /\ (hand = End) = (drive # "running")

\* An observer who is served has not left, and the loop serves him.
ServedInv == reader \in {"asking", "waiting", "yielded"} => ~gone /\ loopOpen

\* An entry scheduled late was past the check when the observer left.
LateInv == late = 0 \/ (late = 1 /\ gone /\ worker # "scheduling")

\* A stream that ended by itself ended after the drive, with everything sent.
EndMeansAll ==
  reader = "ended" => drive # "running" /\ got = [i \in 1..produced |-> i]

StreamInv == FreshInv /\ HandInv /\ ServedInv /\ LateInv
IInv == TypeOK /\ StreamInv /\ NothingLost /\ EndMeansAll

Numbers(n) == [i \in 1..n |-> i]
Whole      == got \o queue \o calls \o InHand
Due        == Numbers(produced) \o Ended

-----------------------------------------------------------------------------
\* Sequences.

\* Moving the head of one sequence to the end of the one before it changes
\* nothing of their concatenation.
LEMMA MoveHead ==
  ASSUME NEW S, NEW s \in Seq(S), NEW t \in Seq(S), t # <<>>
  PROVE  Append(s, Head(t)) \o Tail(t) = s \o t
<1> DEFINE l == Append(s, Head(t)) \o Tail(t)
           r == s \o t
<1>1. /\ Head(t) \in S /\ Head(t) = t[1] /\ Tail(t) \in Seq(S) /\ Len(Tail(t)) = Len(t) - 1
      /\ \A i \in 1..Len(Tail(t)) : Tail(t)[i] = t[i + 1]
      /\ Len(t) \in Nat \ {0} /\ Len(s) \in Nat
  BY HeadTailProperties, EmptySeq, LenProperties
<1>2. /\ Append(s, Head(t)) \in Seq(S) /\ Len(Append(s, Head(t))) = Len(s) + 1
      /\ \A i \in 1..Len(s) : Append(s, Head(t))[i] = s[i]
      /\ Append(s, Head(t))[Len(s) + 1] = Head(t)
  BY <1>1, AppendProperties
<1>3. /\ l \in Seq(S) /\ Len(l) = Len(s) + Len(t)
      /\ \A i \in 1..(Len(s) + Len(t)) :
           l[i] = IF i <= Len(s) + 1 THEN Append(s, Head(t))[i] ELSE Tail(t)[i - (Len(s) + 1)]
  <2>1. Len(Append(s, Head(t))) + Len(Tail(t)) = Len(s) + Len(t)
    BY <1>1, <1>2
  <2> QED BY <1>1, <1>2, <2>1, ConcatProperties
<1>4. /\ r \in Seq(S) /\ Len(r) = Len(s) + Len(t)
      /\ \A i \in 1..(Len(s) + Len(t)) : r[i] = IF i <= Len(s) THEN s[i] ELSE t[i - Len(s)]
  BY ConcatProperties
<1>5. \A i \in 1..Len(l) : l[i] = r[i]
  <2> SUFFICES ASSUME NEW i \in 1..Len(l) PROVE l[i] = r[i]
    OBVIOUS
  <2> i \in Nat /\ i \in 1..(Len(s) + Len(t))
    BY <1>1, <1>3
  <2> HIDE DEF l, r
  <2>1. CASE i <= Len(s)
    BY <2>1, <1>1, <1>2, <1>3, <1>4
  <2>2. CASE i = Len(s) + 1
    BY <2>2, <1>1, <1>2, <1>3, <1>4
  <2>3. CASE i > Len(s) + 1
    <3>1. i - (Len(s) + 1) \in 1..Len(Tail(t)) /\ (i - (Len(s) + 1)) + 1 = i - Len(s)
      BY <2>3, <1>1
    <3> QED BY <2>3, <3>1, <1>1, <1>3, <1>4
  <2> QED BY <2>1, <2>2, <2>3, <1>1
<1> QED BY <1>3, <1>4, <1>5, SeqEqual

\* So does handing on what stands between them.
LEMMA PassOn ==
  ASSUME NEW S, NEW s \in Seq(S), NEW e \in S
  PROVE  Append(s, e) \o <<>> = s \o <<e>>
BY AppendProperties, AppendIsConcat, ConcatEmptySeq

\* The numbers up to n are a sequence, and n + 1 comes next.
LEMMA CountOn ==
  ASSUME NEW n \in Nat
  PROVE  /\ Numbers(n) \in Seq(Nat) /\ Len(Numbers(n)) = n
         /\ \A i \in 1..n : Numbers(n)[i] = i
         /\ Numbers(n) \o <<n + 1>> = Numbers(n + 1)
<1>1. \A m \in Nat : /\ Numbers(m) \in Seq(Nat) /\ Len(Numbers(m)) = m
                     /\ \A i \in 1..m : Numbers(m)[i] = i
  BY DEF Numbers
<1>2. /\ Append(Numbers(n), n + 1) \in Seq(Nat) /\ Len(Append(Numbers(n), n + 1)) = n + 1
      /\ \A i \in 1..n : Append(Numbers(n), n + 1)[i] = i
      /\ Append(Numbers(n), n + 1)[n + 1] = n + 1
  BY <1>1, AppendProperties
<1>3. \A i \in 1..(n + 1) : Append(Numbers(n), n + 1)[i] = Numbers(n + 1)[i]
  BY <1>1, <1>2
<1>4. Append(Numbers(n), n + 1) = Numbers(n + 1)
  BY <1>1, <1>2, <1>3, SeqEqual
<1> QED BY <1>1, <1>4, AppendIsConcat

-----------------------------------------------------------------------------
\* The state at the start.
LEMMA InitOK == Init => IInv
<1> SUFFICES ASSUME Init PROVE IInv
  OBVIOUS
<1> USE MaxEventsAssumption DEF Init
<1>1. TypeOK
  <2>1. <<>> \in Seq(Entries) /\ <<>> \in Seq(1..MaxEvents)
    BY EmptySeq
  <2>2. /\ worker = "none" /\ drive = "running" /\ reader = "unstarted"
        /\ gone = FALSE /\ loopOpen = TRUE /\ hand \in {Nothing}
        /\ produced \in 0..MaxEvents /\ late \in Nat
    OBVIOUS
  <2>3. calls \in Seq(Entries) /\ queue \in Seq(Entries) /\ got \in Seq(1..MaxEvents)
    BY <2>1
  <2> QED BY <2>2, <2>3 DEF TypeOK
<1>2. StreamInv
  BY DEF StreamInv, FreshInv, HandInv, ServedInv, LateInv
<1>3. NothingLost /\ EndMeansAll
  BY DEF NothingLost, EndMeansAll, Streaming
<1> QED BY <1>1, <1>2, <1>3 DEF IInv

-----------------------------------------------------------------------------
\* Types.
LEMMA TypeStep ==
  ASSUME IInv, Next
  PROVE  TypeOK'
<1> USE MaxEventsAssumption DEF TypeOK, workSide, readSide, handedOver
<1> DEFINE E == Entries
<1>t. TypeOK /\ StreamInv
  BY DEF IInv
<1>1. CASE DriveYields
  BY <1>1, <1>t DEF DriveYields, Entries, End
<1>2. ASSUME NEW how \in {"stopped", "raised"}, DriveEnds(how) PROVE TypeOK'
  BY <1>2, <1>t DEF DriveEnds, Entries, End
<1>3. CASE CheckObserver
  BY <1>3, <1>t DEF CheckObserver, AfterPublishing
<1>4. CASE Schedule
  <2>1. hand \in Entries
    BY <1>4, <1>t DEF Schedule, StreamInv, HandInv
  <2>2. Append(calls, hand) \in Seq(Entries)
    BY <1>t, <2>1, AppendProperties
  <2>3. late' \in {late, late + 1}
    BY <1>4 DEF Schedule
  <2>4. /\ worker' \in {"finished", "driving"} /\ UNCHANGED <<drive, produced, hand, loopOpen, queue, reader, got>>
    BY <1>4 DEF Schedule, AfterPublishing
  <2>5. calls' \in Seq(Entries)
    <3>1. CASE loopOpen
      BY <1>4, <2>2, <3>1, Zenon DEF Schedule
    <3>2. CASE ~loopOpen
      BY <1>4, <1>t, <3>2, Zenon DEF Schedule
    <3> QED BY <3>1, <3>2
  <2>7. late' \in Nat
    BY <1>t, <2>3
  <2>6. gone' \in BOOLEAN
    <3>1. CASE loopOpen
      BY <1>4, <1>t, <3>1, Zenon DEF Schedule
    <3>2. CASE ~loopOpen
      BY <1>4, <3>2, Zenon DEF Schedule
    <3> QED BY <3>1, <3>2
  <2> QED BY <1>t, <2>4, <2>5, <2>6, <2>7
<1>5. CASE RunCallback
  <2>1. Head(calls) \in Entries /\ Tail(calls) \in Seq(Entries)
    BY <1>5, <1>t, HeadTailProperties DEF RunCallback
  <2>2. queue' \in Seq(Entries) /\ calls' \in Seq(Entries)
    BY <1>5, <1>t, <2>1, AppendProperties DEF RunCallback
  <2> QED BY <1>5, <1>t, <2>2 DEF RunCallback
<1>6. CASE Start
  BY <1>6, <1>t DEF Start
<1>7. CASE Take
  <2>1. Head(queue) \in Entries /\ Tail(queue) \in Seq(Entries)
    BY <1>7, <1>t, HeadTailProperties DEF Take
  <2>2. Head(queue) # End => Head(queue) \in 1..MaxEvents
    BY <2>1 DEF Entries, End
  <2>3. got' \in Seq(1..MaxEvents) /\ queue' \in Seq(Entries)
    <3>1. CASE Head(queue) = End
      BY <1>7, <1>t, <2>1, <3>1 DEF Take
    <3>2. CASE Head(queue) # End
      <4>1. Append(got, Head(queue)) \in Seq(1..MaxEvents)
        BY <1>t, <2>2, <3>2, AppendProperties
      <4> QED BY <1>7, <2>1, <3>2, <4>1 DEF Take
    <3> QED BY <3>1, <3>2
  <2>4. gone' \in BOOLEAN /\ reader' \in {"yielded", "ended"}
    BY <1>7, <1>t DEF Take
  <2> QED BY <1>7, <1>t, <2>3, <2>4 DEF Take
<1>8. CASE Wait
  BY <1>8, <1>t DEF Wait
<1>9. CASE Keepalive
  BY <1>9, <1>t DEF Keepalive
<1>10. CASE Sent
  BY <1>10, <1>t DEF Sent
<1>11. CASE Leave
  BY <1>11, <1>t DEF Leave
<1>12. CASE LoopCloses
  BY <1>12, <1>t DEF LoopCloses
<1>13. CASE ProcessExits
  BY <1>13, <1>t DEF ProcessExits
<1> QED BY <1>1, <1>2, <1>3, <1>4, <1>5, <1>6, <1>7, <1>8, <1>9, <1>10, <1>11, <1>12, <1>13
        DEF Next, Worker, Reader

\* Who is where, what is in hand, and what came too late.
LEMMA StreamStep ==
  ASSUME IInv, Next
  PROVE  StreamInv'
<1> USE MaxEventsAssumption DEF TypeOK, workSide, readSide, handedOver,
        StreamInv, FreshInv, HandInv, ServedInv, LateInv
<1>t. TypeOK /\ StreamInv
  BY DEF IInv
<1>1. CASE DriveYields
  BY <1>1, <1>t DEF DriveYields, Entries, End
<1>2. ASSUME NEW how \in {"stopped", "raised"}, DriveEnds(how) PROVE StreamInv'
  BY <1>2, <1>t DEF DriveEnds, Entries, End
<1>3. CASE CheckObserver
  BY <1>3, <1>t DEF CheckObserver, AfterPublishing
<1>4. CASE Schedule
  <2>1. AfterPublishing = IF drive # "running" THEN "finished" ELSE "driving"
    BY <1>4, <1>t DEF Schedule, AfterPublishing
  <2>2. HandInv'
    BY <1>4, <1>t, <2>1 DEF Schedule
  <2>3. ServedInv'
    BY <1>4, <1>t DEF Schedule
  <2>4. LateInv'
    BY <1>4, <1>t, <2>1 DEF Schedule
  <2>5. FreshInv'
    BY <1>4, <1>t DEF Schedule
  <2> QED BY <2>2, <2>3, <2>4, <2>5
<1>5. CASE RunCallback
  BY <1>5, <1>t DEF RunCallback
<1>6. CASE Start
  <2>1. drive = "running"
    BY <1>6, <1>t DEF Start
  <2> QED BY <1>6, <1>t, <2>1 DEF Start
<1>7. CASE Take
  BY <1>7, <1>t DEF Take
<1>8. CASE Wait
  BY <1>8, <1>t DEF Wait
<1>9. CASE Keepalive
  BY <1>9, <1>t DEF Keepalive
<1>10. CASE Sent
  BY <1>10, <1>t DEF Sent
<1>11. CASE Leave
  BY <1>11, <1>t DEF Leave
<1>12. CASE LoopCloses
  BY <1>12, <1>t DEF LoopCloses
<1>13. CASE ProcessExits
  BY <1>13, <1>t DEF ProcessExits
<1> QED BY <1>1, <1>2, <1>3, <1>4, <1>5, <1>6, <1>7, <1>8, <1>9, <1>10, <1>11, <1>12, <1>13
        DEF Next, Worker, Reader

-----------------------------------------------------------------------------
\* Nothing is lost.

\* The places an entry can be are sequences of numbers, and so is what is due.
LEMMA Places ==
  ASSUME TypeOK, StreamInv
  PROVE  /\ got \in Seq(Nat) /\ queue \in Seq(Nat) /\ calls \in Seq(Nat)
         /\ InHand \in Seq(Nat)
         /\ Numbers(produced) \in Seq(Nat) /\ Ended \in Seq(Nat)
<1> USE MaxEventsAssumption
<1>1. Entries \subseteq Nat /\ 1..MaxEvents \subseteq Nat /\ End \in Nat
  BY DEF Entries, End
<1>2. got \in Seq(Nat) /\ queue \in Seq(Nat) /\ calls \in Seq(Nat)
  BY <1>1, SeqMonotonic DEF TypeOK
<1>3. InHand \in Seq(Nat)
  <2>1. CASE worker \in {"checking", "scheduling"}
    <3>1. hand \in Nat
      BY <1>1, <2>1 DEF StreamInv, HandInv
    <3> QED BY <2>1, <3>1 DEF InHand
  <2>2. CASE worker \notin {"checking", "scheduling"}
    BY <2>2, EmptySeq DEF InHand
  <2> QED BY <2>1, <2>2
<1>4. Numbers(produced) \in Seq(Nat)
  <2>1. produced \in Nat
    BY DEF TypeOK
  <2> QED BY <2>1, CountOn
<1>5. Ended \in Seq(Nat)
  BY <1>1, EmptySeq DEF Ended
<1> QED BY <1>2, <1>3, <1>4, <1>5

\* How they are grouped makes no difference.
LEMMA Regroup ==
  ASSUME NEW s \in Seq(Nat), NEW t \in Seq(Nat), NEW u \in Seq(Nat)
  PROVE  (s \o t) \o u = s \o (t \o u)
BY ConcatAssociative, SMTT(20)

\* If everything is there and the next entry is the end, all else was sent.
LEMMA EndComesLast ==
  ASSUME NEW p \in 0..MaxEvents, NEW g \in Seq(1..MaxEvents), NEW rest \in Seq(Nat),
         rest # <<>>, Head(rest) = End,
         NEW e \in {<<>>, <<End>>}, g \o rest = Numbers(p) \o e
  PROVE  e # <<>> /\ g = Numbers(p)
<1> USE MaxEventsAssumption DEF End
<1> DEFINE w == g \o rest
           v == Numbers(p) \o e
<1>1. /\ g \in Seq(Nat) /\ e \in Seq(Nat) /\ Len(e) \in {0, 1} /\ (Len(e) = 1 => e # <<>>)
      /\ Len(g) \in Nat /\ Len(rest) \in Nat \ {0} /\ rest[1] = MaxEvents + 1
  <2>1. g \in Seq(Nat)
    <3>1. 1..MaxEvents \subseteq Nat
      OBVIOUS
    <3> QED BY <3>1, SeqMonotonic
  <2>2. e \in Seq(Nat) /\ Len(e) \in {0, 1} /\ (Len(e) = 1 => e # <<>>)
    <3>1. CASE e = <<>>
      BY <3>1, EmptySeq
    <3>2. CASE e = <<End>>
      <4>1. <<End>> \in Seq(Nat) /\ Len(<<End>>) = 1
        OBVIOUS
      <4> QED BY <3>2, <4>1, EmptySeq
    <3> QED BY <3>1, <3>2
  <2>3. Len(g) \in Nat /\ Len(rest) \in Nat \ {0}
    BY <2>1, LenProperties, EmptySeq
  <2>4. rest[1] = MaxEvents + 1
    OBVIOUS
  <2> QED BY <2>1, <2>2, <2>3, <2>4
<1>2. /\ Numbers(p) \in Seq(Nat) /\ Len(Numbers(p)) = p
      /\ \A i \in 1..p : Numbers(p)[i] = i
  <2>1. p \in Nat
    OBVIOUS
  <2> QED BY <2>1, CountOn
<1>3. /\ Len(w) = Len(g) + Len(rest)
      /\ \A i \in 1..(Len(g) + Len(rest)) : w[i] = IF i <= Len(g) THEN g[i] ELSE rest[i - Len(g)]
  <2>1. g \in Seq(Nat) /\ rest \in Seq(Nat)
    BY <1>1
  <2> QED BY <2>1, ConcatProperties
<1>4. /\ Len(v) = p + Len(e)
      /\ \A i \in 1..(p + Len(e)) : v[i] = IF i <= p THEN Numbers(p)[i] ELSE e[i - p]
  <2> DEFINE c == Numbers(p)
  <2>1. c \in Seq(Nat) /\ Len(c) = p /\ e \in Seq(Nat)
    BY <1>1, <1>2
  <2> HIDE DEF c
  <2>2. /\ Len(c \o e) = Len(c) + Len(e)
        /\ \A i \in 1..(Len(c) + Len(e)) : (c \o e)[i] = IF i <= Len(c) THEN c[i] ELSE e[i - Len(c)]
    BY <2>1, ConcatProperties
  <2> QED BY <2>1, <2>2 DEF c
<1>5. w = v
  OBVIOUS
<1> HIDE DEF w, v
<1>6. Len(g) + 1 \in 1..(p + Len(e)) /\ v[Len(g) + 1] = MaxEvents + 1
  BY <1>1, <1>3, <1>4, <1>5
<1>7. ~(Len(g) + 1 <= p)
  BY <1>1, <1>2, <1>4, <1>6
<1>8. Len(g) = p /\ Len(e) = 1
  <2> DEFINE m == Len(g)
             k == Len(e)
  <2>1. p \in Nat /\ m \in Nat /\ k \in {0, 1} /\ m + 1 \in 1..(p + k) /\ ~(m + 1 <= p)
    BY <1>1, <1>6, <1>7
  <2> HIDE DEF m, k
  <2>2. m = p /\ k = 1
    BY <2>1
  <2> QED BY <2>2 DEF m, k
<1>9. \A i \in 1..p : g[i] = Numbers(p)[i]
  BY <1>1, <1>3, <1>4, <1>5, <1>8
<1> QED BY <1>1, <1>2, <1>8, <1>9, SeqEqual

\* If everything is there and the next entry is not the end, it is the event
\* after those that were sent.
LEMMA NextInLine ==
  ASSUME NEW p \in 0..MaxEvents, NEW g \in Seq(1..MaxEvents), NEW rest \in Seq(Nat),
         rest # <<>>, Head(rest) # End,
         NEW e \in {<<>>, <<End>>}, g \o rest = Numbers(p) \o e
  PROVE  Len(g) < p /\ Head(rest) = Len(g) + 1
<1> USE MaxEventsAssumption DEF End
<1> DEFINE w == g \o rest
           v == Numbers(p) \o e
<1>1. /\ g \in Seq(Nat) /\ Len(g) \in Nat /\ Len(rest) \in Nat \ {0}
      /\ rest[1] = Head(rest)
  <2>1. 1..MaxEvents \subseteq Nat
    OBVIOUS
  <2> QED BY <2>1, SeqMonotonic, LenProperties, EmptySeq, HeadTailProperties
<1>2. /\ e \in Seq(Nat) /\ Len(e) \in {0, 1} /\ (Len(e) = 1 => e[1] = End)
  <2>1. CASE e = <<>>
    BY <2>1, EmptySeq
  <2>2. CASE e = <<End>>
    BY <2>2
  <2> QED BY <2>1, <2>2
<1>3. /\ Numbers(p) \in Seq(Nat) /\ Len(Numbers(p)) = p
      /\ \A i \in 1..p : Numbers(p)[i] = i
  <2>1. p \in Nat
    OBVIOUS
  <2> QED BY <2>1, CountOn
<1>4. /\ Len(w) = Len(g) + Len(rest)
      /\ \A i \in 1..(Len(g) + Len(rest)) : w[i] = IF i <= Len(g) THEN g[i] ELSE rest[i - Len(g)]
  BY <1>1, ConcatProperties
<1>5. /\ Len(v) = p + Len(e)
      /\ \A i \in 1..(p + Len(e)) : v[i] = IF i <= p THEN Numbers(p)[i] ELSE e[i - p]
  <2> DEFINE c == Numbers(p)
  <2>1. c \in Seq(Nat) /\ Len(c) = p /\ e \in Seq(Nat)
    BY <1>2, <1>3
  <2> HIDE DEF c
  <2>2. /\ Len(c \o e) = Len(c) + Len(e)
        /\ \A i \in 1..(Len(c) + Len(e)) : (c \o e)[i] = IF i <= Len(c) THEN c[i] ELSE e[i - Len(c)]
    BY <2>1, ConcatProperties
  <2> QED BY <2>1, <2>2 DEF c
<1>6. w = v
  OBVIOUS
<1> HIDE DEF w, v
<1>7. Len(g) + 1 \in 1..(p + Len(e)) /\ v[Len(g) + 1] = Head(rest)
  BY <1>1, <1>4, <1>5, <1>6
<1> DEFINE k == Len(e)
           m == Len(g)
<1>8. CASE m + 1 <= p
  BY <1>1, <1>3, <1>5, <1>7, <1>8
<1>9. CASE ~(m + 1 <= p)
  <2>1. p \in Nat /\ m \in Nat /\ k \in {0, 1} /\ m + 1 \in 1..(p + k)
    BY <1>1, <1>2, <1>7
  <2> HIDE DEF m, k
  <2>2. m = p /\ k = 1
    BY <1>9, <2>1
  <2>3. v[m + 1] = e[1]
    BY <1>5, <1>7, <2>2 DEF k, m
  <2> QED BY <1>2, <1>7, <2>2, <2>3 DEF k, m
<1> QED BY <1>8, <1>9

\* What is on its way to an observer who stays only moves, or grows by an event
\* of the drive or by its end.
LEMMA WholeStep ==
  ASSUME IInv, Next, Streaming'
  PROVE  (Whole = Due)'
<1> USE MaxEventsAssumption
<1>t. TypeOK /\ StreamInv
  BY DEF IInv
<1>s. /\ got \in Seq(Nat) /\ queue \in Seq(Nat) /\ calls \in Seq(Nat) /\ InHand \in Seq(Nat)
      /\ Numbers(produced) \in Seq(Nat) /\ Ended \in Seq(Nat)
  BY <1>t, Places
<1> DEFINE Sent0 == got \o queue
           On    == got \o queue \o calls
<1>c. Sent0 \in Seq(Nat) /\ On \in Seq(Nat)
  BY <1>s, ConcatProperties
<1>w. Streaming => On \o InHand = Numbers(produced) \o Ended
  BY DEF IInv, NothingLost, Numbers
<1>o. On \o <<>> = On /\ Numbers(produced) \o <<>> = Numbers(produced)
  BY <1>s, <1>c, ConcatEmptySeq
<1>1. CASE DriveYields
  <2>1. /\ worker = "driving" /\ produced' = produced + 1 /\ hand' = produced + 1
        /\ worker' = "checking" /\ drive = "running" /\ UNCHANGED <<drive, got, queue, calls>>
        /\ Streaming /\ produced \in Nat
    BY <1>1, <1>t DEF DriveYields, handedOver, readSide, Streaming, StreamInv, HandInv, TypeOK
  <2>2. InHand = <<>> /\ InHand' = <<produced + 1>> /\ Ended = <<>> /\ Ended' = <<>>
    BY <2>1 DEF InHand, Ended
  <2>3. On = Numbers(produced)
    BY <2>1, <2>2, <1>w, <1>o
  <2>4. Numbers(produced) \o <<produced + 1>> = Numbers(produced + 1)
        /\ Numbers(produced + 1) \in Seq(Nat)
    <3>1. produced \in Nat /\ produced + 1 \in Nat
      BY <2>1
    <3> HIDE DEF Numbers
    <3> QED BY <3>1, CountOn
  <2>5. Numbers(produced + 1) \o <<>> = Numbers(produced + 1)
    BY <2>4, ConcatEmptySeq
  <2> QED BY <2>1, <2>2, <2>3, <2>4, <2>5 DEF Whole, Due, Numbers
<1>2. ASSUME NEW how \in {"stopped", "raised"}, DriveEnds(how) PROVE (Whole = Due)'
  <2>1. /\ worker = "driving" /\ hand' = End /\ worker' = "checking"
        /\ drive = "running" /\ drive' # "running" /\ UNCHANGED <<produced, got, queue, calls>>
        /\ Streaming
    BY <1>2, <1>t DEF DriveEnds, handedOver, readSide, Streaming, StreamInv, HandInv
  <2>2. InHand = <<>> /\ InHand' = <<End>> /\ Ended = <<>> /\ Ended' = <<End>>
    BY <2>1 DEF InHand, Ended, End
  <2>3. On = Numbers(produced)
    BY <2>1, <2>2, <1>w, <1>o
  <2> QED BY <2>1, <2>2, <2>3 DEF Whole, Due, Numbers
<1>3. CASE CheckObserver
  <2>1. /\ worker = "checking" /\ Streaming /\ UNCHANGED <<hand, drive, produced, got, queue, calls>>
        /\ worker' = "scheduling"
    BY <1>3, <1>t DEF CheckObserver, handedOver, readSide, Streaming, StreamInv, ServedInv
  <2>2. InHand' = InHand /\ Ended' = Ended
    BY <2>1 DEF InHand, Ended, End
  <2> QED BY <2>1, <2>2, <1>w DEF Whole, Due, Numbers
<1>4. CASE Schedule
  <2>1. /\ worker = "scheduling" /\ Streaming /\ UNCHANGED <<drive, produced, got, queue>>
        /\ calls' = Append(calls, hand) /\ worker' \notin {"checking", "scheduling"}
        /\ hand \in Nat
    BY <1>4, <1>t DEF Schedule, readSide, Streaming, AfterPublishing, StreamInv, HandInv, Entries, End
  <2>2. InHand = <<hand>> /\ InHand' = <<>> /\ Ended' = Ended
    BY <2>1 DEF InHand, Ended, End
  <2>3. Append(calls, hand) \in Seq(Nat) /\ <<hand>> \in Seq(Nat)
        /\ Append(calls, hand) = calls \o <<hand>>
    BY <2>1, <1>s, AppendProperties, AppendIsConcat
  <2>4. (Sent0 \o Append(calls, hand)) \o <<>> = Sent0 \o Append(calls, hand)
    <3>1. Sent0 \o Append(calls, hand) \in Seq(Nat)
      BY <2>3, <1>c, ConcatProperties
    <3> QED BY <3>1, ConcatEmptySeq
  <2>5. Sent0 \o (calls \o <<hand>>) = (Sent0 \o calls) \o <<hand>>
    <3> DEFINE h == <<hand>>
    <3>1. Sent0 \in Seq(Nat) /\ calls \in Seq(Nat) /\ h \in Seq(Nat)
      BY <2>3, <1>c, <1>s
    <3> HIDE DEF Sent0, h
    <3>2. Sent0 \o (calls \o h) = (Sent0 \o calls) \o h
      BY <3>1, Regroup, Zenon
    <3> QED BY <3>2 DEF h
  <2> QED BY <2>1, <2>2, <2>3, <2>4, <2>5, <1>w DEF Whole, Due, Numbers
<1>5. CASE RunCallback
  <2>1. /\ Streaming /\ calls # <<>> /\ queue' = Append(queue, Head(calls)) /\ calls' = Tail(calls)
        /\ UNCHANGED <<worker, drive, produced, hand, got>>
    BY <1>5 DEF RunCallback, Streaming, workSide, readSide
  <2>2. InHand' = InHand /\ Ended' = Ended
    BY <2>1 DEF InHand, Ended, End
  <2>3. Append(queue, Head(calls)) \o Tail(calls) = queue \o calls
    BY <2>1, <1>s, MoveHead
  <2>4. Append(queue, Head(calls)) \in Seq(Nat) /\ Tail(calls) \in Seq(Nat)
    BY <2>1, <1>s, HeadTailProperties, AppendProperties
  <2>5. (got \o Append(queue, Head(calls))) \o Tail(calls)
        = got \o (Append(queue, Head(calls)) \o Tail(calls))
    <3> DEFINE q == Append(queue, Head(calls))
               c == Tail(calls)
    <3>1. got \in Seq(Nat) /\ q \in Seq(Nat) /\ c \in Seq(Nat)
      BY <2>4, <1>s
    <3> HIDE DEF q, c
    <3>2. (got \o q) \o c = got \o (q \o c)
      BY <3>1, Regroup, Zenon
    <3> QED BY <3>2 DEF q, c
  <2>6. got \o (queue \o calls) = (got \o queue) \o calls
    <3>1. got \in Seq(Nat) /\ queue \in Seq(Nat) /\ calls \in Seq(Nat)
      BY <1>s
    <3> QED BY <3>1, Regroup, Zenon
  <2> QED BY <2>1, <2>2, <2>3, <2>5, <2>6, <1>w DEF Whole, Due, Numbers
<1>6. CASE Start
  <2>1. /\ got = <<>> /\ queue = <<>> /\ calls = <<>> /\ produced = 0 /\ drive = "running"
        /\ worker' = "driving" /\ UNCHANGED <<got, queue, calls, produced, drive>>
    BY <1>6, <1>t DEF Start, handedOver, StreamInv, FreshInv, HandInv
  <2>2. InHand' = <<>> /\ Ended' = <<>> /\ produced' = 0 /\ calls' = <<>> /\ queue' = <<>> /\ got' = <<>>
    BY <2>1 DEF InHand, Ended
  <2>3. <<>> \o <<>> = <<>>
    BY EmptySeq, ConcatEmptySeq
  <2>4. Numbers(0) = <<>>
    <3>1. Numbers(0) \in Seq(Nat) /\ Len(Numbers(0)) = 0
      BY CountOn
    <3> QED BY <3>1, EmptySeq
  <2> QED BY <2>2, <2>3, <2>4 DEF Whole, Due, Numbers
<1>7. CASE Take
  <2>1. /\ Streaming /\ queue # <<>> /\ queue' = Tail(queue) /\ got' = Append(got, Head(queue))
        /\ UNCHANGED <<worker, drive, produced, hand, calls>>
    BY <1>7 DEF Take, Streaming, workSide
  <2>2. InHand' = InHand /\ Ended' = Ended
    BY <2>1 DEF InHand, Ended, End
  <2>3. Append(got, Head(queue)) \o Tail(queue) = got \o queue
    BY <2>1, <1>s, MoveHead
  <2> QED BY <2>1, <2>2, <2>3, <1>w DEF Whole, Due, Numbers
<1>8. CASE Wait \/ Keepalive \/ Sent
  <2>1. /\ Streaming /\ UNCHANGED <<worker, drive, produced, hand, got, queue, calls>>
    BY <1>8 DEF Wait, Keepalive, Sent, Streaming, workSide, handedOver
  <2>2. InHand' = InHand /\ Ended' = Ended
    BY <2>1 DEF InHand, Ended, End
  <2> QED BY <2>1, <2>2, <1>w DEF Whole, Due, Numbers
<1>9. CASE Leave \/ LoopCloses \/ ProcessExits
  BY <1>9 DEF Leave, LoopCloses, ProcessExits, Streaming
<1> QED BY <1>1, <1>2, <1>3, <1>4, <1>5, <1>6, <1>7, <1>8, <1>9 DEF Next, Worker, Reader

\* What an observer is still to be sent starts with what the queue holds first.
LEMMA InLine ==
  ASSUME IInv, reader \in {"asking", "waiting"}, queue # <<>>
  PROVE  LET rest == queue \o (calls \o InHand)
         IN  /\ rest \in Seq(Nat) /\ rest # <<>> /\ Head(rest) = Head(queue)
             /\ got \o rest = Numbers(produced) \o Ended
<1>t. TypeOK /\ StreamInv
  BY DEF IInv
<1>3. Streaming
  BY <1>t DEF Streaming, StreamInv, ServedInv
<1> DEFINE rest == queue \o (calls \o InHand)
<1>4. /\ got \in Seq(Nat) /\ queue \in Seq(Nat) /\ calls \in Seq(Nat) /\ InHand \in Seq(Nat)
  BY <1>t, Places
<1>5. calls \o InHand \in Seq(Nat) /\ rest \in Seq(Nat)
  BY <1>4, ConcatProperties
<1>6. got \o rest = got \o queue \o calls \o InHand
  <2>1. got \o queue \in Seq(Nat)
    BY <1>4, ConcatProperties
  <2>2. ((got \o queue) \o calls) \o InHand = (got \o queue) \o (calls \o InHand)
    BY <2>1, <1>4, Regroup, Zenon
  <2>3. (got \o queue) \o (calls \o InHand) = got \o (queue \o (calls \o InHand))
    <3> DEFINE c == calls \o InHand
    <3>1. got \in Seq(Nat) /\ queue \in Seq(Nat) /\ c \in Seq(Nat)
      BY <1>4, <1>5
    <3> HIDE DEF c
    <3>2. (got \o queue) \o c = got \o (queue \o c)
      BY <3>1, Regroup, Zenon
    <3> QED BY <3>2 DEF c
  <2> QED BY <2>2, <2>3
<1>7. rest # <<>> /\ Head(rest) = Head(queue)
  <2>1. Len(queue) \in Nat \ {0} /\ Len(calls \o InHand) \in Nat
    BY <1>4, <1>5, EmptySeq, LenProperties
  <2>2. Len(rest) = Len(queue) + Len(calls \o InHand) /\ rest[1] = queue[1]
    BY <1>4, <1>5, <2>1, ConcatProperties
  <2>3. rest # <<>>
    BY <2>1, <2>2, EmptySeq
  <2> QED BY <1>4, <1>5, <2>2, <2>3, HeadTailProperties
<1>8. got \o rest = Numbers(produced) \o Ended
  BY <1>3, <1>6 DEF IInv, NothingLost, Numbers
<1> QED BY <1>5, <1>7, <1>8

\* The reader ends on the end alone, and nothing follows it.
LEMMA EndStep ==
  ASSUME IInv, Next
  PROVE  EndMeansAll'
<1> USE MaxEventsAssumption
<1>t. TypeOK /\ StreamInv /\ EndMeansAll
  BY DEF IInv
<1> SUFFICES ASSUME reader' = "ended"
             PROVE  drive' # "running" /\ got' = Numbers(produced')
  BY DEF EndMeansAll, Numbers
<1>1. CASE reader = "ended"
  <2>1. drive # "running" /\ got = Numbers(produced) /\ worker \notin {"none", "driving"}
    BY <1>1, <1>t DEF EndMeansAll, Numbers, StreamInv, HandInv
  <2>2. UNCHANGED <<drive, produced, got>>
    BY <1>1, <2>1 DEF Next, Worker, Reader, DriveYields, DriveEnds, CheckObserver, Schedule,
       RunCallback, Start, Take, Wait, Keepalive, Sent, Leave, LoopCloses, ProcessExits,
       workSide, readSide
  <2> QED BY <2>1, <2>2
<1>2. CASE reader # "ended"
  <2>1. Take
    BY <1>2 DEF Next, Worker, Reader, DriveYields, DriveEnds, CheckObserver, Schedule,
       RunCallback, Start, Wait, Keepalive, Sent, Leave, LoopCloses, ProcessExits, readSide
  <2>2. /\ reader \in {"asking", "waiting"} /\ queue # <<>> /\ Head(queue) = End
        /\ UNCHANGED <<drive, produced, got>>
    BY <2>1 DEF Take, workSide
  <2> DEFINE rest == queue \o (calls \o InHand)
  <2>8. /\ rest \in Seq(Nat) /\ rest # <<>> /\ Head(rest) = End
        /\ got \o rest = Numbers(produced) \o Ended
    BY <2>2, InLine
  <2>9. produced \in 0..MaxEvents /\ got \in Seq(1..MaxEvents) /\ Ended \in {<<>>, <<End>>}
    BY <1>t DEF TypeOK, Ended
  <2> HIDE DEF rest
  <2>10. Ended # <<>> /\ got = Numbers(produced)
    BY <2>8, <2>9, EndComesLast
  <2> QED BY <2>2, <2>10 DEF Ended
<1> QED BY <1>1, <1>2

-----------------------------------------------------------------------------
\* The invariant is inductive.
LEMMA IInvInductive == IInv /\ [Next]_vars => IInv'
<1>1. ASSUME IInv, Next PROVE IInv'
  <2>1. TypeOK' /\ StreamInv' /\ EndMeansAll'
    BY <1>1, TypeStep, StreamStep, EndStep
  <2>2. NothingLost'
    BY <1>1, WholeStep DEF NothingLost, Whole, Due, Numbers
  <2> QED BY <2>1, <2>2 DEF IInv
<1>2. ASSUME IInv, UNCHANGED vars PROVE IInv'
  BY <1>2 DEF vars, IInv, TypeOK, StreamInv, FreshInv, HandInv, ServedInv, LateInv,
     NothingLost, EndMeansAll, Streaming, InHand, Ended
<1> QED BY <1>1, <1>2

LEMMA Invariant == Spec => []IInv
BY InitOK, IInvInductive, PTL DEF Spec

\* The worker, the loop and the reader keep their types, whatever interleaves.
THEOREM StreamTypeCorrect == Spec => []TypeOK
<1>1. IInv => TypeOK
  BY DEF IInv
<1> QED BY <1>1, Invariant, PTL

\* An observer who stays is sent, or is about to be sent, every event of the
\* drive in order and once, for any number of events.
THEOREM NothingLostHolds == Spec => []NothingLost
<1>1. IInv => NothingLost
  BY DEF IInv
<1> QED BY <1>1, Invariant, PTL

\* A stream that ends by itself has sent everything, and its drive is over.
THEOREM EndMeansAllHolds == Spec => []EndMeansAll
<1>1. IInv => EndMeansAll
  BY DEF IInv
<1> QED BY <1>1, Invariant, PTL

\* At most one entry is scheduled for an observer who has left.
THEOREM FewLateEntriesHolds == Spec => []FewLateEntries
<1>1. IInv => FewLateEntries
  BY DEF IInv, StreamInv, LateInv, FewLateEntries
<1> QED BY <1>1, Invariant, PTL
-----------------------------------------------------------------------------
\* The promise: what the observer is told.

LEMMA PromiseInit == Init => Promise!Init
BY DEF Init, Promise!Init

\* Each step of worker, loop and observer is a step of the promise or a stutter.
LEMMA PromiseStep == IInv /\ [Next]_vars => [Promise!Next]_(Promise!ovars)
<1> USE MaxEventsAssumption
<1> SUFFICES ASSUME IInv, [Next]_vars PROVE [Promise!Next]_(Promise!ovars)
  OBVIOUS
<1>t. TypeOK /\ StreamInv
  BY DEF IInv
<1>1. CASE DriveYields
  <2>1. drive = "running" /\ drive' = drive
    BY <1>1, <1>t DEF DriveYields, StreamInv, HandInv
  <2> QED BY <1>1, <2>1 DEF DriveYields, readSide, Promise!Next, Promise!Happen
<1>2. ASSUME NEW how \in {"stopped", "raised"}, DriveEnds(how)
      PROVE  [Promise!Next]_(Promise!ovars)
  <2>1. drive = "running" /\ drive' # "running"
    BY <1>2, <1>t DEF DriveEnds, StreamInv, HandInv
  <2> QED BY <1>2, <2>1 DEF DriveEnds, readSide, Promise!Next, Promise!Stop
<1>3. CASE CheckObserver \/ Schedule \/ RunCallback
  BY <1>3 DEF CheckObserver, Schedule, RunCallback, workSide, readSide, Promise!ovars
<1>4. CASE Start \/ Wait \/ Keepalive \/ Sent
  BY <1>4 DEF Start, Wait, Keepalive, Sent, workSide, Promise!ovars
<1>5. CASE Take
  <2>0. reader \in {"asking", "waiting"} /\ queue # <<>> /\ UNCHANGED <<drive, produced>>
    BY <1>5 DEF Take, workSide
  <2>1. CASE Head(queue) = End
    <3>1. reader' = "ended" /\ UNCHANGED got
      BY <1>5, <2>1 DEF Take
    <3>2. EndMeansAll'
      BY <1>5, EndStep DEF Next, Reader
    <3>3. drive # "running" /\ got = Numbers(produced) /\ produced \in Nat
      BY <2>0, <3>1, <3>2, <1>t DEF EndMeansAll, Numbers, TypeOK
    <3>4. Len(got) = produced
      BY <3>3, CountOn
    <3> QED BY <2>0, <3>1, <3>3, <3>4 DEF Promise!Next, Promise!Finish
  <2>2. CASE Head(queue) # End
    <3>1. reader' = "yielded" /\ got' = Append(got, Head(queue))
      BY <1>5, <2>2 DEF Take
    <3> DEFINE rest == queue \o (calls \o InHand)
    <3>2. /\ rest \in Seq(Nat) /\ rest # <<>> /\ Head(rest) = Head(queue)
          /\ got \o rest = Numbers(produced) \o Ended
      BY <2>0, InLine
    <3>3. produced \in 0..MaxEvents /\ got \in Seq(1..MaxEvents) /\ Ended \in {<<>>, <<End>>}
      BY <1>t DEF TypeOK, Ended
    <3> HIDE DEF rest
    <3>4. Head(rest) # End
      BY <2>2, <3>2
    <3>5. Len(got) < produced /\ Head(queue) = Len(got) + 1
      BY <3>2, <3>3, <3>4, NextInLine
    <3> QED BY <2>0, <3>1, <3>5 DEF Promise!Next, Promise!Tell
  <2> QED BY <2>1, <2>2
<1>6. CASE Leave
  BY <1>6 DEF Leave, workSide, Promise!Next, Promise!Cut
<1>7. CASE LoopCloses \/ ProcessExits
  <2>1. /\ UNCHANGED <<drive, produced, got>>
        /\ reader' = (IF reader = "ended" THEN "ended" ELSE "left")
    BY <1>7 DEF LoopCloses, ProcessExits, workSide
  <2>2. CASE reader \in {"ended", "left"}
    BY <2>1, <2>2 DEF Promise!ovars
  <2>3. CASE reader \notin {"ended", "left"}
    BY <2>1, <2>3 DEF Promise!Next, Promise!Cut
  <2> QED BY <2>2, <2>3
<1>8. CASE UNCHANGED vars
  BY <1>8 DEF vars, Promise!ovars
<1> QED BY <1>1, <1>2, <1>3, <1>4, <1>5, <1>6, <1>7, <1>8 DEF Next, Worker, Reader

\* The stream implements ObservedDrive for any number of events: what the
\* observer is told is the drive as it happens, in order and without gaps,
\* whatever thread, loop and queue do in between (service.py, _bridge).
THEOREM TellsTheDriveHolds == Spec => TellsTheDrive
<1> QED BY PromiseInit, PromiseStep, Invariant, PTL DEF Spec, TellsTheDrive, Promise!Spec
=============================================================================
