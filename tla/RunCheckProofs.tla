---------------------------- MODULE RunCheckProofs ----------------------------
(***************************************************************************)
(* The safety of the bounded check command, for any number of processes    *)
(* and any sizes: nothing survives it, its exit code is the command's own, *)
(* and its output is accounted for to the byte.                            *)
(***************************************************************************)
EXTENDS RunCheck, TLAPS

\* The community modules' Min and Max of two numbers.
LEMMA MinOfTwo ==
  ASSUME NEW a \in Int, NEW b \in Int
  PROVE  Min({a, b}) = IF a < b THEN a ELSE b
<1> DEFINE m == IF a < b THEN a ELSE b
<1>1. m \in {a, b} /\ \A x \in {a, b} : m <= x
  OBVIOUS
<1>2. \A y \in {a, b} : (\A x \in {a, b} : y <= x) => y = m
  OBVIOUS
<1> QED BY <1>1, <1>2 DEF Min

LEMMA MaxOfTwo ==
  ASSUME NEW a \in Int, NEW b \in Int
  PROVE  Max({a, b}) = IF a < b THEN b ELSE a
<1> DEFINE m == IF a < b THEN b ELSE a
<1>1. m \in {a, b} /\ \A x \in {a, b} : m >= x
  OBVIOUS
<1>2. \A y \in {a, b} : (\A x \in {a, b} : y >= x) => y = m
  OBVIOUS
<1> QED BY <1>1, <1>2 DEF Max

-----------------------------------------------------------------------------
\* The runner waits for the leader after the end of the output.
Waiting == {"waitid", "clock"}

\* Bytes are kept up to the cap; what is read of them was written.
OutputInv ==
  /\ Taken \in Nat
  /\ retained = (IF Taken < OutputCap THEN Taken ELSE OutputCap)
  /\ truncated = (Taken > OutputCap)

\* The leader is the command's until it is killed, and not reaped before the end.
LeaderInv ==
  /\ pc = "start" => \A p \in Procs : state[p] = "none"
  /\ pc \notin {"start", "done"} => state["leader"] \in {"group", "exited"}
  /\ state["leader"] = "exited" /\ pc # "reap" => code = "own"
  /\ pc \in {"reap", "done"} => \A p \in Procs : state[p] # "group"

\* Once the end of the output was seen there is no more of it; the deadline is
\* found passed only when it has.
EndInv ==
  /\ pc \in Waiting => buffered = 0 /\ holders = {}
  /\ timedOut => expired /\ pc \in {"kill", "reap", "done"}
  /\ exitCode = "raised" => pc \in {"kill", "reap", "done"}
  /\ pc # "done" => exitCode \in {"none", "raised"}
  /\ pc = "read" => Readable
  /\ pc \in {"kill", "reap"} /\ ~timedOut /\ exitCode # "raised" =>
       /\ state["leader"] = "exited" /\ code = "own"
       /\ buffered = 0 /\ holders = {}
  /\ pc = "done" /\ exitCode # "raised" =>
       IF timedOut THEN exitCode = "none"
       ELSE exitCode = "own" /\ buffered = 0 /\ holders = {}

IInv == TypeOK /\ OutputInv /\ LeaderInv /\ EndInv

LEMMA Sizes ==
  OutputCap \in Nat /\ OutputCap > 0 /\ ChunkBytes \in Nat /\ ChunkBytes > 0
    /\ PipeBytes \in Nat /\ MaxOutput \in Nat
BY RunCheckAssumption

LEMMA InvInit == ASSUME Init PROVE IInv
<1>1. TypeOK
  <2>1. {p \in Procs : Alive(p)} = {}
    BY DEF Init, Alive
  <2>2. state \in [Procs -> {"none", "group", "escaped", "exited", "reaped"}]
    BY DEF Init
  <2>3. holders \subseteq {p \in Procs : Alive(p)} /\ written = 0 /\ buffered = 0
    BY <2>1 DEF Init
  <2>4. /\ written \in 0..MaxOutput /\ buffered \in 0..PipeBytes
        /\ retained \in 0..OutputCap
    BY <2>3, Sizes DEF Init
  <2>5. /\ code = "none" /\ expired = FALSE /\ pc = "start" /\ truncated = FALSE
        /\ timedOut = FALSE /\ exitCode = "none"
    BY DEF Init
  <2> QED BY <2>2, <2>3, <2>4, <2>5 DEF TypeOK
<1>2. OutputInv
  <2>1. Taken = 0 /\ (Taken > OutputCap) = FALSE
    BY Sizes DEF Init, Taken
  <2> QED BY <2>1, Sizes DEF Init, OutputInv
<1>3. LeaderInv
  BY DEF Init, LeaderInv, Procs
<1>4. EndInv
  BY DEF Init, EndInv, Waiting
<1> QED BY <1>1, <1>2, <1>3, <1>4 DEF IInv

\* Whatever the processes do, short of writing, leaves the output alone.
LEMMA OutputStays ==
  ASSUME OutputInv, UNCHANGED <<written, buffered, retained, truncated>>
  PROVE  OutputInv'
BY DEF OutputInv, Taken

LEMMA InvProcesses == ASSUME IInv, Processes PROVE IInv'
<1> USE DEF IInv, runner
<1>1. ASSUME NEW p \in Procs, CloseOutput(p) PROVE IInv'
  <2>1. TypeOK'
    BY <1>1 DEF CloseOutput, TypeOK, Alive
  <2>2. OutputInv'
    BY <1>1, OutputStays DEF CloseOutput
  <2>3. LeaderInv'
    BY <1>1 DEF CloseOutput, LeaderInv
  <2>4. EndInv'
    BY <1>1 DEF CloseOutput, EndInv, Waiting, Readable
  <2> QED BY <2>1, <2>2, <2>3, <2>4
<1>2. ASSUME NEW p \in Procs, Exit(p) PROVE IInv'
  <2>1. TypeOK'
    BY <1>2 DEF Exit, TypeOK, Alive
  <2>2. OutputInv'
    BY <1>2, OutputStays DEF Exit
  <2>3. LeaderInv'
    BY <1>2 DEF Exit, LeaderInv, TypeOK, Alive, Procs
  <2>4. EndInv'
    BY <1>2 DEF Exit, EndInv, Waiting, Readable, TypeOK, Alive, Procs, LeaderInv
  <2> QED BY <2>1, <2>2, <2>3, <2>4
<1>3. ASSUME NEW p \in Procs, NEW n \in 1..PipeBytes, Write(p, n) PROVE IInv'
  <2>1. TypeOK'
    BY <1>3 DEF Write, TypeOK, Alive
  <2>2. OutputInv'
    BY <1>3 DEF Write, TypeOK, OutputInv, Taken
  <2>3. LeaderInv'
    BY <1>3 DEF Write, LeaderInv
  <2>4. EndInv'
    BY <1>3 DEF Write, EndInv, Waiting, Readable, TypeOK
  <2> QED BY <2>1, <2>2, <2>3, <2>4
<1>4. ASSUME NEW p \in Procs, NEW c \in Children, Spawn(p, c) PROVE IInv'
  <2>1. TypeOK'
    BY <1>4 DEF Spawn, TypeOK, Alive, Procs
  <2>2. OutputInv'
    BY <1>4, OutputStays DEF Spawn
  <2>3. LeaderInv'
    BY <1>4 DEF Spawn, LeaderInv, TypeOK, Alive, Procs
  <2>4. EndInv'
    BY <1>4 DEF Spawn, EndInv, Waiting, Readable, TypeOK, Alive, Procs
  <2> QED BY <2>1, <2>2, <2>3, <2>4
<1>5. ASSUME NEW c \in Children, Escape(c) PROVE IInv'
  <2>1. TypeOK'
    BY <1>5 DEF Escape, TypeOK, Alive, Procs
  <2>2. OutputInv'
    BY <1>5, OutputStays DEF Escape
  <2>3. LeaderInv'
    BY <1>5, RunCheckAssumption DEF Escape, LeaderInv, TypeOK, Procs
  <2>4. EndInv'
    BY <1>5 DEF Escape, EndInv, Waiting, Readable, TypeOK, Procs
  <2> QED BY <2>1, <2>2, <2>3, <2>4
<1>6. CASE DeadlinePasses
  <2>1. TypeOK'
    BY <1>6 DEF DeadlinePasses, TypeOK, Alive
  <2>2. OutputInv'
    BY <1>6, OutputStays DEF DeadlinePasses
  <2>3. LeaderInv' /\ EndInv'
    BY <1>6 DEF DeadlinePasses, LeaderInv, EndInv, Waiting, Readable
  <2> QED BY <2>1, <2>2, <2>3
<1> QED BY <1>1, <1>2, <1>3, <1>4, <1>5, <1>6 DEF Processes

\* The runner's steps that neither read nor kill leave the rest in place.
LEMMA InvWaits ==
  ASSUME IInv, CheckDeadline \/ SelectReady \/ SelectExpires \/ ReadingFails
               \/ WaitLeader \/ WaitClock
  PROVE  IInv'
<1> USE DEF IInv, system, Goto, CheckDeadline, SelectReady, SelectExpires, ReadingFails,
            WaitLeader, WaitClock
<1>1. TypeOK'
  BY DEF TypeOK, Alive
<1>2. OutputInv'
  BY OutputStays
<1>3. LeaderInv'
  BY DEF LeaderInv
<1>4. EndInv'
  BY DEF EndInv, Waiting, Readable, TypeOK, LeaderInv
<1> QED BY <1>1, <1>2, <1>3, <1>4

LEMMA InvRead == ASSUME IInv, Read PROVE IInv'
<1> USE DEF IInv
<1>1. CASE buffered = 0
  <2>1. TypeOK'
    BY <1>1 DEF Read, Goto, TypeOK, Alive
  <2>2. OutputInv'
    BY <1>1, OutputStays DEF Read, Goto
  <2>3. LeaderInv' /\ EndInv'
    BY <1>1 DEF Read, Goto, LeaderInv, EndInv, Waiting, Readable, TypeOK
  <2> QED BY <2>1, <2>2, <2>3
<1>2. CASE buffered # 0
  <2> DEFINE n == Min({buffered, ChunkBytes})
  <2>1. n \in 1..buffered
    <3>1. buffered \in Nat
      BY Sizes DEF TypeOK
    <3>2. n = IF buffered < ChunkBytes THEN buffered ELSE ChunkBytes
      BY <3>1, Sizes, MinOfTwo
    <3> QED BY <1>2, <3>1, <3>2, Sizes
  <2>2. /\ buffered' = buffered - n /\ Retain(n) /\ pc' = "loop"
        /\ UNCHANGED <<state, code, holders, written, expired, timedOut, exitCode>>
        /\ pc = "read"
    BY <1>2 DEF Read
  <2>3. Taken' = Taken + n /\ retained \in Nat /\ retained <= OutputCap
    BY <2>1, <2>2, Sizes DEF Taken, TypeOK
  <2>4. /\ retained' = IF n < OutputCap - retained THEN retained + n ELSE OutputCap
        /\ truncated' = (truncated \/ n > OutputCap - retained)
    <3> HIDE DEF n
    <3>1. OutputCap - retained \in Nat /\ n \in Nat
      BY <2>1, <2>3, Sizes
    <3>2. Max({OutputCap - retained, 0}) = OutputCap - retained
      BY <3>1, MaxOfTwo
    <3>3. Min({n, OutputCap - retained})
            = IF n < OutputCap - retained THEN n ELSE OutputCap - retained
      BY <3>1, MinOfTwo
    <3> QED BY <2>2, <2>3, <3>1, <3>2, <3>3, Sizes DEF Retain
  <2> HIDE DEF n
  <2>5. OutputInv'
    <3>1. Taken \in Nat /\ n \in Nat /\ n > 0 /\ Taken' = Taken + n
      BY <2>1, <2>3 DEF OutputInv, TypeOK
    <3>2. retained' = IF Taken' < OutputCap THEN Taken' ELSE OutputCap
      BY <2>4, <3>1, Sizes DEF OutputInv
    <3>3. (truncated \/ n > OutputCap - retained) <=> Taken + n > OutputCap
      <4>1. truncated <=> Taken > OutputCap
        BY DEF OutputInv
      <4>2. CASE Taken < OutputCap
        BY <3>1, <4>1, <4>2, Sizes DEF OutputInv
      <4>3. CASE Taken >= OutputCap
        <5>1. retained = OutputCap
          BY <3>1, <4>3, Sizes DEF OutputInv
        <5> QED BY <3>1, <4>1, <4>3, <5>1, Sizes
      <4> QED BY <3>1, <4>2, <4>3, Sizes
    <3>4. truncated' = (Taken' > OutputCap)
      <4>1. truncated' \in BOOLEAN
        BY <2>4
      <4> QED BY <2>4, <3>1, <3>3, <4>1
    <3> QED BY <3>1, <3>2, <3>4 DEF OutputInv
  <2>6. TypeOK'
    <3>1. retained' \in 0..OutputCap
      BY <2>1, <2>3, <2>4, Sizes
    <3>2. buffered' \in 0..PipeBytes
      BY <2>1, <2>2, Sizes DEF TypeOK
    <3>3. truncated' \in BOOLEAN
      BY <2>4
    <3>4. {p \in Procs : Alive(p)}' = {p \in Procs : Alive(p)}
      BY <2>2 DEF Alive, Procs
    <3> QED BY <2>2, <3>1, <3>2, <3>3, <3>4 DEF TypeOK
  <2>7. LeaderInv' /\ EndInv'
    BY <2>2 DEF LeaderInv, EndInv, Waiting, Readable
  <2> QED BY <2>5, <2>6, <2>7
<1> QED BY <1>1, <1>2

LEMMA InvEnds == ASSUME IInv, Popen \/ KillGroup \/ Reap PROVE IInv'
<1> USE DEF IInv
<1>1. OutputInv'
  BY OutputStays DEF Popen, KillGroup, Reap, Goto
<1>2. CASE Popen
  <2>1. TypeOK'
    BY <1>2 DEF Popen, Goto, TypeOK, Alive, Procs, LeaderInv
  <2>2. LeaderInv'
    BY <1>2 DEF Popen, Goto, TypeOK, LeaderInv, Procs
  <2>3. EndInv'
    BY <1>2 DEF Popen, Goto, EndInv, Waiting, Readable
  <2> QED BY <1>1, <2>1, <2>2, <2>3
<1>3. CASE KillGroup
  <2>1. TypeOK'
    BY <1>3 DEF KillGroup, KillThese, Goto, TypeOK, Alive
  <2>2. LeaderInv'
    BY <1>3 DEF KillGroup, KillThese, Goto, TypeOK, LeaderInv, Procs
  <2>3. EndInv'
    BY <1>3 DEF KillGroup, KillThese, Goto, EndInv, Waiting, Readable, TypeOK, Procs
  <2> QED BY <1>1, <2>1, <2>2, <2>3
<1>4. CASE Reap
  <2>1. TypeOK'
    BY <1>4 DEF Reap, TypeOK, Alive, Procs
  <2>2. LeaderInv'
    BY <1>4 DEF Reap, TypeOK, LeaderInv, Procs
  <2>3. EndInv'
    BY <1>4 DEF Reap, EndInv, Waiting, Readable
  <2> QED BY <1>1, <2>1, <2>2, <2>3
<1> QED BY <1>2, <1>3, <1>4

LEMMA InvStep == ASSUME IInv, [Next]_vars PROVE IInv'
<1>1. CASE UNCHANGED vars
  BY <1>1 DEF vars, system, runner, IInv, TypeOK, Alive, OutputInv, Taken, LeaderInv,
    EndInv, Waiting, Readable
<1> QED BY <1>1, InvProcesses, InvWaits, InvRead, InvEnds DEF Next, Runner, Proceeds

LEMMA InvHolds == Spec => []IInv
<1>1. Init => IInv
  BY InvInit
<1>2. IInv /\ [Next]_vars => IInv'
  BY InvStep
<1> QED BY <1>1, <1>2, PTL DEF Spec

\* Each variable of the check keeps its type.
THEOREM RunCheckTypeCorrect == Spec => []TypeOK
BY InvHolds, PTL DEF IInv

\* No member of the group outlives the call.
THEOREM NoneSurviveHolds == Spec => []NoneSurvive
<1>1. IInv => NoneSurvive
  BY DEF IInv, LeaderInv, NoneSurvive
<1> QED BY <1>1, InvHolds, PTL

\* The group id killed is still the command's own.
THEOREM GroupIdOursHolds == Spec => []GroupIdOurs
<1>1. IInv => GroupIdOurs
  BY DEF IInv, LeaderInv, GroupIdOurs
<1> QED BY <1>1, InvHolds, PTL

\* An exit code is the leader's own, and there is none exactly after a timeout.
THEOREM HonestExitHolds == Spec => []HonestExit
<1>1. IInv => HonestExit
  BY DEF IInv, EndInv, HonestExit
<1> QED BY <1>1, InvHolds, PTL

\* The deadline runs from the start of the command.
LEMMA NotExpiredYet == Spec => [](pc = "start" => ~expired)
<1>1. Init => ~expired
  BY DEF Init
<1>2. ASSUME pc = "start" => ~expired, [Next]_vars PROVE (pc = "start" => ~expired)'
  <2>1. CASE Processes
    BY <1>2, <2>1 DEF Processes, CloseOutput, Exit, Write, Spawn, Escape, DeadlinePasses,
      runner
  <2>2. CASE Runner
    <3>1. pc' # "start"
      BY <2>2 DEF Runner, Proceeds, Goto, Popen, CheckDeadline, SelectReady, SelectExpires,
        Read, WaitLeader, WaitClock, KillGroup, Reap, ReadingFails
    <3> QED BY <3>1
  <2>3. CASE UNCHANGED vars
    BY <1>2, <2>3 DEF vars, system, runner
  <2> QED BY <1>2, <2>1, <2>2, <2>3 DEF Next
<1> QED BY <1>1, <1>2, PTL DEF Spec

\* Past the deadline the runner winds up, whatever its processes do.
THEOREM WindsUpHolds == Spec => WindsUp
<1> DEFINE Past == expired => /\ UNCHANGED runner \/ StepsLeft(pc') < StepsLeft(pc)
                              /\ pc' = "reap" => state'["leader"] = "exited"
<1>1. ASSUME IInv', Next, expired, pc # "start" PROVE Past
  <2>1. UNCHANGED runner \/ StepsLeft(pc') < StepsLeft(pc)
    <3>1. CASE Processes
      BY <3>1 DEF Processes, CloseOutput, Exit, Write, Spawn, Escape, DeadlinePasses
    <3>2. CASE Runner
      <4>1. CASE CheckDeadline \/ WaitClock
        <5>1. pc \in {"loop", "clock"} /\ pc' = "kill"
          BY <1>1, <4>1 DEF CheckDeadline, WaitClock, Goto
        <5> QED BY <5>1 DEF StepsLeft
      <4>2. CASE WaitLeader
        <5>1. pc = "waitid" /\ pc' \in {"kill", "clock"}
          BY <4>2 DEF WaitLeader, Goto
        <5> QED BY <5>1 DEF StepsLeft
      <4>3. CASE KillGroup \/ Reap
        <5>1. \/ pc = "kill" /\ pc' = "reap"
              \/ pc = "reap" /\ pc' = "done"
          BY <4>3 DEF KillGroup, Reap, Goto
        <5> QED BY <5>1 DEF StepsLeft
      <4>4. CASE SelectReady \/ SelectExpires \/ ReadingFails
        BY <4>4 DEF SelectReady, SelectExpires, ReadingFails, Goto, StepsLeft
      <4>5. CASE Read
        <5>1. pc = "read" /\ pc' \in {"waitid", "loop"}
          BY <4>5 DEF Read, Goto
        <5> QED BY <5>1 DEF StepsLeft
      <4> QED BY <1>1, <3>2, <4>1, <4>2, <4>3, <4>4, <4>5
        DEF Runner, Proceeds, Popen
    <3> QED BY <1>1, <3>1, <3>2 DEF Next
  <2>2. pc' = "reap" => state'["leader"] = "exited"
    BY <1>1 DEF IInv, LeaderInv, Procs
  <2> QED BY <2>1, <2>2
<1>2. IInv' /\ (pc = "start" => ~expired) /\ [Next]_vars => [Past]_vars
  BY <1>1
<1> QED BY <1>2, InvHolds, NotExpiredYet, PTL DEF Spec, WindsUp

\* The output is accounted for to the byte, at any cap and chunk size.
THEOREM OutputAccountedHolds == Spec => []OutputAccounted
<1>1. IInv => OutputAccounted
  <2> SUFFICES ASSUME IInv PROVE OutputAccounted
    OBVIOUS
  <2>1. Min({Taken, OutputCap}) = IF Taken < OutputCap THEN Taken ELSE OutputCap
    BY MinOfTwo, Sizes DEF IInv, OutputInv
  <2> QED BY <2>1 DEF IInv, OutputInv, EndInv, OutputAccounted
<1> QED BY <1>1, InvHolds, PTL
=============================================================================
