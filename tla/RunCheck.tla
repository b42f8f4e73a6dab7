------------------------------- MODULE RunCheck -------------------------------
(***************************************************************************)
(* One bounded check command: _run_bounded_check of slimx_agent/service.py *)
(* and the processes it starts.  The command's leader and its descendants  *)
(* run, write to the pipe, close it, leave the process group by starting   *)
(* their own session, and exit, between any two steps of the runner; the   *)
(* deadline passes when it passes.  The processes run with the runner's    *)
(* credentials, so that killpg reaches every member of the group.          *)
(***************************************************************************)
EXTENDS Integers, FiniteSetsExt

CONSTANTS
  Children,    \* the processes the command may start
  OutputCap,   \* output_cap, in bytes
  ChunkBytes,  \* _READ_CHUNK_BYTES
  PipeBytes,   \* what the pipe holds
  MaxOutput    \* most bytes the processes write

ASSUME RunCheckAssumption ==
  /\ "leader" \notin Children
  /\ {OutputCap, ChunkBytes, PipeBytes} \subseteq Nat \ {0} /\ MaxOutput \in Nat

VARIABLES
  \* --- the processes
  state,      \* "none", "group", "escaped", "exited" (the leader: not reaped), "reaped"
  code,       \* the leader's return code: "none", "own" or "killed"
  holders,    \* who holds the pipe's writing end
  written,    \* bytes written so far
  buffered,   \* of these, bytes still in the pipe
  expired,    \* the deadline has passed
  \* --- the runner
  pc,
  retained,   \* bytes kept: the first ones of the output
  truncated,
  timedOut,
  exitCode    \* of the CheckResult; "raised" when there is none
system == <<state, code, holders, written, buffered, expired>>
runner == <<pc, retained, truncated, timedOut, exitCode>>
vars == <<system, runner>>

Procs == Children \cup {"leader"}
Alive(p) == state[p] \in {"group", "escaped"}

\* Bytes the runner has read from the pipe.
Taken == written - buffered

-----------------------------------------------------------------------------
\* The processes and the clock.

Spawn(parent, child) ==
  /\ Alive(parent) /\ child \in Children /\ state[child] = "none"
  /\ state' = [state EXCEPT ![child] = state[parent]]
  /\ \/ holders' = holders
     \/ parent \in holders /\ holders' = holders \cup {child}
  /\ UNCHANGED <<code, written, buffered, expired, runner>>

\* A session or a process group of its own; a session's leader gets neither.
Escape(child) ==
  /\ child \in Children /\ state[child] = "group"
  /\ state' = [state EXCEPT ![child] = "escaped"]
  /\ UNCHANGED <<code, holders, written, buffered, expired, runner>>

CloseOutput(p) ==
  /\ p \in holders /\ holders' = holders \ {p}
  /\ UNCHANGED <<state, code, written, buffered, expired, runner>>

Write(p, n) ==
  /\ p \in holders
  /\ buffered + n <= PipeBytes /\ written + n <= MaxOutput
  /\ buffered' = buffered + n /\ written' = written + n
  /\ UNCHANGED <<state, code, holders, expired, runner>>

Exit(p) ==
  /\ Alive(p)
  /\ state' = [state EXCEPT ![p] = "exited"]
  /\ holders' = holders \ {p}
  /\ code' = IF p = "leader" THEN "own" ELSE code
  /\ UNCHANGED <<written, buffered, expired, runner>>

DeadlinePasses ==
  /\ ~expired /\ pc # "start" /\ expired' = TRUE
  /\ UNCHANGED <<state, code, holders, written, buffered, runner>>

Processes ==
  \/ \E p \in Procs :
       \/ CloseOutput(p) \/ Exit(p)
       \/ \E n \in 1..PipeBytes : Write(p, n)
       \/ \E c \in Children : Spawn(p, c)
  \/ \E c \in Children : Escape(c)
  \/ DeadlinePasses

-----------------------------------------------------------------------------
\* The runner.

Goto(p) == pc' = p /\ UNCHANGED <<retained, truncated, exitCode>>

\* Popen with start_new_session, or an OSError: the command could not start.
Popen ==
  /\ pc = "start"
  /\ \/ /\ state' = [state EXCEPT !["leader"] = "group"] /\ holders' = {"leader"}
        /\ Goto("loop")
     \/ /\ pc' = "done" /\ exitCode' = "raised"
        /\ UNCHANGED <<state, holders, retained, truncated>>
  /\ UNCHANGED <<code, written, buffered, expired, timedOut>>

CheckDeadline ==
  /\ pc = "loop"
  /\ IF expired THEN timedOut' = TRUE /\ Goto("kill")
     ELSE Goto("select") /\ UNCHANGED timedOut
  /\ UNCHANGED system

\* Bytes in the pipe, or its end.
Readable == buffered > 0 \/ holders = {}

SelectReady ==
  pc = "select" /\ Readable /\ Goto("read") /\ UNCHANGED <<system, timedOut>>

SelectUntimed ==
  /\ pc = "select" /\ expired /\ Readable
  /\ Goto("loop") /\ UNCHANGED <<system, timedOut>>
SelectExpires ==
  /\ pc = "select" /\ expired /\ ~Readable
  /\ Goto("loop") /\ UNCHANGED <<system, timedOut>>

RetainMarksFull(n) ==
  LET room == OutputCap - retained IN
  /\ retained' = retained + (IF room > 0 THEN Min({n, room}) ELSE 0)
  /\ truncated' = (truncated \/ n >= Max({room, 0}))
\* Retain what there is room for, drain and discard the rest.
Retain(n) ==
  LET room == OutputCap - retained IN
  /\ retained' = retained + (IF room > 0 THEN Min({n, room}) ELSE 0)
  /\ truncated' = (truncated \/ n > Max({room, 0}))

\* os.read: the pipe's bytes up to a chunk, nothing at its end.
Read ==
  /\ pc = "read"
  /\ IF buffered = 0
     THEN Goto("waitid") /\ UNCHANGED buffered
     ELSE LET n == Min({buffered, ChunkBytes}) IN
          /\ buffered' = buffered - n /\ Retain(n)
          /\ pc' = "loop" /\ UNCHANGED exitCode
  /\ UNCHANGED <<state, code, holders, written, expired, timedOut>>

\* An exception in the reading loop; the finally clause runs all the same.
ReadingFails ==
  /\ pc \in {"select", "read"}
  /\ pc' = "kill" /\ exitCode' = "raised"
  /\ UNCHANGED <<system, retained, truncated, timedOut>>

WaitReapsLeader ==
  /\ pc = "waitid"
  /\ IF state["leader"] = "exited"
     THEN Goto("kill") /\ state' = [state EXCEPT !["leader"] = "reaped"]
     ELSE Goto("clock") /\ UNCHANGED state
  /\ UNCHANGED <<code, holders, written, buffered, expired, timedOut>>
ExitAssumed == pc = "waitid" /\ Goto("kill") /\ UNCHANGED <<system, timedOut>>
\* _group_leader_exited_by: WNOWAIT leaves the leader unreaped.
WaitLeader ==
  /\ pc = "waitid"
  /\ IF state["leader"] = "exited" THEN Goto("kill") ELSE Goto("clock")
  /\ UNCHANGED <<system, timedOut>>

WaitClock ==
  /\ pc = "clock"
  /\ IF expired THEN timedOut' = TRUE /\ Goto("kill")
     ELSE Goto("waitid") /\ UNCHANGED timedOut
  /\ UNCHANGED system

KillThese(doomed) ==
  /\ state' = [p \in Procs |-> IF p \in doomed THEN "exited" ELSE state[p]]
  /\ holders' = holders \ doomed
  /\ code' = IF "leader" \in doomed THEN "killed" ELSE code
KillLeaderOnly ==
  /\ pc = "kill" /\ KillThese({p \in {"leader"} : state[p] = "group"})
  /\ Goto("reap")
  /\ UNCHANGED <<written, buffered, expired, timedOut>>
\* _kill_process_group: SIGKILL for whoever is in the group.
KillGroup ==
  /\ pc = "kill" /\ KillThese({p \in Procs : state[p] = "group"})
  /\ Goto("reap")
  /\ UNCHANGED <<written, buffered, expired, timedOut>>

\* stdout.close and process.wait.
Reap ==
  /\ pc = "reap" /\ state["leader"] = "exited"
  /\ state' = [state EXCEPT !["leader"] = "reaped"]
  /\ holders' = {}
  /\ pc' = "done"
  /\ exitCode' = CASE exitCode = "raised" -> "raised"
                   [] exitCode # "raised" /\ timedOut  -> "none"
                   [] exitCode # "raised" /\ ~timedOut -> code
  /\ UNCHANGED <<code, written, buffered, expired, retained, truncated, timedOut>>

Proceeds ==
  \/ Popen \/ CheckDeadline \/ SelectReady \/ SelectExpires \/ Read
  \/ WaitLeader \/ WaitClock \/ KillGroup \/ Reap

Runner == Proceeds \/ ReadingFails

-----------------------------------------------------------------------------
Init ==
  /\ state = [p \in Procs |-> "none"] /\ code = "none" /\ holders = {}
  /\ written = 0 /\ buffered = 0 /\ expired = FALSE
  /\ pc = "start" /\ retained = 0 /\ truncated = FALSE /\ timedOut = FALSE
  /\ exitCode = "none"

Next == Runner \/ Processes

Spec == Init /\ [][Next]_vars

\* The runner's thread runs; nothing is assumed of the processes or the clock, and
\* no exception is owed to anyone.
FairSpec == Spec /\ WF_vars(Proceeds)

-----------------------------------------------------------------------------
\* Each thing has its type; who writes to the pipe is alive.
TypeOK ==
  /\ state \in [Procs -> {"none", "group", "escaped", "exited", "reaped"}]
  /\ code \in {"none", "own", "killed"}
  /\ holders \subseteq {p \in Procs : Alive(p)}
  /\ written \in 0..MaxOutput /\ buffered \in 0..PipeBytes /\ expired \in BOOLEAN
  /\ pc \in {"start", "loop", "select", "read", "waitid", "clock", "kill", "reap", "done"}
  /\ retained \in 0..OutputCap /\ truncated \in BOOLEAN /\ timedOut \in BOOLEAN
  /\ exitCode \in {"none", "own", "killed", "raised"}

\* No member of the command's group outlives the call, whichever way it ends and
\* whoever forked, exited or closed the pipe first (service.py, the finally clause).
NoneSurvive == pc = "done" => \A p \in Procs : state[p] # "group"

\* The group is killed while its leader is not reaped, so that its id cannot
\* belong to anyone else by then (service.py, WNOWAIT).
GroupIdOurs == pc = "kill" => state["leader"] \in {"group", "exited"}

\* The result never passes the runner's own SIGKILL off as the command's exit: an
\* exit code is the leader's own, and there is none exactly if the deadline passed
\* (service.py, CheckResult).
HonestExit ==
  pc = "done" /\ exitCode # "raised" =>
    IF timedOut THEN exitCode = "none" /\ expired ELSE exitCode = "own"

\* The output kept is the first OutputCap bytes of what was read, it is marked
\* truncated exactly if bytes were discarded, and a check that did not time out has
\* read all that any of its processes ever wrote (service.py, the reading loop).
OutputAccounted ==
  /\ retained = Min({Taken, OutputCap}) /\ truncated = (Taken > OutputCap)
  /\ pc = "done" /\ exitCode # "raised" /\ ~timedOut => buffered = 0

\* How many steps the runner has left at most once the deadline has passed.
StepsLeft(p) ==
  CASE p = "select"            -> 6
    [] p = "read"              -> 5
    [] p = "waitid"            -> 4
    [] p \in {"loop", "clock"} -> 3
    [] p = "kill"              -> 2
    [] p = "reap"              -> 1
    [] p \in {"start", "done"} -> 0

\* Past the deadline the runner makes at most six more steps, whatever its processes
\* write, fork, close or exit meanwhile, and the last of them does not wait: the
\* leader is dead by then (service.py, the deadline checks and process.wait).
WindsUp ==
  [][expired => /\ UNCHANGED runner \/ StepsLeft(pc') < StepsLeft(pc)
                /\ pc' = "reap" => state'["leader"] = "exited"]_vars

\* Past the deadline the call returns, even if a process that left the group holds
\* the pipe open for ever.
CallEnds == expired ~> (pc = "done")
=============================================================================
