----------------------------- MODULE StreamBridge -----------------------------
(***************************************************************************)
(* The event stream of a run: _bridge of slimx_agent/service.py between    *)
(* the worker thread that drives the run and the event loop that serves    *)
(* the observer.  The worker publishes each event with                     *)
(* call_soon_threadsafe, the loop puts it in the queue, the reader takes   *)
(* it from there or sends a keepalive.  Observers leave, the loop closes   *)
(* and the process exits at any moment.                                    *)
(***************************************************************************)
EXTENDS Naturals, Sequences

CONSTANT MaxEvents    \* most events one drive yields
ASSUME MaxEventsAssumption == MaxEvents \in Nat

VARIABLES
  worker,    \* the worker thread: where it is in work()
  drive,     \* the generator it drives: "running", "stopped" or "raised"
  produced,  \* events the drive has yielded; they are numbered from 1
  hand,      \* the entry being published
  gone,      \* observer_gone
  loopOpen,
  calls,     \* put_nowait callbacks scheduled on the loop
  queue,
  reader,    \* the async generator the response iterates
  got,       \* what the observer was sent, keepalives aside
  late       \* entries scheduled after observer_gone was set
vars ==
  <<worker, drive, produced, hand, gone, loopOpen, calls, queue, reader, got, late>>

Nothing == 0
End     == MaxEvents + 1    \* the None that ends the stream
Entries == 1..End

workSide   == <<worker, drive, produced, hand>>
readSide   == <<reader, got>>
handedOver == <<calls, queue, late>>

Backlog == Len(calls) + Len(queue)

-----------------------------------------------------------------------------
\* The worker.

\* The worker thread starts with the first iteration of the response.
Start ==
  /\ reader = "unstarted" /\ reader' = "asking"
  /\ worker = "none" /\ worker' = "driving"
  /\ UNCHANGED <<drive, produced, hand, gone, loopOpen, handedOver, got>>

DriveYields ==
  /\ worker = "driving" /\ produced < MaxEvents
  /\ produced' = produced + 1 /\ hand' = produced + 1
  /\ worker' = "checking"
  /\ UNCHANGED <<drive, gone, loopOpen, handedOver, readSide>>

RaisingDriveSaysNothing(how) ==
  /\ worker = "driving" /\ drive' = how /\ hand' = End
  /\ worker' = IF how = "raised" THEN "finished" ELSE "checking"
  /\ UNCHANGED <<produced, gone, loopOpen, handedOver, readSide>>
\* However the drive ends, the end of the stream is published.
DriveEnds(how) ==
  /\ worker = "driving" /\ drive' = how /\ hand' = End
  /\ worker' = "checking"
  /\ UNCHANGED <<produced, gone, loopOpen, handedOver, readSide>>

AfterPublishing == IF hand = End THEN "finished" ELSE "driving"

CheckNothing ==
  /\ worker = "checking" /\ worker' = "scheduling"
  /\ UNCHANGED <<drive, produced, hand, gone, loopOpen, handedOver, readSide>>
\* publish: an entry for an observer who has left is dropped.
CheckObserver ==
  /\ worker = "checking"
  /\ worker' = IF gone THEN AfterPublishing ELSE "scheduling"
  /\ UNCHANGED <<drive, produced, hand, gone, loopOpen, handedOver, readSide>>

ScheduleWhenRoom ==
  /\ worker = "scheduling" /\ Backlog < 2
  /\ worker' = AfterPublishing
  /\ IF loopOpen THEN calls' = Append(calls, hand) /\ UNCHANGED gone
     ELSE gone' = TRUE /\ UNCHANGED calls
  /\ late' = IF gone THEN late + 1 ELSE late
  /\ UNCHANGED <<drive, produced, hand, loopOpen, queue, readSide>>
\* call_soon_threadsafe; a closed loop means that nobody is observing.
Schedule ==
  /\ worker = "scheduling" /\ worker' = AfterPublishing
  /\ IF loopOpen THEN calls' = Append(calls, hand) /\ UNCHANGED gone
     ELSE gone' = TRUE /\ UNCHANGED calls
  /\ late' = IF gone THEN late + 1 ELSE late
  /\ UNCHANGED <<drive, produced, hand, loopOpen, queue, readSide>>

-----------------------------------------------------------------------------
\* The event loop.

RunCallback ==
  /\ loopOpen /\ calls # <<>>
  /\ queue' = Append(queue, Head(calls)) /\ calls' = Tail(calls)
  /\ UNCHANGED <<workSide, gone, loopOpen, late, readSide>>

\* The next entry, at once or after a wait for it; the last one ends the stream.
Take ==
  /\ reader \in {"asking", "waiting"} /\ queue # <<>>
  /\ queue' = Tail(queue)
  /\ IF Head(queue) = End
     THEN reader' = "ended" /\ gone' = TRUE /\ UNCHANGED got
     ELSE reader' = "yielded" /\ got' = Append(got, Head(queue)) /\ UNCHANGED gone
  /\ UNCHANGED <<workSide, loopOpen, calls, late>>

Wait ==
  /\ reader = "asking" /\ queue = <<>> /\ reader' = "waiting"
  /\ UNCHANGED <<workSide, gone, loopOpen, handedOver, got>>

KeepaliveDropsEntry ==
  /\ reader = "waiting" /\ reader' = "yielded"
  /\ queue' = IF queue = <<>> THEN <<>> ELSE Tail(queue)
  /\ UNCHANGED <<workSide, gone, loopOpen, calls, late, got>>
KeepaliveNoticesEnd ==
  /\ reader = "waiting"
  /\ reader' = IF worker = "finished" THEN "ended" ELSE "yielded"
  /\ UNCHANGED <<workSide, gone, loopOpen, handedOver, got>>
\* wait_for times out, perhaps just as an entry arrives: that entry stays queued.
Keepalive ==
  /\ reader = "waiting" /\ reader' = "yielded"
  /\ UNCHANGED <<workSide, gone, loopOpen, handedOver, got>>

Sent ==
  /\ reader = "yielded" /\ reader' = "asking"
  /\ UNCHANGED <<workSide, gone, loopOpen, handedOver, got>>

\* The observer disconnects: the generator is closed or cancelled where it stands.
Leave ==
  /\ reader \in {"unstarted", "waiting", "yielded"} /\ reader' = "left"
  /\ gone' = (gone \/ reader # "unstarted")
  /\ UNCHANGED <<workSide, loopOpen, handedOver, got>>

\* The loop closes; what was scheduled on it never runs.
LoopCloses ==
  /\ loopOpen /\ loopOpen' = FALSE
  /\ reader' = IF reader = "ended" THEN "ended" ELSE "left"
  /\ UNCHANGED <<workSide, gone, handedOver, got>>

\* The worker is a daemon thread.
ProcessExits ==
  /\ worker \notin {"finished", "killed"} /\ worker' = "killed"
  /\ loopOpen' = FALSE
  /\ reader' = IF reader = "ended" THEN "ended" ELSE "left"
  /\ UNCHANGED <<drive, produced, hand, gone, handedOver, got>>

-----------------------------------------------------------------------------
Init ==
  /\ worker = "none" /\ drive = "running" /\ produced = 0 /\ hand = Nothing
  /\ gone = FALSE /\ loopOpen = TRUE /\ calls = <<>> /\ queue = <<>>
  /\ reader = "unstarted" /\ got = <<>> /\ late = 0

Worker ==
  \/ DriveYields \/ (\E how \in {"stopped", "raised"} : DriveEnds(how))
  \/ CheckObserver \/ Schedule
Reader == Start \/ Take \/ Wait \/ Keepalive \/ Sent

Next == Worker \/ RunCallback \/ Reader \/ Leave \/ LoopCloses \/ ProcessExits

Spec == Init /\ [][Next]_vars

\* The worker's thread and the loop's callbacks run, and the response iterates;
\* observers, the loop's owner and the process stop when they like.
FairSpec ==
  /\ Spec
  /\ WF_vars(Worker) /\ WF_vars(RunCallback) /\ WF_vars(Reader)

-----------------------------------------------------------------------------
Streaming == loopOpen /\ reader \in {"asking", "waiting", "yielded"}

\* Each thing has its type, and a queue only ever holds entries.
TypeOK ==
  /\ worker \in {"none", "driving", "checking", "scheduling", "finished", "killed"}
  /\ drive \in {"running", "stopped", "raised"}
  /\ produced \in 0..MaxEvents /\ hand \in Entries \cup {Nothing}
  /\ gone \in BOOLEAN /\ loopOpen \in BOOLEAN
  /\ calls \in Seq(Entries) /\ queue \in Seq(Entries) /\ got \in Seq(1..MaxEvents)
  /\ reader \in {"unstarted", "asking", "waiting", "yielded", "ended", "left"}
  /\ late \in Nat

\* What an observer who stays has been sent, what waits in the queue, what waits
\* on the loop and what the worker has in hand are together every event of the
\* drive, in order and once each (service.py, _bridge).
InHand == IF worker \in {"checking", "scheduling"} THEN <<hand>> ELSE <<>>
Ended  == IF drive = "running" THEN <<>> ELSE <<End>>
NothingLost ==
  Streaming => got \o queue \o calls \o InHand = [i \in 1..produced |-> i] \o Ended

\* Across thread, loop and queue the observer is told the drive as it happens:
\* its events in order and without gaps, none that has not happened, and the end
\* only after the drive is over and all of it was sent (service.py, _bridge).
Promise ==
  INSTANCE ObservedDrive WITH
    drive    <- IF drive = "running" THEN "running" ELSE "over",
    happened <- produced,
    told     <- got,
    observer <- CASE reader = "ended" -> "ended"
                  [] reader = "left" -> "cut"
                  [] OTHER -> "watching"
TellsTheDrive == Promise!Spec

\* A drive nobody observes any more keeps running without filling memory: at most
\* the entry already past the check is scheduled (service.py, observer_gone).
FewLateEntries == late <= 1

\* Whatever the observer and the loop do, the drive reaches its next durable stop,
\* unless the process exits (service.py, "the worker owns the drive").
DriveReachesItsStop ==
  (worker = "driving") ~> ((worker = "finished" /\ drive # "running") \/ worker = "killed")

\* Once the drive is over, the observer's stream ends, if it was not cut before.
StreamEnds == (drive # "running") ~> (reader \in {"ended", "left"})
=============================================================================
