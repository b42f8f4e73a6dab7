---------------------------- MODULE ObservedDrive ----------------------------
(***************************************************************************)
(* What the event stream promises: a drive goes its way, watched or not,   *)
(* and whoever watches is told its events one after the other from the     *)
(* first one on, never ahead of the drive; the stream ends by itself only  *)
(* when the drive is over and every event was told.                        *)
(***************************************************************************)
EXTENDS Naturals, Sequences

CONSTANT MaxEvents

VARIABLES
  drive,      \* "running" or "over"
  happened,   \* events so far; they are numbered from 1
  told,       \* what the observer was told
  observer    \* "watching", "ended" (the stream ended) or "cut"
ovars == <<drive, happened, told, observer>>

Init == drive = "running" /\ happened = 0 /\ told = <<>> /\ observer = "watching"

Happen ==
  /\ drive = "running" /\ happened < MaxEvents /\ happened' = happened + 1
  /\ UNCHANGED <<drive, told, observer>>

Stop ==
  /\ drive = "running" /\ drive' = "over"
  /\ UNCHANGED <<happened, told, observer>>

Tell ==
  /\ observer = "watching" /\ Len(told) < happened
  /\ told' = Append(told, Len(told) + 1)
  /\ UNCHANGED <<drive, happened, observer>>

Finish ==
  /\ observer = "watching" /\ drive = "over" /\ Len(told) = happened
  /\ observer' = "ended" /\ UNCHANGED <<drive, happened, told>>

Cut ==
  /\ observer = "watching" /\ observer' = "cut"
  /\ UNCHANGED <<drive, happened, told>>

Next == Happen \/ Stop \/ Tell \/ Finish \/ Cut

Spec == Init /\ [][Next]_ovars
=============================================================================
