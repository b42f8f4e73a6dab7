----------------------------- MODULE SoleWriter -----------------------------
(***************************************************************************)
(* What the execution-attempt fence promises a run: one attempt owns it at *)
(* a time, an attempt that lost it never owns it again, and whatever is    *)
(* written for the run is written by the attempt that owns it then.        *)
(***************************************************************************)
EXTENDS Naturals, Sequences

CONSTANTS Runs, Attempts

VARIABLES
  owner,     \* the attempt that owns each run, 0 before there is one
  written    \* the authors of what was written for each run, in order
vars == <<owner, written>>

Init ==
  /\ owner = [r \in Runs |-> 0]
  /\ written = [r \in Runs |-> <<>>]

TakeOver(r) ==
  /\ \E a \in Attempts : a > owner[r] /\ owner' = [owner EXCEPT ![r] = a]
  /\ UNCHANGED written

Write(r) ==
  /\ owner[r] # 0
  /\ written' = [written EXCEPT ![r] = Append(@, owner[r])]
  /\ UNCHANGED owner

Next == \E r \in Runs : TakeOver(r) \/ Write(r)

Spec == Init /\ [][Next]_vars
=============================================================================
