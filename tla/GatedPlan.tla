------------------------------ MODULE GatedPlan ------------------------------
(***************************************************************************)
(* What a run promises its user, with no drives, crashes, rows or events:  *)
(* each step's action is cleared before it is entered, entered at most     *)
(* once, and only when every earlier step is done; a run is completed only *)
(* when all its steps are done and failed only when one of them failed.    *)
(***************************************************************************)
EXTENDS Naturals

CONSTANT Ids     \* the steps, in execution order

VARIABLES
  phase,   \* of each step's current action
  result   \* of the run: "open", "completed" or "failed"

gvars == <<phase, result>>

Phases  == {"none", "open", "cleared", "entered", "done", "failed"}
Results == {"open", "completed", "failed"}

Move(s, p) == phase' = [phase EXCEPT ![s] = p]

Init == phase \in [Ids -> {"none", "open"}] /\ result = "open"

\* The plan grows.
Extend(s) == phase[s] = "none" /\ result # "completed" /\ Move(s, "open")
             /\ UNCHANGED result

\* A person, or the rules, let the action run.
Clear(s) == phase[s] = "open" /\ Move(s, "cleared") /\ UNCHANGED result

\* The action enters the host, in plan order.
Enter(s) ==
  /\ phase[s] = "cleared"
  /\ \A t \in Ids : t < s => phase[t] \in {"none", "done"}
  /\ Move(s, "entered") /\ UNCHANGED result

\* The host settles it, or it is settled without ever being entered.
Settle(s, p) ==
  /\ phase[s] \in {"open", "cleared", "entered"}
  /\ Move(s, p) /\ UNCHANGED result

\* A new generation of the action: nothing of the old one carries over.  A
\* cleared action that was never entered may be taken back, too.
Renew(s) ==
  /\ phase[s] \in {"cleared", "entered"} /\ result # "completed"
  /\ Move(s, "open") /\ UNCHANGED result

\* The user has a settled step run again: the run is open again.
Rerun(s) ==
  /\ phase[s] \in {"done", "failed"}
  /\ Move(s, "open") /\ result' = "open"

Complete ==
  /\ \A s \in Ids : phase[s] \in {"none", "done"}
  /\ result' = "completed" /\ UNCHANGED phase

Fail ==
  /\ \E s \in Ids : phase[s] = "failed"
  /\ result' = "failed" /\ UNCHANGED phase

\* A failed run is taken up again, by a drive or by the host.
Reopen == result' = "open" /\ result = "failed" /\ UNCHANGED phase

Next ==
  \/ \E s \in Ids :
       \/ Extend(s) \/ Clear(s) \/ Enter(s) \/ Renew(s) \/ Rerun(s)
       \/ \E p \in {"done", "failed"} : Settle(s, p)
  \/ Complete \/ Fail \/ Reopen

Spec == Init /\ [][Next]_gvars
=============================================================================
