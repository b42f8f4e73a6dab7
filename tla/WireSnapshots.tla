---------------------------- MODULE WireSnapshots ----------------------------
(***************************************************************************)
(* A run and a step as the service sees them: JSON snapshots that          *)
(* slimx_agent/http_store.py parses before the engine decides about the    *)
(* step.  The states are what a host may send; the steps are fields that   *)
(* an older host does not send, or that arrive as something else.          *)
(***************************************************************************)
EXTENDS AgentPolicies, FiniteSets

CONSTANTS
  Types, Policies, Lists,
  Budgets    \* step budgets, 0 among them

ASSUME WireAssumption == Budgets \subseteq Nat

\* A field holds a value of its type, is absent or null, or has another type.
Given(x) == [is |-> "given", value |-> x]
Absent   == [is |-> "absent"]
Garbled  == [is |-> "garbled"]
AllGiven(S) == {Given(x) : x \in S}

VARIABLES
  wire,      \* the fields of the snapshots
  executed   \* how many steps of the listing did work
vars == <<wire, executed>>

RunFields  == {"policy", "auto", "grants", "preapproved", "maxSteps"}
StepFields == {"type", "status", "flagged"}

\* What the engine reads if a field is not there.
Default ==
  [policy |-> NULL, auto |-> FALSE, grants |-> {}, preapproved |-> {},
   maxSteps |-> 0, flagged |-> FALSE]
Required == {"type", "status"}

STEP_STATUSES ==
  {"pending", "awaiting_approval", "approved", "running", "completed", "failed", "skipped"}

-----------------------------------------------------------------------------
\* RunSnapshot.from_wire, StepSnapshot.from_wire and the parsers of a field.

DropsABadBudget(f) ==
  \/ wire[f].is = "garbled" /\ f # "maxSteps"
  \/ wire[f].is = "absent" /\ f \in Required
  \/ /\ wire[f].is = "given" /\ f \in {"grants", "preapproved"}
     /\ NotAString \in wire[f].value
  \/ wire[f].is = "given" /\ f = "status" /\ wire[f].value \notin STEP_STATUSES
\* A required field is there; any field has its type, a list holds strings, and
\* a step's status is one the gates know.
Malformed(f) ==
  \/ wire[f].is = "garbled"
  \/ wire[f].is = "absent" /\ f \in Required
  \/ /\ wire[f].is = "given" /\ f \in {"grants", "preapproved"}
     /\ NotAString \in wire[f].value
  \/ wire[f].is = "given" /\ f = "status" /\ wire[f].value \notin STEP_STATUSES

ReadTrusting(f) ==
  CASE wire[f].is = "given" -> wire[f].value
    [] f = "auto"           -> TRUE
    [] OTHER                -> Default[f]
Read(f) == IF wire[f].is = "given" THEN wire[f].value ELSE Default[f]

Refused == \E f \in RunFields \cup StepFields : Malformed(f)

FromWire ==
  [policy |-> Read("policy"), auto |-> Read("auto"),
   grants |-> [list |-> TRUE, items |-> Read("grants")],
   preapproved |-> [list |-> TRUE, items |-> Read("preapproved")],
   maxSteps |-> Read("maxSteps"), wall |-> FALSE]

\* What one pass of the engine does with an open step it read with settings o.
Decision(o, type, status, flagged) ==
  CASE status \notin STEP_STATUSES                -> "refuse"
    [] ~Permitted(o, type)                        -> "blocked"
    [] o.maxSteps > 0 /\ executed >= o.maxSteps   -> "pause"
    [] /\ status \in {"pending", "awaiting_approval"}
       /\ ResolveGate(o, type, flagged)           -> "park"
    [] OTHER                                      -> "run"

Remote ==
  IF Refused THEN "refuse"
  ELSE Decision(FromWire, Read("type"), Read("status"), Read("flagged"))

\* The same engine in the host's process, over the row itself: None is falsy,
\* and a value of another type is whatever Python makes of it.
Lenient(f, truthy, none) ==
  CASE wire[f].is = "given"   -> wire[f].value
    [] wire[f].is = "garbled" -> truthy
    [] wire[f].is = "absent"  -> none
InProcess ==
  Decision([policy |-> Lenient("policy", "garbled", NULL),
            auto |-> Lenient("auto", TRUE, FALSE),
            grants |-> [list |-> wire.grants.is = "given",
                        items |-> Lenient("grants", {}, {})],
            preapproved |-> [list |-> wire.preapproved.is = "given",
                             items |-> Lenient("preapproved", {}, {})],
            maxSteps |-> Lenient("maxSteps", 0, 0), wall |-> FALSE],
           Lenient("type", "garbled", "none"), Lenient("status", "garbled", "none"),
           Lenient("flagged", TRUE, FALSE))

-----------------------------------------------------------------------------
\* What a host sends (external).

Init ==
  /\ wire \in [policy : AllGiven(Policies) \cup {Absent}, auto : AllGiven(BOOLEAN),
               grants : AllGiven(Lists), preapproved : AllGiven(Lists),
               maxSteps : AllGiven(Budgets), type : AllGiven(Types),
               status : AllGiven({"pending", "awaiting_approval", "approved", "running", "odd"}),
               flagged : AllGiven(BOOLEAN)]
  /\ executed \in 0..1

Replace(f, x) == wire[f] # x /\ wire' = [wire EXCEPT ![f] = x] /\ UNCHANGED executed

Garble(f) == Replace(f, Garbled)

Clean(f) == f \in {"grants", "preapproved"} => NotAString \notin wire[f].value

\* The fields that carry the user's consent came with later versions.
Withhold(f) == wire[f].is = "given" /\ Clean(f) /\ Replace(f, Absent)

Next ==
  \/ \E f \in RunFields \cup StepFields : Garble(f)
  \/ \E f \in {"auto", "grants", "preapproved"} \cup Required : Withhold(f)

Spec == Init /\ [][Next]_vars

-----------------------------------------------------------------------------
\* Over HTTP the engine decides as it does in the host's process on the same
\* row, or refuses the row; nothing that stops or skips in the one runs in the
\* other (http_store.py, from_wire; engine.py, one engine for both).
RemoteNeverLooser == Remote \in {"refuse", InProcess}

\* A snapshot with a field less, or with one that is not what it should be,
\* never lets a step run that the whole snapshot would have stopped
\* (http_store.py, "a malformed budget must not turn into an unbounded one").
DamageNeverLoosens == [][Remote' = "run" => Remote = "run"]_vars
=============================================================================
