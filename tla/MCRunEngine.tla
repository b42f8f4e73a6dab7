----------------------------- MODULE MCRunEngine -----------------------------
(***************************************************************************)
(* Instances of RunEngine for TLC: plans that put each kind of step first  *)
(* and last, and the settings a user switches between.                     *)
(***************************************************************************)
EXTENDS RunEngineProps

\* A plan from a sequence of rows; ids past its end are absent.
PlanOf(rows) ==
  [s \in StepIds |-> IF s \in DOMAIN rows THEN rows[s]
                     ELSE [type |-> "none", flagged |-> FALSE, status |-> Absent]]

Row(type, flagged) == [type |-> type, flagged |-> flagged, status |-> "pending"]

Stored(items) == [list |-> TRUE, items |-> items]

Settings(policy, auto, grants, preapproved, maxSteps, wall) ==
  [policy |-> policy, auto |-> auto, grants |-> Stored(grants),
   preapproved |-> Stored(preapproved), maxSteps |-> maxSteps, wall |-> wall]

\* One step of each tier, gated and ungated, flagged by the planner or not, one
\* whose type nobody handles, and one whose status is not known.
RecoveryPlans ==
  {PlanOf(<<Row("web_search", FALSE), Row("netops_apply", FALSE)>>),
   PlanOf(<<Row("create_note", FALSE), Row("model_call", TRUE)>>),
   PlanOf(<<Row("model_call", FALSE), Row("web_search", FALSE)>>),
   PlanOf(<<Row("unheard_of", FALSE)>>),
   PlanOf(<<Row("model_call", FALSE),
            [Row("model_call", FALSE) EXCEPT !.status = "unrecognized"]>>)}

AllGrants == {"web_search", "netops_write", "evidence_write"}

RecoveryOptions ==
  {Settings("auto_complete", FALSE, AllGrants, {"web_search", "netops_apply"}, 0, FALSE),
   Settings("auto_complete", FALSE, AllGrants, {}, 1, FALSE),
   Settings("auto_complete", FALSE, {}, {"web_search"}, 0, TRUE),
   Settings("manual", FALSE, {"netops_write"}, {"web_search"}, 0, FALSE),
   Settings(NULL, TRUE, {"evidence_write"}, {}, 1, FALSE)}

OneCall == {PlanOf(<<Row("model_call", FALSE)>>)}
OneFlaggedCall == {PlanOf(<<Row("model_call", TRUE)>>)}

\* A plan whose second step may not be granted.
EndingPlans == {PlanOf(<<Row("model_call", FALSE), Row("create_note", FALSE)>>)}

Granting(grants) == Settings("auto_complete", FALSE, grants, {}, 0, FALSE)
PlainOptions  == {Granting({"evidence_write"})}
EndingOptions == {Granting({"evidence_write"}), Granting({})}

Growth == {"model_call"}
None   == {}

\* The outside moves of each run: drives, early ends, user stops, changes of
\* settings, reruns, prepared generations, appended steps, host failures.
Bound(drive, end, stop, set, rerun, prepare, append, hostfail) ==
  [drive |-> drive, end |-> end, stop |-> stop, set |-> set, rerun |-> rerun,
   prepare |-> prepare, append |-> append, hostfail |-> hostfail]

RecoveryLimits == Bound(2, 1, 0, 1, 1, 1, 1, 0)
EndingLimits   == Bound(2, 0, 1, 0, 1, 0, 1, 1)
StopLimits     == Bound(1, 0, 1, 0, 0, 0, 0, 0)
SilentLimits   == Bound(3, 1, 0, 0, 1, 0, 0, 0)
TrailLimits    == Bound(2, 1, 0, 0, 0, 0, 0, 0)
=============================================================================
