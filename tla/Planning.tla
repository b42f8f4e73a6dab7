------------------------------ MODULE Planning ------------------------------
(***************************************************************************)
(* slimx_agent/planning.py: what the prompt offers, and the way of a plan  *)
(* from a model's output through the declared schema, repair_plan_data and *)
(* validate_plan to rows or to another try with feedback.  The model and   *)
(* the host's loop around it are external.                                 *)
(*                                                                         *)
(* A JSON value is one of a few kinds: what tells them apart is whether    *)
(* they are there, truthy, strings, and blank.                             *)
(***************************************************************************)
EXTENDS AgentPolicies, Sequences

CONSTANTS
  MAX_STEPS,
  UnknownTypes, \* what the model may write for a type that is in no table
  GrantLists,   \* what a run's stored grants may be
  RawPlans,     \* the lists of items the model may answer, by those grants
  MaxTries

Missing == "missing"
Null    == "null"
Zero    == "zero"    \* 0, false, [] and {}
Empty   == "empty"   \* ""
Blank   == "blank"   \* spaces only
Text    == "text"
Junk    == "junk"    \* anything truthy that is not a string

\* Text that repair put there: from an alias, from the name, from the start of
\* the instruction, or "Step n".
Repaired == {"alias", "name", "cut", "number"}

Strings == {Empty, Blank, Text} \cup Repaired
Falsy   == {Missing, Null, Zero, Empty}

\* str(value or "").strip() is empty.
NoText(value) == value \in Falsy \cup {Blank}

\* What may be written for a type.
Types == ALLOWED_STEP_TYPES \cup {Missing} \cup UnknownTypes

\* An item of a list of steps, and one that is no object; what may be in a list
\* of assumptions.
Items ==
  LET Values == Falsy \cup {Blank, Text, Junk}
  IN  [object : BOOLEAN, type : Types, title : Values, name : Values,
       instruction : Values, alias : Values, params : Values]
NotAnObject == [object |-> FALSE, type |-> Missing, title |-> Missing, name |-> Missing,
                instruction |-> Missing, alias |-> Missing, params |-> Missing]
Assumptions == {Missing, "notAList", "strings", "mixed"}

ASSUME PlanningAssumption ==
  /\ MAX_STEPS \in Nat /\ MaxTries \in Nat /\ DOMAIN RawPlans = GrantLists
  /\ \A grants \in GrantLists : RawPlans[grants] \subseteq Seq(Items)

VARIABLES
  phase,
  opts,     \* the run's settings; only the grants matter here
  offered,  \* the types the prompt lists
  named,    \* the types its guidance tells the model to use
  raw,      \* what the model wrote: an object or not, with a list of steps or not
  data,     \* the same on its way through coercion and repair
  tries
vars == <<phase, opts, offered, named, raw, data, tries>>

Nothing == [object |-> TRUE, assumptions |-> Missing, list |-> TRUE, steps |-> <<>>]

-----------------------------------------------------------------------------
\* The prompt.

NEVER_ADVERTISED_STEP_TYPES ==
  {"mcp_call", "plugin_tool", "netops_apply", "netops_auto_apply", "research_iterate"}

\* advertised_step_types.
Advertised(o) ==
  {t \in ALLOWED_STEP_TYPES \ NEVER_ADVERTISED_STEP_TYPES :
     RequiredGrant(t) \subseteq GrantedTools(o)}

\* build_planner_prompt: the types it always explains, and those a grant adds.
Explained ==
  {"model_call", "compare_models", "create_synthesis", "knowledge_retrieve",
   "attach_context", "project_inventory", "evidence_query", "document_read",
   "rag_retrieve", "save_evidence"}
Guidance ==
  [web_search     |-> {"web_search"},
   code_read      |-> {"code_search", "code_read"},
   evidence_write |-> {"create_note", "add_tag"},
   spawn_agents   |-> {"spawn_run", "join_runs"},
   netops_read    |-> {"netops_collect"}]
ExplainsTelemetryToWriters(o) ==
  Explained \cup UNION {Guidance[g] : g \in GrantedTools(o) \cap DOMAIN Guidance}
            \cup IF "netops_write" \in GrantedTools(o) THEN {"netops_collect"} ELSE {}
Named(o) ==
  Explained \cup UNION {Guidance[g] : g \in GrantedTools(o) \cap DOMAIN Guidance}

BuildPrompt ==
  /\ phase = "prompt" /\ phase' = "model"
  /\ offered' = Advertised(opts) /\ named' = Named(opts)
  /\ raw' = Nothing /\ data' = Nothing
  /\ UNCHANGED <<opts, tries>>

-----------------------------------------------------------------------------
\* The model, and the structured-output call (external).

\* The fields SlimXAgentPlanStep declares.
Declared == {"title", "type", "instruction", "params"}
Default  == [title |-> Empty, type |-> "model_call", instruction |-> Empty,
             params |-> Null, name |-> Missing, alias |-> Missing]

\* Declared fields are copied, missing ones take their default, others are lost.
CoerceStep(s) ==
  IF ~s.object THEN s
  ELSE [f \in DOMAIN s |->
          CASE f = "object" -> TRUE
            [] f \in Declared /\ s[f] # Missing -> s[f]
            [] OTHER -> Default[f]]
Coerce(d) == [d EXCEPT !.steps = [i \in DOMAIN d.steps |-> CoerceStep(d.steps[i])]]

\* The model's text is parsed as it is or coerced to the declared schema.
Return ==
  /\ phase = "model" /\ phase' = "repair"
  /\ \E steps \in RawPlans[opts.grants], a \in Assumptions :
       raw' = [raw EXCEPT !.steps = steps, !.assumptions = a]
  /\ data' \in {raw', Coerce(raw')}
  /\ UNCHANGED <<opts, offered, named, tries>>

\* It answers something else, or echoes the schema.
ReturnNoPlan ==
  /\ phase = "model" /\ phase' = "repair"
  /\ raw' \in {[raw EXCEPT !.object = FALSE],
               [raw EXCEPT !.list = FALSE, !.assumptions = "notAList"]}
  /\ data' = raw'
  /\ UNCHANGED <<opts, offered, named, tries>>

-----------------------------------------------------------------------------
\* repair_plan_data.

Salvageable(s) == s.object /\ s.type \in ALLOWED_STEP_TYPES

AdoptsVerbatim(s) == IF NoText(s.instruction) /\ ~NoText(s.alias) THEN s.alias ELSE s.instruction
\* An instruction without text is replaced by the first alias that has some.
AdoptAlias(s) ==
  IF NoText(s.instruction) /\ ~NoText(s.alias) THEN "alias" ELSE s.instruction

\* The title stays if it has text; one that is not there is taken from the
\* name; else the instruction gives it, or the step's number.
RepairTitle(s) ==
  CASE ~NoText(s.title) -> s.title
    [] s.title \in Falsy /\ ~NoText(s.name) -> "name"
    [] OTHER -> IF NoText(AdoptAlias(s)) THEN "number" ELSE "cut"

RepairStep(s) == [s EXCEPT !.instruction = AdoptAlias(s), !.title = RepairTitle(s)]

\* The list of what is at some positions of a list, in its order.
Keep(list, positions) ==
  LET kept[i \in 0..Len(list)] ==
        IF i = 0 THEN <<>>
        ELSE IF i \in positions THEN Append(kept[i - 1], list[i]) ELSE kept[i - 1]
  IN  kept[Len(list)]

SalvageableIn(steps) == {i \in DOMAIN steps : Salvageable(steps[i])}

Salvage(steps) ==
  LET kept == Keep(steps, SalvageableIn(steps))
  IN  [i \in DOMAIN kept |-> RepairStep(kept[i])]

RepairTruncates(d) ==
  IF ~d.object THEN d
  ELSE [d EXCEPT !.assumptions = "strings", !.list = TRUE,
                 !.steps = LET s == Salvage(d.steps)
                           IN IF Len(s) > MAX_STEPS THEN SubSeq(s, 1, MAX_STEPS) ELSE s]
\* Only strings stay among the assumptions, only known types among the steps; a
\* plan that is too long stays too long.
Repair(d) ==
  IF ~d.object THEN d
  ELSE [d EXCEPT !.assumptions = "strings", !.list = TRUE, !.steps = Salvage(d.steps)]

RepairPlan ==
  /\ phase = "repair" /\ phase' = "validate"
  /\ data' = Repair(data)
  /\ UNCHANGED <<opts, offered, named, raw, tries>>

-----------------------------------------------------------------------------
\* validate_plan.

ModelTypes == {"model_call", "compare_models"}

\* AgentPlanStep: nothing is coerced, and what a model step runs is its instruction.
ValidStep(s) ==
  /\ s.object /\ s.type \in ALLOWED_STEP_TYPES
  /\ s.title \in Strings /\ s.instruction \in Strings \cup {Missing}
  /\ s.params # Junk
  /\ s.type \in ModelTypes => ~NoText(s.instruction)

Valid(d) ==
  /\ d.object /\ d.list /\ d.assumptions \in {Missing, "strings"}
  /\ Len(d.steps) \in 1..MAX_STEPS
  /\ \A i \in DOMAIN d.steps : ValidStep(d.steps[i])

\* Accepted, or another try with the reason as feedback, or given up.
ValidatePlan ==
  /\ phase = "validate"
  /\ phase' = IF Valid(data) THEN "accepted"
              ELSE IF tries < MaxTries THEN "prompt" ELSE "failed"
  /\ tries' = IF phase' = "prompt" THEN tries + 1 ELSE tries
  /\ UNCHANGED <<opts, offered, named, raw, data>>

-----------------------------------------------------------------------------
Init ==
  /\ phase = "prompt"
  /\ opts \in [policy : {NULL}, auto : {FALSE}, grants : GrantLists,
               preapproved : {[list |-> FALSE, items |-> {}]}, maxSteps : {0}, wall : {FALSE}]
  /\ offered = {} /\ named = {} /\ raw = Nothing /\ data = Nothing /\ tries = 0

Next ==
  \/ BuildPrompt \/ Return \/ ReturnNoPlan
  \/ RepairPlan \/ ValidatePlan

Spec == Init /\ [][Next]_vars

-----------------------------------------------------------------------------
\* The prompt offers no step that the engine's gate would skip for want of a
\* grant, and its guidance tells the model to use no step the prompt does not
\* offer: two tables and a text that are kept apart (planning.py,
\* advertised_step_types and build_planner_prompt; policies.py,
\* permission_block_reason).
OffersOnlyRunnable ==
  /\ \A t \in offered : Permitted(opts, t) /\ t \notin NEVER_ADVERTISED_STEP_TYPES
  /\ named \subseteq offered

\* A plan the validator would accept as the model wrote it is still acceptable
\* after coercion and repair (planning.py, "this only widens what a flaky local
\* model can produce and still have accepted").
RepairOnlyWidens ==
  phase = "validate" /\ Valid(raw) => Valid(data)

\* What is accepted is what the model wrote: each of its steps of a known type,
\* in order, none cut off, with the text and the parameters it gave
\* (repair_plan_data; SlimXAgentPlanStep, which declares what is kept).
Known(s) == s.object /\ (s.type \in ALLOWED_STEP_TYPES \/ s.type = Missing)
KnownIn(steps) == {i \in DOMAIN steps : Known(steps[i])}
Same(s, t) ==
  /\ s.type \in {t.type, Missing}
  /\ s.params \in {t.params, Missing}
  /\ s.title = Text => t.title = Text
  /\ s.instruction = Text => t.instruction = Text
AcceptedIsWhatWasWritten ==
  phase = "accepted" =>
    \E kept \in {Keep(raw.steps, SalvageableIn(raw.steps)), Keep(raw.steps, KnownIn(raw.steps))} :
      /\ Len(kept) = Len(data.steps)
      /\ \A i \in DOMAIN kept : Same(kept[i], data.steps[i])
=============================================================================
