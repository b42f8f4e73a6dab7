---------------------------- MODULE AgentPolicies ----------------------------
(***************************************************************************)
(* The deterministic policy tables of slimx_agent/policies.py and the      *)
(* gate the engine resolves from them (engine.resolve_gate).               *)
(*                                                                         *)
(* Everything here is a pure operator of a step type, the planner's        *)
(* approval flag and the run's settings.  A run's settings are a record    *)
(*   [policy, auto, grants, preapproved, maxSteps, wall]                   *)
(* where grants and preapproved are STORED values: [list |-> is it a list, *)
(* tuple or set at all, items |-> what it holds].                          *)
(***************************************************************************)
EXTENDS Naturals

AUTO_SAFE          == "auto_safe"
REVIEW_RECOMMENDED == "review_recommended"
HARD_GATED         == "hard_gated"

\* approval_policy IS NULL: the legacy behaviour.
NULL == "null"

AutoSafeTypes ==
  {"model_call", "rag_retrieve", "knowledge_retrieve", "attach_context",
   "create_synthesis", "save_evidence", "code_search", "code_read",
   "project_inventory", "evidence_query", "document_read",
   "conversation_search", "work_items_read", "propose_patch", "stage_files",
   "review_patch", "package_patch", "spawn_run", "analyze_data",
   "research_iterate", "compose_report"}

ReviewTypes ==
  {"compare_models", "create_note", "add_tag", "create_work_item",
   "link_work_item", "promote_to_knowledge", "write_file",
   "package_artifact", "apply_patch_sandbox", "run_check", "join_runs",
   "netops_collect", "netops_auto_apply", "data_catalog", "data_query"}

HardGatedTypes ==
  {"web_search", "web_fetch", "mcp_call", "plugin_tool", "netops_apply"}

\* The closed vocabulary of step types, for each of which a host registers a
\* handler: registry.resolve() is None for every other type.
ALLOWED_STEP_TYPES == AutoSafeTypes \cup ReviewTypes \cup HardGatedTypes

\* A type outside the tables is review_recommended.
Tier(type) ==
  CASE type \in HardGatedTypes -> HARD_GATED
    [] type \in AutoSafeTypes  -> AUTO_SAFE
    [] OTHER                   -> REVIEW_RECOMMENDED

\* CAPABILITY_BY_TYPE: the types that leave the machine.
ExternalTypes == {"web_search", "web_fetch", "mcp_call", "plugin_tool"}

\* The step types one grant key opens; a type in none of them needs no grant.
TypesByGrant ==
  [web_search     |-> {"web_search", "web_fetch"},
   mcp_tools      |-> {"mcp_call"},
   plugin_tools   |-> {"plugin_tool"},
   code_read      |-> {"code_search", "code_read", "propose_patch",
                       "stage_files", "review_patch"},
   code_write     |-> {"apply_patch_sandbox", "run_check", "package_patch"},
   spawn_agents   |-> {"spawn_run", "join_runs"},
   evidence_write |-> {"create_note", "add_tag", "create_work_item",
                       "link_work_item", "promote_to_knowledge"},
   netops_read    |-> {"netops_collect"},
   netops_write   |-> {"netops_apply", "netops_auto_apply"},
   data_read      |-> {"data_catalog", "data_query", "analyze_data"}]

GRANTABLE_TOOLS == DOMAIN TypesByGrant

\* The grants a type needs: none or exactly one.
RequiredGrant(type) == {g \in GRANTABLE_TOOLS : type \in TypesByGrant[g]}

\* A junk item of a stored list: anything that is not a string.
NotAString == "<not a string>"

\* The string members of a stored list-like value; of anything else, nothing.
StringMembers(stored) ==
  IF stored.list THEN stored.items \ {NotAString} ELSE {}

GrantedTools(o) == StringMembers(o.grants)

PermittedWithoutList(o, type) ==
  ~o.grants.list \/ RequiredGrant(type) \subseteq GrantedTools(o)
\* permission_block_reason(step, run) is None.
Permitted(o, type) == RequiredGrant(type) \subseteq GrantedTools(o)

\* An item a client sent with spaces around a key, and what strip() makes of it.
PADDED == " web_search "
Strip(item) == IF item = PADDED THEN "web_search" ELSE item

NormalizeAsTypes(raw) ==
  IF ~raw.list THEN raw
  ELSE [raw EXCEPT !.items = {Strip(i) : i \in @} \cap ALLOWED_STEP_TYPES]
\* What the grants of a client are stored as: None (all that is sent and is no
\* list) as it is, of a list the grant keys.
NormalizeGrants(raw) ==
  IF ~raw.list THEN raw
  ELSE [raw EXCEPT !.items = {Strip(i) : i \in @} \cap GRANTABLE_TOOLS]

PREAPPROVABLE_STEP_TYPES == {"web_search", "web_fetch"}

NormalizePreapprovedAny(stored) == StringMembers(stored)
NormalizePreapproved(stored) ==
  StringMembers(stored) \cap PREAPPROVABLE_STEP_TYPES

RequiresStopKnownPolicies(policy, tier, flagged, preapproved) ==
  \/ tier = HARD_GATED /\ ~preapproved
  \/ /\ policy \in {"manual", "review_checkpoints"}
     /\ tier # AUTO_SAFE \/ flagged
\* Whether execution stops at a step.  A pre-approved hard gate counts as
\* review_recommended; every policy but auto_complete reads alike.
RequiresStop(policy, tier, flagged, preapproved) ==
  LET effective == IF tier = HARD_GATED /\ preapproved
                   THEN REVIEW_RECOMMENDED ELSE tier
  IN  \/ effective = HARD_GATED
      \/ /\ policy # "auto_complete"
         /\ effective = REVIEW_RECOMMENDED \/ flagged

\* engine.resolve_gate: does the run, with settings o, stop at this step?
ResolveGate(o, type, flagged) ==
  IF o.policy = NULL
  THEN flagged /\ ~o.auto
  ELSE RequiresStop(o.policy, Tier(type), flagged,
                    type \in NormalizePreapproved(o.preapproved))

-----------------------------------------------------------------------------
\* What the documentation promises of a step that runs without a click, stated
\* without the tables' machinery: the reference the gate is checked against.
\* (policies.requires_stop's docstring, README "Approval", contracts.py on
\* approval_policy.)  Hard gates never run unattended, save a read-only web
\* step the user pre-approved, in Auto-complete; steps that want a review run
\* unattended in Auto-complete only; the rest always do.
MayRunUnattended(o, type, flagged) ==
  CASE o.policy = NULL -> ~flagged \/ o.auto
    [] o.policy # NULL /\ type \in HardGatedTypes ->
         /\ o.policy = "auto_complete"
         /\ type \in {"web_search", "web_fetch"}
         /\ o.preapproved.list
         /\ type \in o.preapproved.items
    [] o.policy # NULL /\ type \notin HardGatedTypes ->
         \/ o.policy = "auto_complete"
         \/ type \in AutoSafeTypes /\ ~flagged
=============================================================================
