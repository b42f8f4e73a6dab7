--------------------------- MODULE MCPolicyMatrix ---------------------------
(***************************************************************************)
(* PolicyMatrix over the whole vocabulary and one type outside it.         *)
(***************************************************************************)
EXTENDS PolicyMatrix

AllTypes == ALLOWED_STEP_TYPES \cup {"unheard_of"}

AllPolicies == {NULL, "manual", "review_checkpoints", "auto_complete", "other"}

\* No list, an empty list, lists with junk in them, and every grant.
MCGrantLists ==
  {[list |-> FALSE, items |-> {"web_search"}],
   [list |-> TRUE, items |-> {}],
   [list |-> TRUE, items |-> {NotAString, "web_search"}],
   [list |-> TRUE, items |-> {PADDED, "unheard_of", "web_fetch", "mcp_tools"}],
   [list |-> TRUE, items |-> GRANTABLE_TOOLS \ {"code_read", "data_read", "code_write",
                             "spawn_agents", "netops_read", "evidence_write"}]}

MCPreapprovals ==
  {[list |-> FALSE, items |-> {"web_search", "web_fetch"}],
   [list |-> TRUE, items |-> {NotAString, "web_fetch"}],
   [list |-> TRUE, items |-> {"web_search", "mcp_call", "netops_apply", "create_note"}]}
=============================================================================
