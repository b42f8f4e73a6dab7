--------------------------- MODULE MCWireSnapshots ---------------------------
(***************************************************************************)
(* WireSnapshots with a step of each tier, granted and not.                *)
(***************************************************************************)
EXTENDS WireSnapshots

MCTypes    == {"model_call", "create_note", "web_search", "unheard_of"}
MCPolicies == {"manual", "auto_complete"}
MCLists    == {{}, {"web_search"}, {"web_search", "evidence_write"}, {NotAString, "web_search"}}
=============================================================================
