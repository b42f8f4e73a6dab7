---------------------------- MODULE PolicyMatrix ----------------------------
(***************************************************************************)
(* One step against one run's settings, while the user tightens them.  The *)
(* states are every input of the gate over the whole contract vocabulary;  *)
(* the steps are the ways a user has to take consent back.                 *)
(***************************************************************************)
EXTENDS AgentPolicies, FiniteSets

CONSTANTS
  Types,        \* step types, one outside the vocabulary among them
  Policies,     \* approval policies, NULL and an unknown string among them
  GrantLists,   \* stored grant values
  Preapprovals  \* stored pre-approval values

\* A stored value: whether it is a list at all, and what it holds.
Stored == [list : BOOLEAN, items : SUBSET STRING]

ASSUME MatrixAssumption == GrantLists \subseteq Stored /\ Preapprovals \subseteq Stored

VARIABLES type, flagged, opts
vars == <<type, flagged, opts>>

Init ==
  /\ type \in Types /\ flagged \in BOOLEAN
  /\ opts \in [policy : Policies, auto : BOOLEAN, grants : GrantLists,
               preapproved : Preapprovals, maxSteps : {0}, wall : {FALSE}]

\* The planner's flag is set; the legacy auto-approval is switched off.
Flag    == flagged' = TRUE /\ ~flagged /\ UNCHANGED <<type, opts>>
AutoOff == opts.auto /\ opts' = [opts EXCEPT !.auto = FALSE] /\ UNCHANGED <<type, flagged>>

\* A grant, or a pre-approval, is taken back, or the stored value stops being a
\* list at all.
Revoke(key) ==
  /\ key \in opts.grants.items
  /\ opts' = [opts EXCEPT !.grants.items = @ \ {key}]
  /\ UNCHANGED <<type, flagged>>
Withdraw(t) ==
  /\ t \in opts.preapproved.items
  /\ opts' = [opts EXCEPT !.preapproved.items = @ \ {t}]
  /\ UNCHANGED <<type, flagged>>
Corrupt ==
  /\ opts' \in {[opts EXCEPT !.grants.list = FALSE],
                [opts EXCEPT !.preapproved.list = FALSE]} \ {opts}
  /\ UNCHANGED <<type, flagged>>

\* A set policy is replaced by any policy but Auto-complete.
Supervise(policy) ==
  /\ opts.policy # NULL /\ policy \notin {NULL, "auto_complete", opts.policy}
  /\ opts' = [opts EXCEPT !.policy = policy]
  /\ UNCHANGED <<type, flagged>>

Next ==
  \/ Flag \/ AutoOff \/ Corrupt
  \/ \E key \in GRANTABLE_TOOLS : Revoke(key)
  \/ \E t \in PREAPPROVABLE_STEP_TYPES : Withdraw(t)
  \/ \E policy \in Policies : Supervise(policy)

Spec == Init /\ [][Next]_vars

-----------------------------------------------------------------------------
Stops == ResolveGate(opts, type, flagged)
Runs  == Permitted(opts, type) /\ ~Stops

\* The gate lets a step run without a click exactly when the documentation says
\* it may, for every type, flag, policy and stored value.
GateMatchesRules == ~Stops <=> MayRunUnattended(opts, type, flagged)

\* Nothing leaves the machine without the user's grant in a real list; and
\* under a policy not without a click either, unless the user pre-approved that
\* very type and chose Auto-complete.
EgressNeedsConsent ==
  type \in ExternalTypes /\ Runs =>
    /\ opts.grants.list /\ opts.grants.items # {}
    /\ opts.policy # NULL => /\ opts.policy = "auto_complete"
                             /\ opts.preapproved.list
                             /\ type \in opts.preapproved.items

\* What a client's grants are normalized to when they are stored opens every step
\* that the grants as they were sent open, opens none whose grant is not among
\* them, and is normalized already: the key table of the contract and the table
\* of the runtime check are two tables (policies.py, normalize_grants and
\* permission_block_reason).
NormalizingKeepsConsent ==
  LET stored == [opts EXCEPT !.grants = NormalizeGrants(opts.grants)]
  IN  /\ \A t \in Types : Permitted(opts, t) => Permitted(stored, t)
      /\ \A t \in Types : Permitted(stored, t) =>
           \A g \in RequiredGrant(t) : \E i \in opts.grants.items : Strip(i) = g
      /\ NormalizeGrants(stored.grants) = stored.grants

\* Taking consent back never lets a step run that would not have run before.
TighteningNeverLoosens == [][Runs' => Runs]_vars
=============================================================================
