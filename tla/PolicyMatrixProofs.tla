-------------------------- MODULE PolicyMatrixProofs --------------------------
(***************************************************************************)
(* The policy tables and the gate: what they say of every step type, flag  *)
(* and stored setting.                                                     *)
(***************************************************************************)
EXTENDS PolicyMatrix, TLAPS

-----------------------------------------------------------------------------
\* The tables against each other.

\* A type is in one tier, and only hard gates can be pre-approved.
LEMMA TiersDisjoint ==
  /\ AutoSafeTypes \cap HardGatedTypes = {}
  /\ PREAPPROVABLE_STEP_TYPES \subseteq HardGatedTypes
BY DEF AutoSafeTypes, HardGatedTypes, PREAPPROVABLE_STEP_TYPES

LEMMA TierOf ==
  ASSUME NEW t
  PROVE  /\ Tier(t) = HARD_GATED <=> t \in HardGatedTypes
         /\ Tier(t) = AUTO_SAFE <=> t \in AutoSafeTypes
         /\ Tier(t) = REVIEW_RECOMMENDED <=> t \notin HardGatedTypes \cup AutoSafeTypes
<1>1. AutoSafeTypes \cap HardGatedTypes = {}
  BY TiersDisjoint
<1> HIDE DEF AutoSafeTypes, HardGatedTypes
<1> QED BY <1>1 DEF Tier, HARD_GATED, AUTO_SAFE, REVIEW_RECOMMENDED

\* A type that leaves the machine needs a grant.
LEMMA ExternalNeedsGrant ==
  ASSUME NEW t \in ExternalTypes PROVE RequiredGrant(t) # {}
BY DEF ExternalTypes, RequiredGrant, GRANTABLE_TOOLS, TypesByGrant

\* No key of the grant table is padded or no string.
LEMMA GrantKeys ==
  ASSUME NEW g \in GRANTABLE_TOOLS PROVE g # PADDED /\ g # NotAString /\ Strip(g) = g
BY DEF GRANTABLE_TOOLS, TypesByGrant, PADDED, NotAString, Strip

\* What a stored pre-approval opens, as the gate reads it and as it is documented.
LEMMA PreapprovedReading ==
  ASSUME NEW stored, NEW t
  PROVE  t \in NormalizePreapproved(stored) <=>
           stored.list /\ t \in stored.items /\ t \in {"web_search", "web_fetch"}
BY DEF NormalizePreapproved, StringMembers, PREAPPROVABLE_STEP_TYPES, NotAString

\* The gate and the documented rules agree on every type, flag and setting.
LEMMA GateIsRules ==
  ASSUME NEW o, NEW t, NEW flag
  PROVE  ~ResolveGate(o, t, flag) <=> MayRunUnattended(o, t, flag)
<1> DEFINE pre == t \in NormalizePreapproved(o.preapproved)
<1>1. pre <=> o.preapproved.list /\ t \in o.preapproved.items /\ t \in {"web_search", "web_fetch"}
  BY PreapprovedReading
<1>2. pre => t \in HardGatedTypes
  BY <1>1 DEF HardGatedTypes
<1>3. t \in AutoSafeTypes => t \notin HardGatedTypes
  BY TiersDisjoint
<1>4. CASE o.policy = NULL
  BY <1>4 DEF ResolveGate, MayRunUnattended
<1>5. CASE o.policy # NULL
  <2>1. ResolveGate(o, t, flag) <=> RequiresStop(o.policy, Tier(t), flag, pre)
    BY <1>5 DEF ResolveGate
  <2> HIDE DEF pre
  <2>2. CASE t \in HardGatedTypes
    <3>1. Tier(t) = HARD_GATED
      BY <2>2, TierOf
    <3>2. RequiresStop(o.policy, Tier(t), flag, pre) <=> ~pre \/ o.policy # "auto_complete"
      BY <3>1 DEF RequiresStop, HARD_GATED, REVIEW_RECOMMENDED
    <3> QED BY <1>1, <1>5, <2>1, <2>2, <3>2 DEF MayRunUnattended
  <2>3. CASE t \notin HardGatedTypes
    <3>1. ~pre /\ Tier(t) # HARD_GATED /\ (Tier(t) = REVIEW_RECOMMENDED <=> t \notin AutoSafeTypes)
      BY <1>2, <2>3, TierOf
    <3>2. RequiresStop(o.policy, Tier(t), flag, pre)
            <=> o.policy # "auto_complete" /\ (t \notin AutoSafeTypes \/ flag)
      BY <3>1 DEF RequiresStop
    <3> QED BY <1>5, <2>1, <2>3, <3>2 DEF MayRunUnattended
  <2> QED BY <2>2, <2>3
<1> QED BY <1>4, <1>5

-----------------------------------------------------------------------------
\* The matrix.

MatrixType ==
  /\ type \in Types /\ flagged \in BOOLEAN
  /\ opts \in [policy : Policies, auto : BOOLEAN, grants : Stored, preapproved : Stored,
               maxSteps : {0}, wall : {FALSE}]

LEMMA MatrixTypeStep == MatrixType /\ [Next]_vars => MatrixType'
<1> SUFFICES ASSUME MatrixType, [Next]_vars PROVE MatrixType'
  OBVIOUS
<1> USE DEF MatrixType, Stored
<1>1. CASE Flag \/ AutoOff
  BY <1>1 DEF Flag, AutoOff
<1>2. CASE Corrupt
  <2>1. CASE opts' = [opts EXCEPT !.grants.list = FALSE]
    BY <1>2, <2>1 DEF Corrupt
  <2>2. CASE opts' = [opts EXCEPT !.preapproved.list = FALSE]
    BY <1>2, <2>2 DEF Corrupt
  <2> QED BY <1>2, <2>1, <2>2 DEF Corrupt
<1>3. ASSUME NEW key \in GRANTABLE_TOOLS, Revoke(key) PROVE MatrixType'
  BY <1>3 DEF Revoke
<1>4. ASSUME NEW t \in PREAPPROVABLE_STEP_TYPES, Withdraw(t) PROVE MatrixType'
  BY <1>4 DEF Withdraw
<1>5. ASSUME NEW policy \in Policies, Supervise(policy) PROVE MatrixType'
  BY <1>5 DEF Supervise
<1>6. CASE UNCHANGED vars
  BY <1>6 DEF vars
<1> QED BY <1>1, <1>2, <1>3, <1>4, <1>5, <1>6 DEF Next

LEMMA MatrixTypeHolds == Spec => []MatrixType
<1>1. Init => MatrixType
  BY MatrixAssumption DEF Init, MatrixType
<1> QED BY <1>1, MatrixTypeStep, PTL DEF Spec

\* The gate lets a step run without a click exactly when the documentation says
\* it may (engine.resolve_gate, policies.requires_stop).
THEOREM GateMatchesRulesHolds == Spec => []GateMatchesRules
<1>1. GateMatchesRules
  BY GateIsRules DEF GateMatchesRules, Stops
<1> QED BY <1>1, PTL

\* Nothing leaves the machine without a grant, nor, under a policy, without a
\* click or a pre-approval of that very type (policies.permission_block_reason).
THEOREM EgressNeedsConsentHolds == Spec => []EgressNeedsConsent
<1>1. EgressNeedsConsent
  <2> SUFFICES ASSUME type \in ExternalTypes, Runs
               PROVE  /\ opts.grants.list /\ opts.grants.items # {}
                      /\ opts.policy # NULL => /\ opts.policy = "auto_complete"
                                               /\ opts.preapproved.list
                                               /\ type \in opts.preapproved.items
    BY DEF EgressNeedsConsent
  <2>1. GrantedTools(opts) # {}
    BY ExternalNeedsGrant DEF Runs, Permitted
  <2>2. opts.grants.list /\ opts.grants.items # {}
    BY <2>1 DEF GrantedTools, StringMembers
  <2>3. MayRunUnattended(opts, type, flagged)
    BY GateIsRules DEF Runs, Stops
  <2>4. type \in HardGatedTypes
    BY DEF ExternalTypes, HardGatedTypes
  <2> QED BY <2>2, <2>3, <2>4 DEF MayRunUnattended
<1> QED BY <1>1, PTL

LEMMA NormalizedItems ==
  ASSUME NEW raw \in Stored
  PROVE  LET stored == NormalizeGrants(raw)
         IN  /\ stored.list = raw.list
             /\ stored.list => stored.items = {Strip(i) : i \in raw.items} \cap GRANTABLE_TOOLS
             /\ [stored EXCEPT !.items = stored.items] = stored
             /\ ~stored.list => stored = raw
BY DEF NormalizeGrants, Stored

\* Normalizing a client's grants opens what they open, nothing that is not among
\* them, and is done once (policies.normalize_grants).
THEOREM NormalizingKeepsConsentHolds == Spec => []NormalizingKeepsConsent
<1>1. MatrixType => NormalizingKeepsConsent
  <2> SUFFICES ASSUME MatrixType PROVE NormalizingKeepsConsent
    OBVIOUS
  <2> DEFINE raw == opts.grants
             norm == NormalizeGrants(raw)
             stored == [opts EXCEPT !.grants = norm]
  <2>1. raw \in Stored /\ stored.grants = norm
    BY DEF MatrixType
  <2>2. /\ norm.list = raw.list
        /\ norm.list => norm.items = {Strip(i) : i \in raw.items} \cap GRANTABLE_TOOLS
        /\ [norm EXCEPT !.items = norm.items] = norm
        /\ ~norm.list => norm = raw
    BY <2>1, NormalizedItems
  <2> HIDE DEF raw, norm, stored
  <2>3. ASSUME NEW t, Permitted(opts, t) PROVE Permitted(stored, t)
    <3>1. ASSUME NEW g \in RequiredGrant(t) PROVE g \in GrantedTools(stored)
      <4>1. raw.list /\ g \in raw.items /\ g \in GRANTABLE_TOOLS
        BY <2>3, <3>1 DEF Permitted, GrantedTools, StringMembers, RequiredGrant, raw
      <4>2. norm.list /\ g \in norm.items /\ g # NotAString
        BY <2>2, <4>1, GrantKeys
      <4> QED BY <2>1, <4>2 DEF GrantedTools, StringMembers
    <3> QED BY <3>1 DEF Permitted
  <2>4. ASSUME NEW t, Permitted(stored, t), NEW g \in RequiredGrant(t)
        PROVE  \E i \in raw.items : Strip(i) = g
    <3>1. norm.list /\ g \in norm.items
      BY <2>1, <2>4 DEF Permitted, GrantedTools, StringMembers
    <3> QED BY <2>2, <3>1
  <2>5. NormalizeGrants(norm) = norm
    <3>1. CASE ~norm.list
      BY <3>1 DEF NormalizeGrants
    <3>2. CASE norm.list
      <4>1. {Strip(i) : i \in norm.items} \cap GRANTABLE_TOOLS = norm.items
        BY <2>2, <3>2, GrantKeys
      <4>2. NormalizeGrants(norm) = [norm EXCEPT !.items = norm.items]
        BY <3>2, <4>1 DEF NormalizeGrants
      <4> QED BY <2>2, <4>2
    <3> QED BY <3>1, <3>2
  <2> QED BY <2>1, <2>3, <2>4, <2>5 DEF NormalizingKeepsConsent, raw, norm, stored
<1> QED BY <1>1, MatrixTypeHolds, PTL

-----------------------------------------------------------------------------
\* Taking consent back.

LEMMA FewerGrants ==
  ASSUME NEW o, NEW p, GrantedTools(p) \subseteq GrantedTools(o), NEW t, Permitted(p, t)
  PROVE  Permitted(o, t)
BY DEF Permitted

\* What the gate stops at it stops at for any policy but Auto-complete, with
\* fewer pre-approvals and a flag.
LEMMA StricterGate ==
  ASSUME NEW o, NEW p, NEW t, NEW flag \in BOOLEAN, NEW planned \in BOOLEAN,
         flag => planned,
         o.policy = NULL <=> p.policy = NULL,
         p.policy = "auto_complete" => o.policy = "auto_complete",
         p.auto => o.auto,
         NormalizePreapproved(p.preapproved) \subseteq NormalizePreapproved(o.preapproved),
         ResolveGate(o, t, flag)
  PROVE  ResolveGate(p, t, planned)
<1> DEFINE A(s) == t \in NormalizePreapproved(s.preapproved)
<1>0. A(p) => A(o)
  OBVIOUS
<1>1. CASE o.policy = NULL
  BY <1>1 DEF ResolveGate
<1>2. CASE o.policy # NULL
  <2>1. RequiresStop(o.policy, Tier(t), flag, A(o))
    BY <1>2 DEF ResolveGate
  <2> HIDE DEF A
  <2>2. RequiresStop(p.policy, Tier(t), planned, A(p))
    BY <1>0, <2>1 DEF RequiresStop, HARD_GATED, REVIEW_RECOMMENDED
  <2> QED BY <1>2, <2>2 DEF ResolveGate, A
<1> QED BY <1>1, <1>2

\* Taking consent back never lets a step run that would not have run before
\* (engine.resolve_gate and policies.permission_block_reason together).
THEOREM TighteningNeverLoosensHolds == Spec => TighteningNeverLoosens
<1> DEFINE Tighter ==
      /\ type' = type /\ (flagged => flagged')
      /\ GrantedTools(opts') \subseteq GrantedTools(opts)
      /\ opts.policy = NULL <=> opts'.policy = NULL
      /\ opts'.policy = "auto_complete" => opts.policy = "auto_complete"
      /\ opts'.auto => opts.auto
      /\ NormalizePreapproved(opts'.preapproved) \subseteq NormalizePreapproved(opts.preapproved)
<1>1. ASSUME MatrixType, Next PROVE Tighter
  <2> USE DEF MatrixType, Stored, GrantedTools, NormalizePreapproved, StringMembers
  <2>1. CASE Flag \/ AutoOff
    BY <1>1, <2>1 DEF Flag, AutoOff
  <2>2. CASE Corrupt
    BY <1>1, <2>2 DEF Corrupt
  <2>3. ASSUME NEW key \in GRANTABLE_TOOLS, Revoke(key) PROVE Tighter
    BY <1>1, <2>3 DEF Revoke
  <2>4. ASSUME NEW t \in PREAPPROVABLE_STEP_TYPES, Withdraw(t) PROVE Tighter
    BY <1>1, <2>4 DEF Withdraw
  <2>5. ASSUME NEW policy \in Policies, Supervise(policy) PROVE Tighter
    BY <1>1, <2>5 DEF Supervise
  <2> QED BY <1>1, <2>1, <2>2, <2>3, <2>4, <2>5 DEF Next
<1>2. MatrixType /\ MatrixType' /\ [Next]_vars => [Runs' => Runs]_vars
  <2> SUFFICES ASSUME MatrixType, MatrixType', Next, Runs' PROVE Runs
    OBVIOUS
  <2>1. Tighter
    BY <1>1
  <2>2. Permitted(opts', type) /\ ~ResolveGate(opts', type, flagged')
    BY <2>1 DEF Runs, Stops
  <2>3. flagged \in BOOLEAN /\ flagged' \in BOOLEAN
    BY DEF MatrixType
  <2> QED BY <2>1, <2>2, <2>3, FewerGrants, StricterGate DEF Runs, Stops
<1> QED BY <1>2, MatrixTypeHolds, PTL DEF Spec, TighteningNeverLoosens
=============================================================================
