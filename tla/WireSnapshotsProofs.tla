------------------------- MODULE WireSnapshotsProofs -------------------------
(***************************************************************************)
(* Damaged snapshots: the engine decides the same behind HTTP as in the    *)
(* host's process, and no lost or garbled field makes it run a step.       *)
(***************************************************************************)
EXTENDS WireSnapshots, TLAPS

Fields == RunFields \cup StepFields

\* A field is given, absent or garbled.
WireType ==
  /\ wire = [f \in Fields |-> wire[f]]
  /\ \A f \in Fields : wire[f] = Absent \/ wire[f] = Garbled \/ \E v : wire[f] = Given(v)

LEMMA FieldKinds ==
  /\ \A v : Given(v).is = "given" /\ Given(v).value = v
  /\ Absent.is = "absent" /\ Garbled.is = "garbled"
BY DEF Given, Absent, Garbled

LEMMA FieldNames ==
  /\ Fields = {"policy", "auto", "grants", "preapproved", "maxSteps", "type", "status", "flagged"}
  /\ Required \subseteq Fields
BY DEF Fields, RunFields, StepFields, Required

LEMMA FieldIs ==
  ASSUME WireType, NEW f \in Fields
  PROVE  wire[f].is \in {"given", "absent", "garbled"}
BY FieldKinds DEF WireType

LEMMA WireReplace ==
  ASSUME WireType, NEW f \in Fields, NEW x, Replace(f, x)
  PROVE  /\ wire'[f] = x /\ wire[f] # x
         /\ \A g \in Fields : g # f => wire'[g] = wire[g]
         /\ wire' = [g \in Fields |-> wire'[g]]
         /\ executed' = executed
BY DEF WireType, Replace

LEMMA WireTypeStep == WireType /\ [Next]_vars => WireType'
<1> SUFFICES ASSUME WireType, [Next]_vars PROVE WireType'
  OBVIOUS
<1>1. ASSUME NEW f \in Fields, NEW x \in {Absent, Garbled}, Replace(f, x) PROVE WireType'
  BY <1>1, WireReplace DEF WireType
<1>2. CASE UNCHANGED vars
  BY <1>2 DEF vars, WireType
<1> QED BY <1>1, <1>2, FieldNames DEF Next, Garble, Withhold, Fields

LEMMA WireTypeInit == Init => WireType
<1> SUFFICES ASSUME Init PROVE WireType
  OBVIOUS
<1>1. wire = [f \in Fields |-> wire[f]]
  BY FieldNames DEF Init
<1>2. ASSUME NEW f \in Fields PROVE wire[f] = Absent \/ \E v : wire[f] = Given(v)
  BY FieldNames DEF Init, AllGiven
<1> QED BY <1>1, <1>2 DEF WireType

LEMMA WireTypeHolds == Spec => []WireType
BY WireTypeInit, WireTypeStep, PTL DEF Spec

-----------------------------------------------------------------------------
\* A step is decided on the policy, the switch, the budget, and the grants and
\* pre-approvals as the gates read them.
LEMMA SameDecision ==
  ASSUME NEW o, NEW p, NEW t, NEW status, NEW flag,
         o.policy = p.policy, o.auto = p.auto, o.maxSteps = p.maxSteps,
         GrantedTools(o) = GrantedTools(p),
         NormalizePreapproved(o.preapproved) = NormalizePreapproved(p.preapproved)
  PROVE  Decision(o, t, status, flag) = Decision(p, t, status, flag)
BY DEF Decision, Permitted, ResolveGate

\* Fewer grants, fewer pre-approvals and no automatic approval run no more steps.
LEMMA TighterDecision ==
  ASSUME NEW o, NEW p, NEW t, NEW status, NEW flag,
         o.policy = p.policy, o.maxSteps = p.maxSteps, p.auto => o.auto,
         GrantedTools(p) \subseteq GrantedTools(o),
         NormalizePreapproved(p.preapproved) \subseteq NormalizePreapproved(o.preapproved),
         Decision(p, t, status, flag) = "run"
  PROVE  Decision(o, t, status, flag) = "run"
<1>1. Permitted(p, t) => Permitted(o, t)
  BY DEF Permitted
<1>2. ResolveGate(o, t, flag) => ResolveGate(p, t, flag)
  BY DEF ResolveGate, RequiresStop, HARD_GATED, REVIEW_RECOMMENDED
<1> QED BY <1>1, <1>2 DEF Decision

\* What is not refused is read as it was sent, or as if it had not been.
LEMMA WireReadings ==
  ASSUME WireType, ~Refused, NEW f \in Fields
  PROVE  /\ wire[f].is \in {"given", "absent"}
         /\ f \in Required => wire[f].is = "given"
BY FieldIs DEF Refused, Malformed, Fields

\* Over HTTP the engine decides as in the host's process, or refuses the row
\* (http_store.py, from_wire).
THEOREM RemoteNeverLooserHolds == Spec => []RemoteNeverLooser
<1>1. WireType => RemoteNeverLooser
  <2> SUFFICES ASSUME WireType, ~Refused PROVE Remote = InProcess
    BY DEF RemoteNeverLooser, Remote
  <2> DEFINE here ==
        [policy |-> Lenient("policy", "garbled", NULL),
         auto |-> Lenient("auto", TRUE, FALSE),
         grants |-> [list |-> wire.grants.is = "given", items |-> Lenient("grants", {}, {})],
         preapproved |-> [list |-> wire.preapproved.is = "given",
                          items |-> Lenient("preapproved", {}, {})],
         maxSteps |-> Lenient("maxSteps", 0, 0), wall |-> FALSE]
  <2>1. /\ Read("policy") = Lenient("policy", "garbled", NULL)
        /\ Read("auto") = Lenient("auto", TRUE, FALSE)
        /\ Read("maxSteps") = Lenient("maxSteps", 0, 0)
        /\ Read("flagged") = Lenient("flagged", TRUE, FALSE)
    BY WireReadings, FieldNames DEF Read, Lenient, Default
  <2>2. /\ Read("type") = Lenient("type", "garbled", "none")
        /\ Read("status") = Lenient("status", "garbled", "none")
    BY WireReadings, FieldNames DEF Read, Lenient, Required
  <2>3. GrantedTools(FromWire) = GrantedTools(here)
    BY WireReadings, FieldNames DEF GrantedTools, StringMembers, FromWire, Read, Lenient, Default
  <2>4. NormalizePreapproved(FromWire.preapproved) = NormalizePreapproved(here.preapproved)
    BY WireReadings, FieldNames
    DEF NormalizePreapproved, StringMembers, FromWire, Read, Lenient, Default
  <2>5. /\ FromWire.policy = here.policy /\ FromWire.auto = here.auto
        /\ FromWire.maxSteps = here.maxSteps
    BY <2>1 DEF FromWire
  <2>6. InProcess = Decision(here, Lenient("type", "garbled", "none"),
                      Lenient("status", "garbled", "none"), Lenient("flagged", TRUE, FALSE))
    BY DEF InProcess
  <2> HIDE DEF here
  <2>7. \A t, status, flag :
          Decision(FromWire, t, status, flag) = Decision(here, t, status, flag)
    BY <2>3, <2>4, <2>5, SameDecision
  <2>8. Remote = Decision(FromWire, Read("type"), Read("status"), Read("flagged"))
    BY DEF Remote
  <2> QED BY <2>1, <2>2, <2>6, <2>7, <2>8
<1> QED BY <1>1, WireTypeHolds, PTL

-----------------------------------------------------------------------------
\* A field that arrives garbled, and a required one that does not arrive.
LEMMA DamageRefused ==
  ASSUME WireType, NEW f \in Fields, NEW x \in {Absent, Garbled}, Replace(f, x),
         x = Garbled \/ f \in Required
  PROVE  Refused'
<1>1. wire'[f] = x
  BY WireReplace
<1> QED BY <1>1, FieldKinds DEF Refused, Malformed, Fields

\* A field of consent that is not there reads as no consent.
LEMMA WithheldConsent ==
  ASSUME WireType, NEW f \in {"auto", "grants", "preapproved"}, Withhold(f), ~Refused'
  PROVE  /\ ~Refused
         /\ \A g \in Fields : g # f => Read(g)' = Read(g)
         /\ Read(f)' = Default[f]
         /\ executed' = executed
<1>0. f \in Fields /\ f \notin Required \cup {"status"}
  BY FieldNames DEF Required
<1>1. /\ wire'[f] = Absent /\ executed' = executed
      /\ \A g \in Fields : g # f => wire'[g] = wire[g]
  BY <1>0, WireReplace DEF Withhold
<1>2. ~Malformed(f)
  BY <1>0 DEF Withhold, Malformed, Clean
<1>3. \A g \in Fields : g # f => (Malformed(g)' <=> Malformed(g))
  BY <1>1 DEF Malformed
<1> QED BY <1>0, <1>1, <1>2, <1>3, FieldKinds DEF Refused, Read, Fields

\* No field lost or garbled lets a step run that the whole snapshot would have
\* stopped (http_store.py, the parsers of RunSnapshot and StepSnapshot).
THEOREM DamageNeverLoosensHolds == Spec => DamageNeverLoosens
<1>1. ASSUME WireType, Next, Remote' = "run" PROVE Remote = "run"
  <2>0. ~Refused'
    BY <1>1 DEF Remote
  <2>1. PICK f \in {"auto", "grants", "preapproved"} : Withhold(f)
    <3>1. ASSUME NEW f \in Fields, Garble(f) PROVE FALSE
      BY <1>1, <2>0, <3>1, DamageRefused DEF Garble
    <3>2. ASSUME NEW f \in Required, Withhold(f) PROVE FALSE
      BY <1>1, <2>0, <3>2, DamageRefused, FieldNames DEF Withhold
    <3> QED BY <1>1, <3>1, <3>2 DEF Next, Fields
  <2>2. /\ ~Refused /\ Read(f)' = Default[f] /\ executed' = executed
        /\ \A g \in Fields : g # f => Read(g)' = Read(g)
    BY <1>1, <2>0, <2>1, WithheldConsent
  <2>3. Decision(FromWire', Read("type"), Read("status"), Read("flagged")) = "run"
    BY <1>1, <2>0, <2>2, FieldNames DEF Remote, Decision
  <2>4. /\ FromWire.policy = FromWire'.policy /\ FromWire.maxSteps = FromWire'.maxSteps
        /\ FromWire'.auto => FromWire.auto
    BY <2>2, FieldNames DEF FromWire, Default
  <2>5. GrantedTools(FromWire') \subseteq GrantedTools(FromWire)
    BY <2>2, FieldNames DEF FromWire, Default, GrantedTools, StringMembers
  <2>6. NormalizePreapproved(FromWire'.preapproved)
          \subseteq NormalizePreapproved(FromWire.preapproved)
    BY <2>2, FieldNames DEF FromWire, Default, NormalizePreapproved, StringMembers
  <2>7. Decision(FromWire, Read("type"), Read("status"), Read("flagged")) = "run"
    BY <2>3, <2>4, <2>5, <2>6, TighterDecision
  <2> QED BY <2>2, <2>7 DEF Remote
<1>2. WireType /\ [Next]_vars => [Remote' = "run" => Remote = "run"]_vars
  BY <1>1
<1> QED BY <1>2, WireTypeHolds, PTL DEF Spec, DamageNeverLoosens
=============================================================================
