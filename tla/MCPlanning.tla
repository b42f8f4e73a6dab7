----------------------------- MODULE MCPlanning -----------------------------
(***************************************************************************)
(* Instances of Planning: single steps in every combination of kinds, and  *)
(* plans around the ceiling of a few kinds of step.                        *)
(***************************************************************************)
EXTENDS Planning, SequencesExt

Step(type, title, name, instruction, alias, params) ==
  [object |-> TRUE, type |-> type, title |-> title, name |-> name,
   instruction |-> instruction, alias |-> alias, params |-> params]

Anything == {Missing, Null, Zero, Empty, Blank, Text, Junk}
Some     == {Missing, Blank, Text, Junk}

EveryStep ==
  {NotAnObject} \cup
  {Step(type, title, name, instruction, alias, params) :
     type \in {"model_call", "create_note", "unheard_of", Missing},
     title \in Anything, name \in Some, instruction \in Anything, alias \in Some,
     params \in {Null, Text, Junk}}

\* Usable, without a title, of an unknown type, without a prompt,
\* without a type, no object.
FewSteps ==
  {Step("model_call", Text, Missing, Text, Missing, Text),
   Step("create_note", Missing, Missing, Empty, Missing, Null),
   Step("unheard_of", Text, Missing, Text, Missing, Null),
   Step("model_call", Text, Missing, Blank, Missing, Null),
   Step(Missing, Text, Missing, Text, Missing, Missing),
   NotAnObject}

Granted(items) == [list |-> TRUE, items |-> items]
EveryGrantList == {Granted(items) : items \in SUBSET GRANTABLE_TOOLS}

\* Without grants: single items of every kind, and plans around the ceiling of a
\* few kinds.  With grants it is the prompt that differs.
MCRawPlans ==
  [g \in EveryGrantList |->
     IF g = Granted({}) THEN {<<s>> : s \in EveryStep} \cup SeqOf(FewSteps, 4)
     ELSE {<<>>}]
=============================================================================
