--------------------------- MODULE PlanningProofs ---------------------------
(***************************************************************************)
(* What the prompt offers, and what becomes of a plan on its way through   *)
(* coercion and repair, for plans of any length.                           *)
(***************************************************************************)
EXTENDS Planning, TLAPS, WellFoundedInduction

-----------------------------------------------------------------------------
\* Induction over the naturals, as facts about sets.

LEMMA LeastNatural ==
  ASSUME NEW S, S \subseteq Nat, S # {}
  PROVE  \E n \in S : \A m \in S : n <= m
<1> DEFINE R == OpToRel(<, Nat)
<1>1. IsWellFoundedOn(R, Nat)
  BY NatLessThanWellFounded
<1>2. \A m, n \in Nat : <<m, n>> \in R <=> m < n
  BY DEF OpToRel
<1> HIDE DEF R
<1>3. PICK n \in S : \A m \in S : ~(<<m, n>> \in R)
  BY <1>1, WFMin
<1>4. \A m \in S : ~(m < n)
  BY <1>2, <1>3
<1> QED BY <1>4

LEMMA NaturalsClosed ==
  ASSUME NEW S, 0 \in S, \A n \in Nat : n \in S => n + 1 \in S
  PROVE  Nat \subseteq S
<1> SUFFICES ASSUME Nat \ S # {} PROVE FALSE
  OBVIOUS
<1>1. PICK n \in Nat \ S : \A m \in Nat \ S : n <= m
  BY LeastNatural
<1>2. n - 1 \in Nat /\ n - 1 \in S
  BY <1>1
<1> QED BY <1>1, <1>2

-----------------------------------------------------------------------------
\* The list that is kept.

KeepFrom(f, list, positions, n) ==
  f = [i \in 0..n |->
         IF i = 0 THEN <<>>
         ELSE IF i \in positions THEN Append(f[i - 1], list[i]) ELSE f[i - 1]]

LEMMA KeepFromExists ==
  ASSUME NEW list, NEW positions
  PROVE  \A n \in Nat : \E f : KeepFrom(f, list, positions, n)
<1> DEFINE S == {n \in Nat : \E f : KeepFrom(f, list, positions, n)}
<1>1. 0 \in S
  <2>1. KeepFrom([i \in 0..0 |-> <<>>], list, positions, 0)
    BY DEF KeepFrom
  <2> QED BY <2>1
<1>2. ASSUME NEW n \in Nat, n \in S PROVE n + 1 \in S
  <2>1. PICK f : KeepFrom(f, list, positions, n)
    BY <1>2
  <2> DEFINE g == [i \in 0..(n + 1) |->
                     IF i <= n THEN f[i]
                     ELSE IF i \in positions THEN Append(f[n], list[i]) ELSE f[n]]
  <2>2. \A i \in 0..n : f[i] = IF i = 0 THEN <<>>
                            ELSE IF i \in positions THEN Append(f[i - 1], list[i]) ELSE f[i - 1]
    BY <2>1, Zenon DEF KeepFrom
  <2>3. \A i \in 0..n : g[i] = f[i]
    OBVIOUS
  <2>4. g[n + 1] = IF n + 1 \in positions THEN Append(f[n], list[n + 1]) ELSE f[n]
    OBVIOUS
  <2>5. ASSUME NEW i \in 0..(n + 1)
        PROVE  g[i] = IF i = 0 THEN <<>>
                      ELSE IF i \in positions THEN Append(g[i - 1], list[i]) ELSE g[i - 1]
    <3>1. CASE i = n + 1
      BY <2>3, <2>4, <3>1
    <3>2. CASE i \in 0..n
      <4>1. i # 0 => i - 1 \in 0..n
        BY <3>2
      <4> QED BY <2>2, <2>3, <3>2, <4>1
    <3> QED BY <3>1, <3>2
  <2>6. KeepFrom(g, list, positions, n + 1)
    <3>1. g = [i \in 0..(n + 1) |-> g[i]]
      BY Zenon
    <3> HIDE DEF g
    <3> QED BY <2>5, <3>1 DEF KeepFrom
  <2> QED BY <2>6
<1> HIDE DEF S
<1>3. Nat \subseteq S
  BY <1>1, <1>2, NaturalsClosed
<1> QED BY <1>3 DEF S

LEMMA KeepIs ==
  ASSUME NEW list, NEW positions, Len(list) \in Nat
  PROVE  \E f : KeepFrom(f, list, positions, Len(list)) /\ Keep(list, positions) = f[Len(list)]
<1> DEFINE F == CHOOSE f : KeepFrom(f, list, positions, Len(list))
<1>1. KeepFrom(F, list, positions, Len(list))
  BY KeepFromExists
<1>2. Keep(list, positions) = F[Len(list)]
  BY DEF Keep, KeepFrom
<1> QED BY <1>1, <1>2

LEMMA KeepSteps ==
  ASSUME NEW f, NEW list, NEW positions, NEW n \in Nat, KeepFrom(f, list, positions, n)
  PROVE  /\ f[0] = <<>>
         /\ \A i \in Nat : i + 1 <= n =>
              f[i + 1] = IF i + 1 \in positions THEN Append(f[i], list[i + 1]) ELSE f[i]
<1>1. \A i \in 0..n : f[i] = IF i = 0 THEN <<>>
                             ELSE IF i \in positions THEN Append(f[i - 1], list[i]) ELSE f[i - 1]
  BY Zenon DEF KeepFrom
<1>2. f[0] = <<>>
  BY <1>1
<1>3. ASSUME NEW i \in Nat, i + 1 <= n
      PROVE  f[i + 1] = IF i + 1 \in positions THEN Append(f[i], list[i + 1]) ELSE f[i]
  <2>1. i + 1 \in 0..n /\ i + 1 # 0 /\ (i + 1) - 1 = i
    BY <1>3
  <2> QED BY <1>1, <2>1
<1> QED BY <1>2, <1>3

Listed(x, n) == x = [j \in 1..n |-> x[j]]

Extends(y, x, n, e) ==
  /\ Listed(y, n + 1) /\ y[n + 1] = e
  /\ \A j \in 1..n : y[j] = x[j]

LEMMA ListedAppend ==
  ASSUME NEW n \in Nat, NEW x, Listed(x, n), NEW e
  PROVE  Extends(Append(x, e), x, n, e)
<1>1. x \in Seq({x[j] : j \in 1..n} \cup {e}) /\ Len(x) = n
  BY DEF Listed
<1> QED BY <1>1 DEF Listed, Extends

\* Two lists of one length, kept at the same positions, are kept alike.
Alike(f, g, s, t, positions, i) ==
  \E n \in 0..i :
    /\ Listed(f[i], n) /\ Listed(g[i], n)
    /\ \A j \in 1..n : \E k \in 1..i : k \in positions /\ f[i][j] = s[k] /\ g[i][j] = t[k]

LEMMA AlikeStep ==
  ASSUME NEW f, NEW g, NEW s, NEW t, NEW positions, NEW i \in Nat,
         Alike(f, g, s, t, positions, i),
         f[i + 1] = IF i + 1 \in positions THEN Append(f[i], s[i + 1]) ELSE f[i],
         g[i + 1] = IF i + 1 \in positions THEN Append(g[i], t[i + 1]) ELSE g[i]
  PROVE  Alike(f, g, s, t, positions, i + 1)
<1>1. PICK n \in 0..i :
        /\ Listed(f[i], n) /\ Listed(g[i], n)
        /\ \A j \in 1..n : \E k \in 1..i : k \in positions /\ f[i][j] = s[k] /\ g[i][j] = t[k]
  BY Zenon DEF Alike
<1>2. CASE i + 1 \notin positions
  <2>1. f[i + 1] = f[i] /\ g[i + 1] = g[i]
    BY <1>2
  <2>2. n \in 0..(i + 1) /\ 1..i \subseteq 1..(i + 1)
    OBVIOUS
  <2>3. Listed(f[i + 1], n) /\ Listed(g[i + 1], n)
    BY <1>1, <2>1, Zenon
  <2>4. ASSUME NEW j \in 1..n
        PROVE  \E k \in 1..(i + 1) :
                 k \in positions /\ f[i + 1][j] = s[k] /\ g[i + 1][j] = t[k]
    <3>1. PICK k \in 1..i : k \in positions /\ f[i][j] = s[k] /\ g[i][j] = t[k]
      BY <1>1
    <3> QED BY <2>1, <2>2, <3>1
  <2> QED BY <2>2, <2>3, <2>4, Zenon DEF Alike
<1>3. CASE i + 1 \in positions
  <2>1. f[i + 1] = Append(f[i], s[i + 1]) /\ g[i + 1] = Append(g[i], t[i + 1])
    BY <1>3
  <2>2. /\ Listed(f[i + 1], n + 1) /\ Listed(g[i + 1], n + 1)
        /\ f[i + 1][n + 1] = s[i + 1] /\ g[i + 1][n + 1] = t[i + 1]
        /\ \A j \in 1..n : f[i + 1][j] = f[i][j] /\ g[i + 1][j] = g[i][j]
    <3>1. n \in Nat /\ Listed(f[i], n) /\ Listed(g[i], n)
      <4>1. \A m \in 0..i : m \in Nat
        OBVIOUS
      <4> QED BY <1>1, <4>1, Zenon
    <3>2. Extends(f[i + 1], f[i], n, s[i + 1])
      BY <2>1, <3>1, ListedAppend
    <3>3. Extends(g[i + 1], g[i], n, t[i + 1])
      BY <2>1, <3>1, ListedAppend
    <3> QED BY <3>2, <3>3, Zenon DEF Extends
  <2>3. ASSUME NEW j \in 1..(n + 1)
        PROVE  \E k \in 1..(i + 1) :
                 k \in positions /\ f[i + 1][j] = s[k] /\ g[i + 1][j] = t[k]
    <3>1. CASE j = n + 1
      <4>1. i + 1 \in 1..(i + 1)
        OBVIOUS
      <4> QED BY <1>3, <2>2, <3>1, <4>1, Zenon
    <3>2. CASE j \in 1..n
      <4>1. 1..i \subseteq 1..(i + 1)
        OBVIOUS
      <4>2. PICK k \in 1..i : k \in positions /\ f[i][j] = s[k] /\ g[i][j] = t[k]
        BY <1>1, <3>2
      <4>3. f[i + 1][j] = f[i][j] /\ g[i + 1][j] = g[i][j]
        BY <2>2, <3>2, Zenon
      <4> QED BY <4>1, <4>2, <4>3, Zenon
    <3>3. j = n + 1 \/ j \in 1..n
      OBVIOUS
    <3> QED BY <3>1, <3>2, <3>3, Zenon
  <2>4. n + 1 \in 0..(i + 1)
    OBVIOUS
  <2> QED BY <2>2, <2>3, <2>4, Zenon DEF Alike
<1> QED BY <1>2, <1>3

KeptAlike(a, b, s, t, positions) ==
  \E n \in 0..Len(s) :
    /\ Listed(a, n) /\ Listed(b, n)
    /\ \A j \in 1..n : \E k \in 1..Len(s) : k \in positions /\ a[j] = s[k] /\ b[j] = t[k]

LEMMA KeepTogether ==
  ASSUME NEW s, NEW t, NEW positions, Len(s) \in Nat, Len(t) = Len(s)
  PROVE  KeptAlike(Keep(s, positions), Keep(t, positions), s, t, positions)
<1>1. PICK f : KeepFrom(f, s, positions, Len(s)) /\ Keep(s, positions) = f[Len(s)]
  BY KeepIs
<1>2. PICK g : KeepFrom(g, t, positions, Len(s)) /\ Keep(t, positions) = g[Len(s)]
  BY KeepIs
<1> DEFINE S == {i \in Nat : i <= Len(s) => Alike(f, g, s, t, positions, i)}
<1>3. 0 \in S
  <2>1. Listed(<<>>, 0)
    BY DEF Listed
  <2>2. f[0] = <<>> /\ g[0] = <<>>
    BY <1>1, <1>2, KeepSteps
  <2> QED BY <2>1, <2>2 DEF Alike
<1>4. ASSUME NEW i \in Nat, i \in S PROVE i + 1 \in S
  <2> SUFFICES ASSUME i + 1 <= Len(s) PROVE Alike(f, g, s, t, positions, i + 1)
    OBVIOUS
  <2>1. Alike(f, g, s, t, positions, i)
    BY <1>4
  <2> QED BY <1>1, <1>2, <2>1, KeepSteps, AlikeStep
<1> HIDE DEF S
<1>5. Nat \subseteq S
  BY <1>3, <1>4, NaturalsClosed
<1>6. Alike(f, g, s, t, positions, Len(s))
  BY <1>5 DEF S
<1> QED BY <1>1, <1>2, <1>6, Zenon DEF Alike, KeptAlike

\* Of a list nothing is dropped if every position is kept.
LEMMA KeepAll ==
  ASSUME NEW list, NEW positions, Len(list) \in Nat, Listed(list, Len(list)),
         1..Len(list) \subseteq positions
  PROVE  Keep(list, positions) = list
<1>1. PICK f : KeepFrom(f, list, positions, Len(list)) /\ Keep(list, positions) = f[Len(list)]
  BY KeepIs
<1> DEFINE Prefix(i) == Listed(f[i], i) /\ \A j \in 1..i : f[i][j] = list[j]
           S == {i \in Nat : i <= Len(list) => Prefix(i)}
<1>2. 0 \in S
  BY <1>1, KeepSteps DEF Listed
<1>3. ASSUME NEW i \in Nat, i \in S PROVE i + 1 \in S
  <2> SUFFICES ASSUME i + 1 <= Len(list) PROVE Prefix(i + 1)
    OBVIOUS
  <2>1. Prefix(i) /\ i + 1 \in positions
    BY <1>3
  <2>2. f[i + 1] = Append(f[i], list[i + 1])
    BY <1>1, <2>1, KeepSteps
  <2>3. Extends(f[i + 1], f[i], i, list[i + 1])
    BY <2>1, <2>2, ListedAppend
  <2>4. \A j \in 1..(i + 1) : j \in 1..i \/ j = i + 1
    OBVIOUS
  <2> QED BY <2>1, <2>3, <2>4, Zenon DEF Extends
<1> HIDE DEF S
<1>4. Nat \subseteq S
  BY <1>2, <1>3, NaturalsClosed
<1>5. Prefix(Len(list))
  BY <1>4 DEF S
<1> QED BY <1>1, <1>5 DEF Listed

-----------------------------------------------------------------------------
\* One item on its way through coercion and repair.

\* Of an object the declared fields stay or take their default; the result is
\* an item again.
LEMMA CoercedItem ==
  ASSUME NEW s \in Items, s.object = TRUE
  PROVE  /\ CoerceStep(s) \in Items /\ CoerceStep(s).object = TRUE
         /\ CoerceStep(s).type = IF s.type = Missing THEN "model_call" ELSE s.type
         /\ CoerceStep(s).title = IF s.title = Missing THEN Empty ELSE s.title
         /\ CoerceStep(s).instruction = IF s.instruction = Missing THEN Empty ELSE s.instruction
         /\ CoerceStep(s).params = IF s.params = Missing THEN Null ELSE s.params
         /\ CoerceStep(s).alias = Missing
<1> DEFINE D == {"object", "type", "title", "name", "instruction", "alias", "params"}
           c == CoerceStep(s)
<1>1. DOMAIN s = D
  BY DEF Items
<1>2. c = [f \in D |-> CASE f = "object" -> TRUE
                         [] f \in Declared /\ s[f] # Missing -> s[f]
                         [] OTHER -> Default[f]]
  BY <1>1 DEF CoerceStep
<1>3. /\ c.object = TRUE
      /\ c.type = IF s.type = Missing THEN "model_call" ELSE s.type
      /\ c.title = IF s.title = Missing THEN Empty ELSE s.title
      /\ c.instruction = IF s.instruction = Missing THEN Empty ELSE s.instruction
      /\ c.params = IF s.params = Missing THEN Null ELSE s.params
      /\ c.alias = Missing /\ c.name = Missing
  BY <1>2 DEF Declared, Default
<1>4. c \in Items
  <2>1. c = [object |-> c.object, type |-> c.type, title |-> c.title, name |-> c.name,
             instruction |-> c.instruction, alias |-> c.alias, params |-> c.params]
    BY <1>2
  <2>2. /\ c.object \in BOOLEAN /\ c.type \in Types
        /\ c.title \in Falsy \cup {Blank, Text, Junk}
        /\ c.name \in Falsy \cup {Blank, Text, Junk}
        /\ c.instruction \in Falsy \cup {Blank, Text, Junk}
        /\ c.alias \in Falsy \cup {Blank, Text, Junk}
        /\ c.params \in Falsy \cup {Blank, Text, Junk}
    <3>1. {Missing, Null, Empty} \subseteq Falsy
      BY DEF Falsy
    <3>2. s.type \in Types /\ "model_call" \in Types
      BY DEF Items, Types, ALLOWED_STEP_TYPES, AutoSafeTypes
    <3>3. /\ s.title \in Falsy \cup {Blank, Text, Junk}
          /\ s.instruction \in Falsy \cup {Blank, Text, Junk}
          /\ s.params \in Falsy \cup {Blank, Text, Junk}
      BY DEF Items
    <3> HIDE DEF c
    <3>4. c.object \in BOOLEAN /\ c.type \in Types
      BY <1>3, <3>2
    <3>5. /\ c.title \in Falsy \cup {Blank, Text, Junk}
          /\ c.name \in Falsy \cup {Blank, Text, Junk}
      BY <1>3, <3>1, <3>3
    <3>6. /\ c.instruction \in Falsy \cup {Blank, Text, Junk}
          /\ c.alias \in Falsy \cup {Blank, Text, Junk}
          /\ c.params \in Falsy \cup {Blank, Text, Junk}
      BY <1>3, <3>1, <3>3
    <3> QED BY <3>4, <3>5, <3>6
  <2> HIDE DEF c
  <2> QED BY <2>1, <2>2 DEF Items
<1> QED BY <1>3, <1>4

\* What is no object is no object afterwards.
LEMMA CoercedOther ==
  ASSUME NEW s \in Items, s.object # TRUE
  PROVE  CoerceStep(s) = s
BY DEF CoerceStep, Items

LEMMA CoercedIsItem ==
  ASSUME NEW s \in Items PROVE CoerceStep(s) \in Items
BY CoercedItem, CoercedOther

\* Coercion lets repair keep exactly the items of a known type and those
\* without one.
LEMMA CoercedKeptIfKnown ==
  ASSUME NEW s \in Items PROVE Salvageable(CoerceStep(s)) <=> Known(s)
<1>1. CASE s.object = TRUE
  <2>1. "model_call" \in ALLOWED_STEP_TYPES
    BY DEF ALLOWED_STEP_TYPES, AutoSafeTypes
  <2> QED BY <1>1, <2>1, CoercedItem DEF Salvageable, Known
<1>2. CASE s.object # TRUE
  BY <1>2, CoercedOther DEF Salvageable, Known, Items
<1> QED BY <1>1, <1>2

LEMMA RepairedItem ==
  ASSUME NEW s \in Items
  PROVE  /\ RepairStep(s).object = s.object /\ RepairStep(s).type = s.type
         /\ RepairStep(s).params = s.params
         /\ RepairStep(s).instruction = AdoptAlias(s)
         /\ RepairStep(s).title = RepairTitle(s)
BY DEF RepairStep, Items

\* Coercion and repair, each by itself, keep an acceptable step acceptable.
LEMMA CoercionKeepsValid ==
  ASSUME NEW s \in Items, ValidStep(s) PROVE ValidStep(CoerceStep(s))
<1>1. s.object = TRUE /\ s.type \in ALLOWED_STEP_TYPES /\ Missing \notin ALLOWED_STEP_TYPES
  BY DEF ValidStep, Items, ALLOWED_STEP_TYPES, AutoSafeTypes, ReviewTypes, HardGatedTypes, Missing
<1>2. CoerceStep(s).object = TRUE /\ CoerceStep(s).type = s.type
  BY <1>1, CoercedItem
<1>3. CoerceStep(s).title \in Strings /\ CoerceStep(s).instruction \in Strings
  BY <1>1, CoercedItem DEF ValidStep, Strings
<1>4. CoerceStep(s).params # Junk
  BY <1>1, CoercedItem DEF ValidStep, Null, Junk
<1>5. NoText(CoerceStep(s).instruction) <=> NoText(s.instruction)
  BY <1>1, CoercedItem DEF NoText, Falsy
<1> QED BY <1>1, <1>2, <1>3, <1>4, <1>5 DEF ValidStep

LEMMA RepairKeepsValid ==
  ASSUME NEW s \in Items, ValidStep(s) PROVE ValidStep(RepairStep(s))
<1>1. RepairTitle(s) \in Strings
  BY DEF RepairTitle, ValidStep, Strings, Repaired
<1>2. AdoptAlias(s) \in Strings \cup {Missing}
  BY DEF AdoptAlias, ValidStep, Strings, Repaired
<1>3. NoText(AdoptAlias(s)) => NoText(s.instruction)
  BY DEF AdoptAlias, NoText, Falsy, Missing, Null, Zero, Empty, Blank
<1> QED BY <1>1, <1>2, <1>3, RepairedItem DEF ValidStep

\* Repair keeps what an item says, and so does coercion before it.
LEMMA RepairKeepsWords ==
  ASSUME NEW s \in Items PROVE Same(s, RepairStep(s))
<1>1. s.title = Text => RepairTitle(s) = Text
  BY DEF RepairTitle, NoText, Falsy, Missing, Null, Zero, Empty, Blank, Text
<1>2. s.instruction = Text => AdoptAlias(s) = Text
  BY DEF AdoptAlias, NoText, Falsy, Missing, Null, Zero, Empty, Blank, Text
<1> QED BY <1>1, <1>2, RepairedItem DEF Same

LEMMA CoercionKeepsWords ==
  ASSUME NEW s \in Items, s.object = TRUE PROVE Same(s, RepairStep(CoerceStep(s)))
<1> DEFINE c == CoerceStep(s)
<1>1. c \in Items
  BY CoercedIsItem
<1>2. /\ s.type \in {c.type, Missing} /\ s.params \in {c.params, Missing}
      /\ s.title = Text => c.title = Text
      /\ s.instruction = Text => c.instruction = Text
  BY CoercedItem DEF Missing, Text
<1>3. Same(c, RepairStep(c)) /\ RepairStep(c).type = c.type /\ RepairStep(c).params = c.params
  BY <1>1, RepairKeepsWords, RepairedItem
<1> HIDE DEF c
<1>4. Same(s, RepairStep(c))
  BY <1>2, <1>3 DEF Same
<1> QED BY <1>4 DEF c

-----------------------------------------------------------------------------
\* The lists of a plan.

Plans == [object : BOOLEAN, assumptions : Assumptions, list : BOOLEAN, steps : Seq(Items)]

LEMMA ListOfItems ==
  ASSUME NEW steps \in Seq(Items)
  PROVE  /\ Len(steps) \in Nat /\ Listed(steps, Len(steps))
         /\ DOMAIN steps = 1..Len(steps)
         /\ \A i \in 1..Len(steps) : steps[i] \in Items
BY DEF Listed

LEMMA CoercedPlan ==
  ASSUME NEW d \in Plans
  PROVE  /\ Coerce(d) \in Plans
         /\ Coerce(d).object = d.object /\ Coerce(d).list = d.list
         /\ Coerce(d).assumptions = d.assumptions
         /\ Len(Coerce(d).steps) = Len(d.steps)
         /\ \A i \in 1..Len(d.steps) : Coerce(d).steps[i] = CoerceStep(d.steps[i])
<1> DEFINE c == [i \in DOMAIN d.steps |-> CoerceStep(d.steps[i])]
<1>1. d.steps \in Seq(Items)
  BY DEF Plans
<1>2. DOMAIN d.steps = 1..Len(d.steps) /\ Len(d.steps) \in Nat
      /\ \A i \in 1..Len(d.steps) : d.steps[i] \in Items
  BY <1>1
<1>3. \A i \in 1..Len(d.steps) : c[i] = CoerceStep(d.steps[i]) /\ c[i] \in Items
  BY <1>2, CoercedIsItem
<1>4. c = [i \in 1..Len(d.steps) |-> c[i]]
  BY <1>2
<1> HIDE DEF c
<1>5. c \in Seq(Items) /\ Len(c) = Len(d.steps)
  <2>1. c \in [1..Len(d.steps) -> Items]
    BY <1>3, <1>4, Zenon
  <2> QED BY <1>2, <2>1
<1>6. Coerce(d) = [d EXCEPT !.steps = c]
  BY DEF Coerce, c
<1> QED BY <1>3, <1>5, <1>6 DEF Plans

\* What repair keeps of a list: the items at the salvageable positions.
LEMMA SalvageIs ==
  ASSUME NEW steps, NEW n \in Nat, Listed(Keep(steps, SalvageableIn(steps)), n)
  PROVE  /\ Len(Salvage(steps)) = n /\ DOMAIN Salvage(steps) = 1..n
         /\ Len(Keep(steps, SalvageableIn(steps))) = n
         /\ DOMAIN Keep(steps, SalvageableIn(steps)) = 1..n
         /\ \A i \in 1..n : Salvage(steps)[i] = RepairStep(Keep(steps, SalvageableIn(steps))[i])
<1> DEFINE kept == Keep(steps, SalvageableIn(steps))
<1>1. DOMAIN kept = 1..n /\ Len(kept) = n
  BY DEF Listed
<1>2. Salvage(steps) = [i \in DOMAIN kept |-> RepairStep(kept[i])]
  BY DEF Salvage
<1> HIDE DEF kept
<1>3. Salvage(steps) = [i \in 1..n |-> RepairStep(kept[i])]
  BY <1>1, <1>2
<1>4. Len(Salvage(steps)) = n /\ DOMAIN Salvage(steps) = 1..n
      /\ \A i \in 1..n : Salvage(steps)[i] = RepairStep(kept[i])
  BY <1>3
<1> QED BY <1>1, <1>4 DEF kept

\* An acceptable plan is acceptable after repair.
LEMMA RepairedPlan ==
  ASSUME NEW d \in Plans, Valid(d) PROVE Valid(Repair(d))
<1> DEFINE s == d.steps
<1>1. /\ s \in Seq(Items) /\ Len(s) \in Nat /\ Listed(s, Len(s)) /\ DOMAIN s = 1..Len(s)
      /\ \A i \in 1..Len(s) : s[i] \in Items
  BY ListOfItems DEF Plans
<1>2. Len(s) \in 1..MAX_STEPS /\ \A i \in 1..Len(s) : ValidStep(s[i])
  BY <1>1 DEF Valid
<1>3. SalvageableIn(s) = 1..Len(s)
  BY <1>1, <1>2 DEF SalvageableIn, Salvageable, ValidStep
<1>4. Keep(s, SalvageableIn(s)) = s
  BY <1>1, <1>3, KeepAll
<1>5. /\ Len(Salvage(s)) = Len(s) /\ DOMAIN Salvage(s) = 1..Len(s)
      /\ \A i \in 1..Len(s) : Salvage(s)[i] = RepairStep(s[i])
  BY <1>1, <1>4, SalvageIs
<1>6. \A i \in 1..Len(s) : ValidStep(RepairStep(s[i]))
  BY <1>1, <1>2, RepairKeepsValid
<1>7. /\ Repair(d).object = TRUE /\ Repair(d).list = TRUE
      /\ Repair(d).assumptions = "strings" /\ Repair(d).steps = Salvage(s)
  BY DEF Repair, Valid, Plans
<1> HIDE DEF s
<1> QED BY <1>2, <1>5, <1>6, <1>7 DEF Valid

\* ... and after coercion.
LEMMA CoercedPlanIsValid ==
  ASSUME NEW d \in Plans, Valid(d) PROVE Valid(Coerce(d))
<1>1. Len(d.steps) \in Nat /\ DOMAIN d.steps = 1..Len(d.steps)
      /\ \A i \in 1..Len(d.steps) : d.steps[i] \in Items
  BY ListOfItems DEF Plans
<1>2. \A i \in 1..Len(d.steps) : ValidStep(Coerce(d).steps[i])
  BY <1>1, CoercionKeepsValid, CoercedPlan DEF Valid
<1>3. DOMAIN Coerce(d).steps = 1..Len(d.steps)
  BY <1>1, CoercedPlan, ListOfItems DEF Plans
<1> QED BY <1>2, <1>3, CoercedPlan DEF Valid

-----------------------------------------------------------------------------
\* What the prompt explains.

\* What it always explains needs no grant; what a grant adds needs that grant
\* and no other; none of it is withheld from the list of types.
LEMMA ExplainedNeedsNothing ==
  ASSUME NEW t \in Explained
  PROVE  t \in ALLOWED_STEP_TYPES \ NEVER_ADVERTISED_STEP_TYPES /\ RequiredGrant(t) = {}
<1>1. t \in ALLOWED_STEP_TYPES
  BY DEF Explained, ALLOWED_STEP_TYPES, AutoSafeTypes, ReviewTypes, HardGatedTypes
<1>2. t \notin NEVER_ADVERTISED_STEP_TYPES
  BY DEF Explained, NEVER_ADVERTISED_STEP_TYPES
<1>3. RequiredGrant(t) = {}
  BY DEF Explained, RequiredGrant, GRANTABLE_TOOLS, TypesByGrant
<1> QED BY <1>1, <1>2, <1>3

LEMMA GuidanceNeedsItsGrant ==
  ASSUME NEW g \in DOMAIN Guidance, NEW t \in Guidance[g]
  PROVE  t \in ALLOWED_STEP_TYPES \ NEVER_ADVERTISED_STEP_TYPES /\ RequiredGrant(t) = {g}
<1>1. t \in ALLOWED_STEP_TYPES \ NEVER_ADVERTISED_STEP_TYPES
  BY DEF Guidance, NEVER_ADVERTISED_STEP_TYPES, ALLOWED_STEP_TYPES, AutoSafeTypes,
         ReviewTypes, HardGatedTypes
<1>2. RequiredGrant(t) = {g}
  BY DEF Guidance, RequiredGrant, GRANTABLE_TOOLS, TypesByGrant
<1> QED BY <1>1, <1>2

LEMMA NamedIsAdvertised ==
  ASSUME NEW o PROVE Named(o) \subseteq Advertised(o)
<1> SUFFICES ASSUME NEW t \in Named(o) PROVE t \in Advertised(o)
  OBVIOUS
<1>1. CASE t \in Explained
  BY <1>1, ExplainedNeedsNothing DEF Advertised
<1>2. CASE t \notin Explained
  <2>1. PICK g \in GrantedTools(o) \cap DOMAIN Guidance : t \in Guidance[g]
    BY <1>2 DEF Named
  <2>2. t \in ALLOWED_STEP_TYPES \ NEVER_ADVERTISED_STEP_TYPES /\ RequiredGrant(t) = {g}
    BY <2>1, GuidanceNeedsItsGrant
  <2> QED BY <2>1, <2>2 DEF Advertised
<1> QED BY <1>1, <1>2

\* Every state's prompt offers only what the gate permits.
OfferInv ==
  \/ offered = {} /\ named = {}
  \/ offered = Advertised(opts) /\ named = Named(opts)

\* The prompt offers only what can run, and guides to nothing else
\* (advertised_step_types and build_planner_prompt against
\* permission_block_reason), for every set of stored grants.
THEOREM OffersOnlyRunnableHolds == Spec => []OffersOnlyRunnable
<1>1. Init => OfferInv
  BY DEF Init, OfferInv
<1>2. OfferInv /\ [Next]_vars => OfferInv'
  <2> SUFFICES ASSUME OfferInv, [Next]_vars PROVE OfferInv'
    OBVIOUS
  <2>1. CASE BuildPrompt
    BY <2>1 DEF BuildPrompt, OfferInv, Advertised, Named, GrantedTools, StringMembers
  <2>2. CASE Return
    BY <2>2 DEF Return, OfferInv
  <2>3. CASE ReturnNoPlan
    BY <2>3 DEF ReturnNoPlan, OfferInv
  <2>4. CASE RepairPlan
    BY <2>4 DEF RepairPlan, OfferInv
  <2>5. CASE ValidatePlan
    BY <2>5 DEF ValidatePlan, OfferInv
  <2>6. CASE UNCHANGED vars
    BY <2>6 DEF vars, OfferInv
  <2> QED BY <2>1, <2>2, <2>3, <2>4, <2>5, <2>6 DEF Next
<1>3. OfferInv => OffersOnlyRunnable
  <2> SUFFICES ASSUME OfferInv PROVE OffersOnlyRunnable
    OBVIOUS
  <2>1. CASE offered = {} /\ named = {}
    BY <2>1 DEF OffersOnlyRunnable
  <2>2. CASE offered = Advertised(opts) /\ named = Named(opts)
    <3>1. \A t \in Advertised(opts) : Permitted(opts, t) /\ t \notin NEVER_ADVERTISED_STEP_TYPES
      BY DEF Advertised, Permitted
    <3> QED BY <2>2, <3>1, NamedIsAdvertised DEF OffersOnlyRunnable
  <2> QED BY <2>1, <2>2 DEF OfferInv
<1> QED BY <1>1, <1>2, <1>3, PTL DEF Spec

-----------------------------------------------------------------------------
\* A plan on its way.

Answered == {raw, Coerce(raw)}

PlanInv ==
  /\ opts.grants \in GrantLists
  /\ raw \in Plans
  /\ phase = "model" => raw = Nothing
  /\ phase = "repair" => data \in Answered
  /\ phase \in {"validate", "accepted"} => \E d \in Answered : data = Repair(d)
  /\ phase = "accepted" => Valid(data)

LEMMA NothingIsAPlan == Nothing \in Plans
BY DEF Nothing, Plans, Assumptions

LEMMA PlanInvInductive == Spec => []PlanInv
<1>1. Init => PlanInv
  BY NothingIsAPlan DEF Init, PlanInv
<1>2. PlanInv /\ [Next]_vars => PlanInv'
  <2> SUFFICES ASSUME PlanInv, [Next]_vars PROVE PlanInv'
    OBVIOUS
  <2>1. CASE BuildPrompt
    BY <2>1, NothingIsAPlan DEF BuildPrompt, PlanInv
  <2>2. CASE Return
    <3>1. /\ phase = "model" /\ phase' = "repair" /\ data' \in {raw', Coerce(raw')}
          /\ UNCHANGED opts
      BY <2>2 DEF Return
    <3>2. PICK steps \in RawPlans[opts.grants], a \in Assumptions :
            raw' = [raw EXCEPT !.steps = steps, !.assumptions = a]
      BY <2>2 DEF Return
    <3>3. steps \in Seq(Items)
      BY PlanningAssumption DEF PlanInv
    <3>4. raw' \in Plans
      BY <3>2, <3>3 DEF PlanInv, Plans
    <3> QED BY <3>1, <3>4 DEF PlanInv, Answered
  <2>3. CASE ReturnNoPlan
    <3>1. /\ phase = "model" /\ phase' = "repair" /\ data' = raw' /\ UNCHANGED opts
          /\ raw' \in {[raw EXCEPT !.object = FALSE],
                       [raw EXCEPT !.list = FALSE, !.assumptions = "notAList"]}
      BY <2>3 DEF ReturnNoPlan
    <3>2. raw' \in Plans
      BY <3>1 DEF PlanInv, Plans, Assumptions
    <3> QED BY <3>1, <3>2 DEF PlanInv, Answered
  <2>4. CASE RepairPlan
    BY <2>4 DEF RepairPlan, PlanInv, Answered
  <2>5. CASE ValidatePlan
    <3>1. /\ phase = "validate" /\ UNCHANGED <<opts, raw, data>>
          /\ phase' \in {"accepted", "prompt", "failed"}
          /\ phase' = "accepted" => Valid(data)
      BY <2>5 DEF ValidatePlan
    <3>2. Valid(data) => Valid(data')
      BY <3>1, Zenon
    <3>3. \E d \in {raw', Coerce(raw')} : data' = Repair(d)
      BY <3>1 DEF PlanInv, Answered
    <3> QED BY <3>1, <3>2, <3>3 DEF PlanInv, Answered
  <2>6. CASE UNCHANGED vars
    BY <2>6 DEF vars, PlanInv, Answered, Valid
  <2> QED BY <2>1, <2>2, <2>3, <2>4, <2>5, <2>6 DEF Next
<1> QED BY <1>1, <1>2, PTL DEF Spec

\* Coercion and repair only widen what is accepted (planning.py, on
\* repair_plan_data): a plan of any length that is acceptable as it was written
\* is acceptable when it reaches the validator.
THEOREM RepairOnlyWidensHolds == Spec => []RepairOnlyWidens
<1>1. PlanInv => RepairOnlyWidens
  <2> SUFFICES ASSUME PlanInv, phase = "validate", Valid(raw) PROVE Valid(data)
    BY DEF RepairOnlyWidens
  <2>1. raw \in Plans /\ Coerce(raw) \in Plans /\ Valid(Coerce(raw))
    BY CoercedPlan, CoercedPlanIsValid DEF PlanInv
  <2>2. data = Repair(raw) \/ data = Repair(Coerce(raw))
    BY DEF PlanInv, Answered
  <2>3. Valid(Repair(raw)) /\ Valid(Repair(Coerce(raw)))
    BY <2>1, RepairedPlan
  <2> QED BY <2>2, <2>3, Zenon
<1> QED BY <1>1, PlanInvInductive, PTL

\* What repair makes of a list of items, item by item.
LEMMA SalvageKeepsWords ==
  ASSUME NEW steps \in Seq(Items)
  PROVE  LET kept == Keep(steps, SalvageableIn(steps))
         IN  /\ Len(kept) = Len(Salvage(steps))
             /\ \A i \in DOMAIN kept : Same(kept[i], Salvage(steps)[i])
<1> DEFINE kept == Keep(steps, SalvageableIn(steps))
<1>1. Len(steps) \in Nat /\ \A k \in 1..Len(steps) : steps[k] \in Items
  OBVIOUS
<1>2. PICK n \in 0..Len(steps) :
        /\ Listed(kept, n)
        /\ \A j \in 1..n : \E k \in 1..Len(steps) : kept[j] = steps[k]
  <2>1. PICK n \in 0..Len(steps) :
          /\ Listed(kept, n) /\ Listed(kept, n)
          /\ \A j \in 1..n : \E k \in 1..Len(steps) :
               k \in SalvageableIn(steps) /\ kept[j] = steps[k] /\ kept[j] = steps[k]
    <3>1. KeptAlike(kept, kept, steps, steps, SalvageableIn(steps))
      BY <1>1, KeepTogether
    <3> QED BY <3>1, Zenon DEF KeptAlike
  <2> QED BY <2>1
<1>3. /\ Len(Salvage(steps)) = n /\ Len(kept) = n /\ DOMAIN kept = 1..n
      /\ \A i \in 1..n : Salvage(steps)[i] = RepairStep(kept[i])
  <2>1. n \in Nat
    BY <1>1
  <2> QED BY <1>2, <2>1, SalvageIs
<1> HIDE DEF kept
<1>4. \A i \in 1..n : kept[i] \in Items
  BY <1>1, <1>2
<1>5. \A i \in 1..n : Same(kept[i], RepairStep(kept[i]))
  BY <1>4, RepairKeepsWords
<1>6. Len(kept) = Len(Salvage(steps)) /\ \A i \in DOMAIN kept : Same(kept[i], Salvage(steps)[i])
  BY <1>3, <1>5
<1> QED BY <1>6, Zenon DEF kept

\* ... and of the list after coercion.
LEMMA SalvageAfterCoercion ==
  ASSUME NEW d \in Plans
  PROVE  LET kept == Keep(d.steps, KnownIn(d.steps))
             made == Salvage(Coerce(d).steps)
         IN  Len(kept) = Len(made) /\ \A i \in DOMAIN kept : Same(kept[i], made[i])
<1> DEFINE s == d.steps
           t == Coerce(d).steps
           kept == Keep(s, KnownIn(s))
           made == Salvage(t)
<1>1. /\ Len(s) \in Nat /\ DOMAIN s = 1..Len(s)
      /\ \A k \in 1..Len(s) : s[k] \in Items
  BY ListOfItems DEF Plans
<1>2. Len(t) = Len(s) /\ DOMAIN t = 1..Len(s) /\ \A k \in 1..Len(s) : t[k] = CoerceStep(s[k])
  BY CoercedPlan, ListOfItems DEF Plans
<1>3. SalvageableIn(t) = KnownIn(s)
  <2> HIDE DEF s, t
  <2> QED BY <1>1, <1>2, CoercedKeptIfKnown DEF SalvageableIn, KnownIn
<1> HIDE DEF s, t
<1>4. PICK n \in 0..Len(s) :
        /\ Listed(kept, n) /\ Listed(Keep(t, KnownIn(s)), n)
        /\ \A j \in 1..n : \E k \in 1..Len(s) :
             k \in KnownIn(s) /\ kept[j] = s[k] /\ Keep(t, KnownIn(s))[j] = t[k]
  <2>1. KeptAlike(kept, Keep(t, KnownIn(s)), s, t, KnownIn(s))
    BY <1>1, <1>2, KeepTogether
  <2> QED BY <2>1, Zenon DEF KeptAlike
<1>5. Len(kept) = n /\ DOMAIN kept = 1..n
  BY <1>1, <1>4 DEF Listed
<1>6. Len(made) = n /\ \A i \in 1..n : made[i] = RepairStep(Keep(t, KnownIn(s))[i])
  <2>1. n \in Nat
    BY <1>1
  <2> QED BY <1>3, <1>4, <2>1, SalvageIs
<1> HIDE DEF made
<1>7. ASSUME NEW i \in 1..n PROVE Same(kept[i], made[i])
  <2> HIDE DEF kept
  <2>1. PICK k \in 1..Len(s) : k \in KnownIn(s) /\ kept[i] = s[k] /\ Keep(t, KnownIn(s))[i] = t[k]
    BY <1>4
  <2>2. s[k] \in Items /\ s[k].object = TRUE
    BY <1>1, <2>1 DEF KnownIn, Known, Items
  <2>3. Same(s[k], RepairStep(CoerceStep(s[k])))
    BY <2>2, CoercionKeepsWords
  <2>4. made[i] = RepairStep(CoerceStep(s[k]))
    BY <1>2, <1>6, <2>1
  <2> QED BY <2>1, <2>3, <2>4
<1> HIDE DEF kept
<1>8. Len(kept) = Len(made) /\ \A i \in DOMAIN kept : Same(kept[i], made[i])
  BY <1>5, <1>6, <1>7
<1> QED BY <1>8, Zenon DEF kept, made, s, t

\* A plan of any length that is accepted is what the model wrote: its steps of
\* a known type, in their order, none cut off, with their text and parameters
\* (repair_plan_data, SlimXAgentPlanStep).
THEOREM AcceptedIsWhatWasWrittenHolds == Spec => []AcceptedIsWhatWasWritten
<1>1. PlanInv => AcceptedIsWhatWasWritten
  <2> SUFFICES ASSUME PlanInv, phase = "accepted"
               PROVE  \E kept \in {Keep(raw.steps, SalvageableIn(raw.steps)),
                                   Keep(raw.steps, KnownIn(raw.steps))} :
                        /\ Len(kept) = Len(data.steps)
                        /\ \A i \in DOMAIN kept : Same(kept[i], data.steps[i])
    BY DEF AcceptedIsWhatWasWritten
  <2>1. PICK d \in Answered : data = Repair(d)
    BY DEF PlanInv
  <2>2. raw \in Plans /\ d \in Plans /\ d.object = TRUE /\ raw.steps \in Seq(Items)
    <3>1. raw \in Plans /\ d \in Plans
      BY CoercedPlan DEF PlanInv, Answered
    <3>2. data.object = TRUE
      <4>1. data.object
        BY DEF PlanInv, Valid
      <4> QED BY <2>1, <3>1, <4>1 DEF Repair, Plans
    <3> QED BY <2>1, <3>1, <3>2 DEF Repair, Plans
  <2>3. data.steps = Salvage(d.steps)
    BY <2>1, <2>2 DEF Repair, Plans
  <2>4. CASE d = raw
    BY <2>2, <2>3, <2>4, SalvageKeepsWords, Zenon
  <2>5. CASE d = Coerce(raw)
    BY <2>2, <2>3, <2>5, SalvageAfterCoercion, Zenon
  <2> QED BY <2>4, <2>5 DEF Answered
<1> QED BY <1>1, PlanInvInductive, PTL
=============================================================================
