------------------------- MODULE NestedRecordsProofs -------------------------
(***************************************************************************)
(* What the policy functions guarantee for schemas and records nested to   *)
(* any depth: the limits count every level, and what is published shows    *)
(* exactly the fields that are public at every level.  The recursion goes  *)
(* down the field definitions; Recursion gives the equation of each        *)
(* recursive function and the induction on their height.                   *)
(***************************************************************************)
EXTENDS NestedRecords, FiniteSetTheorems, SequenceTheorems, TLAPS

-----------------------------------------------------------------------------
(* The recursive functions have the equations they are defined by.         *)

CountStep(g, def) ==
    CASE def.type = "object" -> CountWith(def.fields, g)
      [] def.type = "array"  -> g[def.items]
      [] OTHER               -> 0

FormStep(g, def) ==
    [depth \in Nat |->
        /\ def.type = "object" => WellFormedFields(def.fields, depth + 1, g)
        /\ def.type = "array" => g[def.items][depth + 1]]

PathsStep(g, def) ==
    CASE def.type = "object" -> PathsOf([f \in DOMAIN def.fields |-> g[def.fields[f].def]])
      [] def.type = "array"  -> g[def.items]
      [] OTHER               -> {}

PublicStep(g, def) ==
    CASE def.type = "object" ->
            PathsOf([f \in PublicIds(def.fields) |-> g[def.fields[f].def]])
      [] def.type = "array"  -> g[def.items]
      [] OTHER               -> {}

ValuePathsStep(g, value) ==
    CASE value.is = "object" -> PathsOf([f \in DOMAIN value.at |-> g[value.at[f]]])
      [] value.is = "array"  -> UNION {g[value.items[k]] : k \in DOMAIN value.items}
      [] OTHER               -> {}

VerdictStep(g, pair) == TypeVerdicts(pair[1], pair[2], g)

ProjectStep(g, pair) == PublicCopy(pair[1], pair[2], g)

Pairs == Definitions \X Values
PairHeight(pair) == DefinitionHeight(pair[1])

Count == INSTANCE Recursion WITH S <- Definitions, Rank <- DefinitionHeight, Step <- CountStep
Form == INSTANCE Recursion WITH S <- Definitions, Rank <- DefinitionHeight, Step <- FormStep
Paths == INSTANCE Recursion WITH S <- Definitions, Rank <- DefinitionHeight, Step <- PathsStep
Public == INSTANCE Recursion WITH S <- Definitions, Rank <- DefinitionHeight, Step <- PublicStep
Below == INSTANCE Recursion WITH S <- Values, Rank <- ValueHeight, Step <- ValuePathsStep
Verdict == INSTANCE Recursion WITH S <- Pairs, Rank <- PairHeight, Step <- VerdictStep
Projected == INSTANCE Recursion WITH S <- Accepted, Rank <- PairHeight, Step <- ProjectStep

\* What is inside a definition is a definition, and lower.
LEMMA InsideDefinition ==
    ASSUME NEW def \in Definitions
    PROVE  /\ def.type = "array" => /\ def.items \in Definitions
                                    /\ DefinitionHeight(def.items) < DefinitionHeight(def)
           /\ def.type = "object" => \A f \in DOMAIN def.fields :
                 /\ def.fields[f].def \in Definitions
                 /\ DefinitionHeight(def.fields[f].def) < DefinitionHeight(def)
  BY DefinitionsAssumption DEF Parts

LEMMA InsideValue ==
    ASSUME NEW value \in Values
    PROVE  /\ value.is = "array" => \A k \in DOMAIN value.items :
                 /\ value.items[k] \in Values
                 /\ ValueHeight(value.items[k]) < ValueHeight(value)
           /\ value.is = "object" => \A f \in DOMAIN value.at :
                 /\ value.at[f] \in Values
                 /\ ValueHeight(value.at[f]) < ValueHeight(value)
  BY ValuesAssumption DEF ValueParts

LEMMA CountEquation == NestedCount = [def \in Definitions |-> CountStep(NestedCount, def)]
  <1>1. Count!Ranked
    BY DefinitionsAssumption DEF Count!Ranked
  <1>2. ASSUME NEW def \in Definitions, NEW g, NEW h,
               \A y \in Definitions : DefinitionHeight(y) < DefinitionHeight(def) => g[y] = h[y]
        PROVE  CountStep(g, def) = CountStep(h, def)
    <2>1. CASE def.type = "object"
      <3>1. \A f \in DOMAIN def.fields : g[def.fields[f].def] = h[def.fields[f].def]
        BY <1>2, <2>1, InsideDefinition
      <3>2. CountWith(def.fields, g) = CountWith(def.fields, h)
        BY <3>1 DEF CountWith
      <3> QED
        BY <2>1, <3>2 DEF CountStep
    <2>2. CASE def.type = "array"
      BY <1>2, <2>2, InsideDefinition DEF CountStep
    <2> QED
      BY <2>1, <2>2 DEF CountStep
  <1>3. Count!Founded
    BY <1>2 DEF Count!Founded
  <1>4. NestedCount = Count!Solution
    BY DEF NestedCount, Count!Solution, CountStep
  <1> QED
    BY <1>1, <1>3, <1>4, Count!Unfolding

LEMMA FormEquation == WellFormed = [def \in Definitions |-> FormStep(WellFormed, def)]
  <1>1. Form!Ranked
    BY DefinitionsAssumption DEF Form!Ranked
  <1>2. ASSUME NEW def \in Definitions, NEW g, NEW h,
               \A y \in Definitions : DefinitionHeight(y) < DefinitionHeight(def) => g[y] = h[y]
        PROVE  FormStep(g, def) = FormStep(h, def)
    <2>1. CASE def.type = "object"
      <3>1. \A f \in DOMAIN def.fields : g[def.fields[f].def] = h[def.fields[f].def]
        BY <1>2, <2>1, InsideDefinition
      <3>2. \A depth \in Nat : WellFormedFields(def.fields, depth + 1, g)
                                  = WellFormedFields(def.fields, depth + 1, h)
        BY <3>1 DEF WellFormedFields
      <3> QED
        BY <2>1, <3>2 DEF FormStep
    <2>2. CASE def.type = "array"
      BY <1>2, <2>2, InsideDefinition DEF FormStep
    <2> QED
      BY <2>1, <2>2 DEF FormStep
  <1>3. Form!Founded
    BY <1>2 DEF Form!Founded
  <1>4. WellFormed = Form!Solution
    BY DEF WellFormed, Form!Solution, FormStep
  <1> QED
    BY <1>1, <1>3, <1>4, Form!Unfolding

LEMMA PathsEquation == PathsBelow = [def \in Definitions |-> PathsStep(PathsBelow, def)]
  <1>1. Paths!Ranked
    BY DefinitionsAssumption DEF Paths!Ranked
  <1>2. ASSUME NEW def \in Definitions, NEW g, NEW h,
               \A y \in Definitions : DefinitionHeight(y) < DefinitionHeight(def) => g[y] = h[y]
        PROVE  PathsStep(g, def) = PathsStep(h, def)
    <2>1. CASE def.type = "object"
      <3>1. [f \in DOMAIN def.fields |-> g[def.fields[f].def]]
               = [f \in DOMAIN def.fields |-> h[def.fields[f].def]]
        BY <1>2, <2>1, InsideDefinition
      <3> QED
        BY <2>1, <3>1 DEF PathsStep
    <2>2. CASE def.type = "array"
      BY <1>2, <2>2, InsideDefinition DEF PathsStep
    <2> QED
      BY <2>1, <2>2 DEF PathsStep
  <1>3. Paths!Founded
    BY <1>2 DEF Paths!Founded
  <1>4. PathsBelow = Paths!Solution
    BY DEF PathsBelow, Paths!Solution, PathsStep
  <1> QED
    BY <1>1, <1>3, <1>4, Paths!Unfolding

LEMMA PublicEquation == PublicBelow = [def \in Definitions |-> PublicStep(PublicBelow, def)]
  <1>1. Public!Ranked
    BY DefinitionsAssumption DEF Public!Ranked
  <1>2. ASSUME NEW def \in Definitions, NEW g, NEW h,
               \A y \in Definitions : DefinitionHeight(y) < DefinitionHeight(def) => g[y] = h[y]
        PROVE  PublicStep(g, def) = PublicStep(h, def)
    <2>1. CASE def.type = "object"
      <3>1. [f \in PublicIds(def.fields) |-> g[def.fields[f].def]]
               = [f \in PublicIds(def.fields) |-> h[def.fields[f].def]]
        BY <1>2, <2>1, InsideDefinition DEF PublicIds
      <3> QED
        BY <2>1, <3>1 DEF PublicStep
    <2>2. CASE def.type = "array"
      BY <1>2, <2>2, InsideDefinition DEF PublicStep
    <2> QED
      BY <2>1, <2>2 DEF PublicStep
  <1>3. Public!Founded
    BY <1>2 DEF Public!Founded
  <1>4. PublicBelow = Public!Solution
    BY DEF PublicBelow, Public!Solution, PublicStep
  <1> QED
    BY <1>1, <1>3, <1>4, Public!Unfolding

LEMMA BelowEquation ==
    ValuePathsBelow = [value \in Values |-> ValuePathsStep(ValuePathsBelow, value)]
  <1>1. Below!Ranked
    BY ValuesAssumption DEF Below!Ranked
  <1>2. ASSUME NEW value \in Values, NEW g, NEW h,
               \A y \in Values : ValueHeight(y) < ValueHeight(value) => g[y] = h[y]
        PROVE  ValuePathsStep(g, value) = ValuePathsStep(h, value)
    <2>1. CASE value.is = "object"
      <3>1. [f \in DOMAIN value.at |-> g[value.at[f]]] = [f \in DOMAIN value.at |-> h[value.at[f]]]
        BY <1>2, <2>1, InsideValue
      <3> QED
        BY <2>1, <3>1 DEF ValuePathsStep
    <2>2. CASE value.is = "array"
      <3>1. \A k \in DOMAIN value.items : g[value.items[k]] = h[value.items[k]]
        BY <1>2, <2>2, InsideValue
      <3>2. UNION {g[value.items[k]] : k \in DOMAIN value.items}
               = UNION {h[value.items[k]] : k \in DOMAIN value.items}
        BY <3>1
      <3> QED
        BY <2>2, <3>2 DEF ValuePathsStep
    <2> QED
      BY <2>1, <2>2 DEF ValuePathsStep
  <1>3. Below!Founded
    BY <1>2 DEF Below!Founded
  <1>4. ValuePathsBelow = Below!Solution
    BY DEF ValuePathsBelow, Below!Solution, ValuePathsStep
  <1> QED
    BY <1>1, <1>3, <1>4, Below!Unfolding

LEMMA VerdictEquation == ValueVerdicts = [pair \in Pairs |-> VerdictStep(ValueVerdicts, pair)]
  <1>1. Verdict!Ranked
    BY DefinitionsAssumption DEF Verdict!Ranked, Pairs, PairHeight
  <1>2. ASSUME NEW pair \in Pairs, NEW g, NEW h,
               \A y \in Pairs : PairHeight(y) < PairHeight(pair) => g[y] = h[y]
        PROVE  VerdictStep(g, pair) = VerdictStep(h, pair)
    <2> DEFINE def == pair[1]
               value == pair[2]
    <2>1. def \in Definitions /\ value \in Values
      BY DEF Pairs
    <2>2. ASSUME NEW d \in Definitions, NEW v \in Values, DefinitionHeight(d) < DefinitionHeight(def)
          PROVE  g[<<d, v>>] = h[<<d, v>>]
      BY <1>2, <2>2 DEF Pairs, PairHeight
    <2> HIDE DEF def, value
    <2>3. CASE def.type = value.is /\ def.type = "object"
      <3> DEFINE G == UNION {g[<<def.fields[f].def, value.at[f]>>] : f \in DOMAIN value.at}
                 H == UNION {h[<<def.fields[f].def, value.at[f]>>] : f \in DOMAIN value.at}
      <3>1. DOMAIN value.at \subseteq DOMAIN def.fields =>
               \A f \in DOMAIN value.at : g[<<def.fields[f].def, value.at[f]>>]
                                             = h[<<def.fields[f].def, value.at[f]>>]
        BY <2>1, <2>2, <2>3, InsideDefinition, InsideValue
      <3>2. DOMAIN value.at \subseteq DOMAIN def.fields => G = H
        BY <3>1
      <3>3. ObjectVerdicts(def.fields, value.at, g) = ObjectVerdicts(def.fields, value.at, h)
        <4> HIDE DEF G, H
        <4>1. /\ ObjectVerdicts(def.fields, value.at, g)
                    = IF ~(DOMAIN value.at \subseteq DOMAIN def.fields)
                           \/ MissesRequired(def.fields, value.at)
                      THEN {"invalid"} ELSE FirstFailure(G)
              /\ ObjectVerdicts(def.fields, value.at, h)
                    = IF ~(DOMAIN value.at \subseteq DOMAIN def.fields)
                           \/ MissesRequired(def.fields, value.at)
                      THEN {"invalid"} ELSE FirstFailure(H)
          BY DEF ObjectVerdicts, G, H
        <4> QED
          BY <3>2, <4>1
      <3> QED
        BY <2>3, <3>3 DEF VerdictStep, TypeVerdicts, def, value
    <2>4. CASE def.type = value.is /\ def.type = "array"
      <3>1. \A k \in DOMAIN value.items : g[<<def.items, value.items[k]>>]
                                             = h[<<def.items, value.items[k]>>]
        BY <2>1, <2>2, <2>4, InsideDefinition, InsideValue
      <3>2. UNION {g[<<def.items, value.items[k]>>] : k \in DOMAIN value.items}
               = UNION {h[<<def.items, value.items[k]>>] : k \in DOMAIN value.items}
        BY <3>1
      <3> QED
        BY <2>4, <3>2 DEF VerdictStep, TypeVerdicts, def, value
    <2>5. CASE def.type # value.is \/ def.type \in {"text", "number"}
      BY <2>5 DEF VerdictStep, TypeVerdicts, def, value
    <2>6. def.type \in Types
      BY <2>1, DefinitionsAssumption
    <2> QED
      BY <2>3, <2>4, <2>5, <2>6 DEF Types
  <1>3. Verdict!Founded
    BY <1>2 DEF Verdict!Founded
  <1>4. ValueVerdicts = Verdict!Solution
    BY DEF ValueVerdicts, Verdict!Solution, VerdictStep, Pairs
  <1> QED
    BY <1>1, <1>3, <1>4, Verdict!Unfolding

-----------------------------------------------------------------------------
(* What an accepted value is made of.                                      *)

LEMMA FailuresComeFirst ==
    ASSUME NEW O
    PROVE  FirstFailure(O) # {} /\ ("ok" \in FirstFailure(O) => O \subseteq {"ok"})
  BY DEF FirstFailure

\* Validation always comes to an outcome.
LEMMA SomeVerdict ==
    ASSUME NEW pair \in Pairs
    PROVE  ValueVerdicts[pair] # {}
  <1> DEFINE def == pair[1]
             value == pair[2]
  <1>1. def \in Definitions /\ value \in Values /\ def.type \in Types
    BY DefinitionsAssumption DEF Pairs
  <1>2. ValueVerdicts[pair] = TypeVerdicts(def, value, ValueVerdicts)
    BY VerdictEquation DEF VerdictStep
  <1> HIDE DEF def, value
  <1>3. ObjectVerdicts(def.fields, value.at, ValueVerdicts) # {}
    BY FailuresComeFirst DEF ObjectVerdicts
  <1>4. NumberVerdicts(def, value.n) # {}
    BY DEF NumberVerdicts
  <1> QED
    BY <1>1, <1>2, <1>3, <1>4, FailuresComeFirst DEF TypeVerdicts, Types

LEMMA SomeVerdictOf ==
    ASSUME NEW def \in Definitions, NEW value \in Values
    PROVE  ValueVerdicts[<<def, value>>] # {}
  BY SomeVerdict DEF Pairs

LEMMA AcceptedPair ==
    ASSUME NEW pair \in Accepted
    PROVE  /\ pair \in Pairs
           /\ pair[1] \in Definitions
           /\ pair[2] \in Values
           /\ pair = <<pair[1], pair[2]>>
           /\ pair[1].type \in Types
           /\ pair[1].type = pair[2].is
           /\ "ok" \in TypeVerdicts(pair[1], pair[2], ValueVerdicts)
  <1>1. pair \in Pairs /\ "ok" \in ValueVerdicts[pair]
    BY DEF Accepted, Pairs
  <1>2. "ok" \in TypeVerdicts(pair[1], pair[2], ValueVerdicts)
    BY <1>1, VerdictEquation DEF VerdictStep
  <1>3. pair[1].type = pair[2].is
    BY <1>2 DEF TypeVerdicts
  <1> QED
    BY <1>1, <1>2, <1>3, DefinitionsAssumption DEF Pairs

\* The definitions and the values of the fields of an accepted object.
LEMMA AcceptedFields ==
    ASSUME NEW fields, NEW values,
           "ok" \in ObjectVerdicts(fields, values, ValueVerdicts),
           \A f \in DOMAIN fields : fields[f].def \in Definitions,
           \A f \in DOMAIN values : values[f] \in Values
    PROVE  /\ DOMAIN values \subseteq DOMAIN fields
           /\ \A f \in DOMAIN values : <<fields[f].def, values[f]>> \in Accepted
  <1> DEFINE Of(f) == ValueVerdicts[<<fields[f].def, values[f]>>]
  <1>1. /\ DOMAIN values \subseteq DOMAIN fields
        /\ "ok" \in FirstFailure(UNION {Of(f) : f \in DOMAIN values})
    BY DEF ObjectVerdicts
  <1>2. UNION {Of(f) : f \in DOMAIN values} \subseteq {"ok"}
    <2> HIDE DEF Of
    <2> QED
      BY <1>1, FailuresComeFirst
  <1>3. ASSUME NEW f \in DOMAIN values PROVE <<fields[f].def, values[f]>> \in Accepted
    <2>1. fields[f].def \in Definitions /\ values[f] \in Values
      BY <1>1
    <2>2. Of(f) # {} /\ Of(f) \subseteq {"ok"}
      BY <1>2, <2>1, SomeVerdictOf
    <2> QED
      BY <2>1, <2>2 DEF Accepted
  <1> QED
    BY <1>1, <1>3

LEMMA AcceptedObject ==
    ASSUME NEW def \in Definitions, NEW value \in Values, <<def, value>> \in Accepted,
           def.type = "object"
    PROVE  /\ value.is = "object"
           /\ DOMAIN value.at \subseteq DOMAIN def.fields
           /\ \A f \in DOMAIN value.at : <<def.fields[f].def, value.at[f]>> \in Accepted
  <1>1. "ok" \in TypeVerdicts(def, value, ValueVerdicts) /\ value.is = "object"
    BY AcceptedPair
  <1>2. "ok" \in ObjectVerdicts(def.fields, value.at, ValueVerdicts)
    BY <1>1 DEF TypeVerdicts
  <1>3. /\ \A f \in DOMAIN def.fields : def.fields[f].def \in Definitions
        /\ \A f \in DOMAIN value.at : value.at[f] \in Values
    BY <1>1, InsideDefinition, InsideValue
  <1> QED
    BY <1>1, <1>2, <1>3, AcceptedFields

LEMMA AcceptedArray ==
    ASSUME NEW def \in Definitions, NEW value \in Values, <<def, value>> \in Accepted,
           def.type = "array"
    PROVE  /\ value.is = "array"
           /\ \A k \in DOMAIN value.items : <<def.items, value.items[k]>> \in Accepted
  <1> DEFINE Of(k) == ValueVerdicts[<<def.items, value.items[k]>>]
  <1>1. "ok" \in TypeVerdicts(def, value, ValueVerdicts) /\ value.is = "array"
    BY AcceptedPair
  <1>2. "ok" \in FirstFailure(UNION {Of(k) : k \in DOMAIN value.items})
    BY <1>1 DEF TypeVerdicts
  <1>3. UNION {Of(k) : k \in DOMAIN value.items} \subseteq {"ok"}
    <2> HIDE DEF Of
    <2> QED
      BY <1>2, FailuresComeFirst
  <1>4. ASSUME NEW k \in DOMAIN value.items PROVE <<def.items, value.items[k]>> \in Accepted
    <2>1. def.items \in Definitions /\ value.items[k] \in Values
      BY <1>1, InsideDefinition, InsideValue
    <2>2. Of(k) # {} /\ Of(k) \subseteq {"ok"}
      BY <1>3, <2>1, SomeVerdictOf
    <2> QED
      BY <2>1, <2>2 DEF Accepted
  <1> QED
    BY <1>1, <1>4

LEMMA ProjectEquation == ProjectValue = [pair \in Accepted |-> ProjectStep(ProjectValue, pair)]
  <1>1. Projected!Ranked
    BY AcceptedPair, DefinitionsAssumption DEF Projected!Ranked, PairHeight
  <1>2. ASSUME NEW pair \in Accepted, NEW g, NEW h,
               \A y \in Accepted : PairHeight(y) < PairHeight(pair) => g[y] = h[y]
        PROVE  ProjectStep(g, pair) = ProjectStep(h, pair)
    <2> DEFINE def == pair[1]
               value == pair[2]
    <2>1. def \in Definitions /\ value \in Values /\ <<def, value>> \in Accepted
      BY AcceptedPair
    <2>2. ASSUME NEW d, NEW v, <<d, v>> \in Accepted, DefinitionHeight(d) < DefinitionHeight(def)
          PROVE  g[<<d, v>>] = h[<<d, v>>]
      BY <1>2, <2>2 DEF PairHeight
    <2> HIDE DEF def, value
    <2>3. CASE def.type = "object"
      <3>1. \A f \in DOMAIN def.fields \cap DOMAIN value.at :
               g[<<def.fields[f].def, value.at[f]>>] = h[<<def.fields[f].def, value.at[f]>>]
        BY <2>1, <2>2, <2>3, InsideDefinition, AcceptedObject
      <3>2. Projection(def.fields, value.at, g) = Projection(def.fields, value.at, h)
        BY <3>1 DEF Projection, Shown
      <3> QED
        BY <2>3, <3>2 DEF ProjectStep, PublicCopy, def, value
    <2>4. CASE IsArrayOfObjects(def)
      <3>1. \A k \in DOMAIN value.items : g[<<def.items, value.items[k]>>]
                                             = h[<<def.items, value.items[k]>>]
        BY <2>1, <2>2, <2>4, InsideDefinition, AcceptedArray DEF IsArrayOfObjects
      <3> QED
        BY <2>4, <3>1 DEF ProjectStep, PublicCopy, IsArrayOfObjects, def, value
    <2> QED
      BY <2>3, <2>4 DEF ProjectStep, PublicCopy, def, value
  <1>3. Projected!Founded
    BY <1>2 DEF Projected!Founded
  <1>4. ProjectValue = Projected!Solution
    BY DEF ProjectValue, Projected!Solution, ProjectStep
  <1> QED
    BY <1>1, <1>3, <1>4, Projected!Unfolding

-----------------------------------------------------------------------------
(* Paths.                                                                  *)

\* The ids of all fields, in schemas and in records.
Ids ==
    UNION ({DOMAIN def.fields : def \in {d \in Definitions : d.type = "object"}}
              \cup {DOMAIN s : s \in SchemaCases}
              \cup {DOMAIN value.at : value \in {v \in Values : v.is = "object"}})

LEMMA PathLength ==
    ASSUME NEW A, NEW f \in A, NEW p \in Seq(A)
    PROVE  /\ <<f>> \in Seq(A) /\ Len(<<f>>) = 1 /\ <<f>>[1] = f
           /\ <<f>> \o p \in Seq(A) /\ Len(<<f>> \o p) = 1 + Len(p)
           /\ (<<f>> \o p)[1] = f
  <1>1. <<f>> \in Seq(A) /\ Len(<<f>>) = 1 /\ <<f>>[1] = f
    OBVIOUS
  <1> QED
    BY <1>1, ConcatProperties, LenProperties

LEMMA PathTail ==
    ASSUME NEW A, NEW f \in A, NEW p \in Seq(A), NEW q \in Seq(A), <<f>> \o p = <<f>> \o q
    PROVE  p = q
  <1>1. Len(p) = Len(q) /\ Len(p) \in Nat
    BY PathLength, LenProperties
  <1>2. \A i \in 1 .. Len(p) : (<<f>> \o p)[i + 1] = p[i] /\ (<<f>> \o q)[i + 1] = q[i]
    BY <1>1
  <1> QED
    BY <1>1, <1>2, SeqEqual

\* A path is of a field, or goes on inside it.
LEMMA PathsSplit ==
    ASSUME NEW inside, NEW q \in PathsOf(inside)
    PROVE  \E f \in DOMAIN inside : q = <<f>> \/ \E p \in inside[f] : q = <<f>> \o p
  <1> DEFINE Of(f) == {<<f>>} \cup {<<f>> \o p : p \in inside[f]}
  <1>1. q \in UNION {Of(f) : f \in DOMAIN inside}
    BY DEF PathsOf
  <1>2. PICK f \in DOMAIN inside : q \in Of(f)
    <2> HIDE DEF Of
    <2> QED
      BY <1>1
  <1> QED
    BY <1>2

LEMMA PathsJoin ==
    ASSUME NEW inside, NEW f \in DOMAIN inside
    PROVE  <<f>> \in PathsOf(inside) /\ \A p \in inside[f] : <<f>> \o p \in PathsOf(inside)
  <1> DEFINE Of(g) == {<<g>>} \cup {<<g>> \o p : p \in inside[g]}
  <1>1. PathsOf(inside) = UNION {Of(g) : g \in DOMAIN inside}
    BY DEF PathsOf
  <1>2. <<f>> \in Of(f) /\ \A p \in inside[f] : <<f>> \o p \in Of(f)
    OBVIOUS
  <1>3. Of(f) \subseteq PathsOf(inside)
    <2> HIDE DEF Of
    <2> QED
      BY <1>1
  <1> HIDE DEF Of
  <1> QED
    BY <1>2, <1>3

LEMMA PathsMonotone ==
    ASSUME NEW a, NEW b, DOMAIN a \subseteq DOMAIN b, \A f \in DOMAIN a : a[f] \subseteq b[f]
    PROVE  PathsOf(a) \subseteq PathsOf(b)
  <1> SUFFICES ASSUME NEW q \in PathsOf(a) PROVE q \in PathsOf(b)
    OBVIOUS
  <1>1. PICK f \in DOMAIN a : q = <<f>> \/ \E p \in a[f] : q = <<f>> \o p
    BY PathsSplit
  <1>2. f \in DOMAIN b /\ (q = <<f>> \/ \E p \in b[f] : q = <<f>> \o p)
    BY <1>1
  <1> QED
    BY <1>2, PathsJoin

LEMMA PathsTyped ==
    ASSUME NEW A, NEW a, DOMAIN a \subseteq A, \A f \in DOMAIN a : a[f] \subseteq Seq(A)
    PROVE  PathsOf(a) \subseteq Seq(A)
  <1> SUFFICES ASSUME NEW q \in PathsOf(a) PROVE q \in Seq(A)
    OBVIOUS
  <1>1. PICK f \in DOMAIN a : q = <<f>> \/ \E p \in a[f] : q = <<f>> \o p
    BY PathsSplit
  <1>2. <<f>> \in Seq(A) /\ \A p \in a[f] : <<f>> \o p \in Seq(A)
    BY PathLength
  <1> QED
    BY <1>1, <1>2

\* Paths split in one way only.
LEMMA PathsShared ==
    ASSUME NEW A, NEW a, NEW b, NEW c,
           DOMAIN a \subseteq A, \A f \in DOMAIN a : a[f] \subseteq Seq(A),
           DOMAIN b \subseteq A, \A f \in DOMAIN b : b[f] \subseteq Seq(A),
           DOMAIN a \cap DOMAIN b \subseteq DOMAIN c,
           \A f \in DOMAIN a \cap DOMAIN b : a[f] \cap b[f] \subseteq c[f]
    PROVE  PathsOf(a) \cap PathsOf(b) \subseteq PathsOf(c)
  <1> SUFFICES ASSUME NEW q \in PathsOf(a), q \in PathsOf(b) PROVE q \in PathsOf(c)
    OBVIOUS
  <1>1. PICK f \in DOMAIN a : q = <<f>> \/ \E p \in a[f] : q = <<f>> \o p
    BY PathsSplit
  <1>2. PICK g \in DOMAIN b : q = <<g>> \/ \E p \in b[g] : q = <<g>> \o p
    BY PathsSplit
  <1>3. q[1] = f /\ q[1] = g
    <2>1. q[1] = f
      BY <1>1, PathLength
    <2>2. q[1] = g
      BY <1>2, PathLength
    <2> QED
      BY <2>1, <2>2
  <1>4. f \in DOMAIN c
    BY <1>3
  <1>5. CASE q = <<f>>
    BY <1>4, <1>5, PathsJoin
  <1>6. CASE q # <<f>>
    <2>1. PICK p \in a[f] : q = <<f>> \o p
      BY <1>1, <1>6
    <2>2. PICK r \in b[f] : q = <<f>> \o r
      BY <1>2, <1>3, <1>6
    <2>3. p = r
      BY <1>3, <2>1, <2>2, PathTail
    <2>4. p \in c[f]
      BY <1>3, <2>1, <2>2, <2>3
    <2> QED
      BY <1>4, <2>1, <2>4, PathsJoin
  <1> QED
    BY <1>5, <1>6

LEMMA FieldIds ==
    /\ \A def \in Definitions : def.type = "object" => DOMAIN def.fields \subseteq Ids
    /\ \A s \in SchemaCases : DOMAIN s \subseteq Ids
    /\ \A value \in Values : value.is = "object" => DOMAIN value.at \subseteq Ids
  BY DEF Ids

LEMMA DefinitionPathsTyped == \A def \in Definitions : PathsBelow[def] \subseteq Seq(Ids)
  <1> DEFINE T == {def \in Definitions : PathsBelow[def] \subseteq Seq(Ids)}
  <1>1. ASSUME NEW def \in Definitions,
               \A y \in Definitions : DefinitionHeight(y) < DefinitionHeight(def) => y \in T
        PROVE  def \in T
    <2>1. PathsBelow[def] = PathsStep(PathsBelow, def)
      BY PathsEquation
    <2>2. CASE def.type = "object"
      <3> DEFINE inside == [f \in DOMAIN def.fields |-> PathsBelow[def.fields[f].def]]
      <3>1. DOMAIN inside \subseteq Ids /\ \A f \in DOMAIN inside : inside[f] \subseteq Seq(Ids)
        BY <1>1, <2>2, InsideDefinition, FieldIds
      <3>2. PathsBelow[def] = PathsOf(inside)
        BY <2>1, <2>2 DEF PathsStep
      <3> HIDE DEF inside
      <3> QED
        BY <3>1, <3>2, PathsTyped
    <2>3. CASE def.type = "array"
      BY <1>1, <2>1, <2>3, InsideDefinition DEF PathsStep
    <2> QED
      BY <2>1, <2>2, <2>3 DEF PathsStep
  <1>2. Definitions \subseteq T
    <2> HIDE DEF T
    <2> QED
      BY <1>1, DefinitionsAssumption, Paths!RankInduction DEF Paths!Ranked
  <1> QED
    BY <1>2

LEMMA PublicArePaths == \A def \in Definitions : PublicBelow[def] \subseteq PathsBelow[def]
  <1> DEFINE T == {def \in Definitions : PublicBelow[def] \subseteq PathsBelow[def]}
  <1>1. ASSUME NEW def \in Definitions,
               \A y \in Definitions : DefinitionHeight(y) < DefinitionHeight(def) => y \in T
        PROVE  def \in T
    <2>1. /\ PathsBelow[def] = PathsStep(PathsBelow, def)
          /\ PublicBelow[def] = PublicStep(PublicBelow, def)
      BY PathsEquation, PublicEquation
    <2>2. CASE def.type = "object"
      <3> DEFINE inside == [f \in DOMAIN def.fields |-> PathsBelow[def.fields[f].def]]
                 public1 == [f \in PublicIds(def.fields) |-> PublicBelow[def.fields[f].def]]
      <3>1. /\ DOMAIN public1 \subseteq DOMAIN inside
            /\ \A f \in DOMAIN public1 : public1[f] \subseteq inside[f]
        BY <1>1, <2>2, InsideDefinition DEF PublicIds
      <3>2. PathsBelow[def] = PathsOf(inside) /\ PublicBelow[def] = PathsOf(public1)
        BY <2>1, <2>2 DEF PathsStep, PublicStep
      <3> HIDE DEF inside, public1
      <3> QED
        BY <3>1, <3>2, PathsMonotone
    <2>3. CASE def.type = "array"
      BY <1>1, <2>1, <2>3, InsideDefinition DEF PathsStep, PublicStep
    <2> QED
      BY <2>1, <2>2, <2>3 DEF PathsStep, PublicStep
  <1>2. Definitions \subseteq T
    <2> HIDE DEF T
    <2> QED
      BY <1>1, DefinitionsAssumption, Paths!RankInduction DEF Paths!Ranked
  <1> QED
    BY <1>2

LEMMA ValuePathsTyped == \A value \in Values : ValuePathsBelow[value] \subseteq Seq(Ids)
  <1> DEFINE T == {value \in Values : ValuePathsBelow[value] \subseteq Seq(Ids)}
  <1>1. ASSUME NEW value \in Values,
               \A y \in Values : ValueHeight(y) < ValueHeight(value) => y \in T
        PROVE  value \in T
    <2>1. ValuePathsBelow[value] = ValuePathsStep(ValuePathsBelow, value)
      BY BelowEquation
    <2>2. CASE value.is = "object"
      <3> DEFINE inside == [f \in DOMAIN value.at |-> ValuePathsBelow[value.at[f]]]
      <3>1. DOMAIN inside \subseteq Ids /\ \A f \in DOMAIN inside : inside[f] \subseteq Seq(Ids)
        BY <1>1, <2>2, InsideValue, FieldIds
      <3>2. ValuePathsBelow[value] = PathsOf(inside)
        BY <2>1, <2>2 DEF ValuePathsStep
      <3> HIDE DEF inside
      <3> QED
        BY <3>1, <3>2, PathsTyped
    <2>3. CASE value.is = "array"
      <3>1. \A k \in DOMAIN value.items : ValuePathsBelow[value.items[k]] \subseteq Seq(Ids)
        BY <1>1, <2>3, InsideValue
      <3> QED
        BY <2>1, <2>3, <3>1 DEF ValuePathsStep
    <2> QED
      BY <2>1, <2>2, <2>3 DEF ValuePathsStep
  <1>2. Values \subseteq T
    <2> HIDE DEF T
    <2> QED
      BY <1>1, ValuesAssumption, Below!RankInduction DEF Below!Ranked
  <1> QED
    BY <1>2

-----------------------------------------------------------------------------
(* Every value is at a path of its schema, and its copy at public ones.    *)

LEMMA DefinitionPaths ==
    ASSUME NEW def \in Definitions
    PROVE  /\ def.type = "object" => /\ PathsBelow[def] = FieldPaths(def.fields)
                                     /\ PublicBelow[def] = PublicPaths(def.fields)
           /\ def.type = "array" => /\ PathsBelow[def] = PathsBelow[def.items]
                                    /\ PublicBelow[def] = PublicBelow[def.items]
           /\ def.type \in {"text", "number"} => PathsBelow[def] = {} /\ PublicBelow[def] = {}
  <1>1. /\ PathsBelow[def] = PathsStep(PathsBelow, def)
        /\ PublicBelow[def] = PublicStep(PublicBelow, def)
    BY PathsEquation, PublicEquation
  <1>2. CASE def.type = "object"
    BY <1>1, <1>2 DEF PathsStep, PublicStep, FieldPaths, PublicPaths
  <1>3. CASE def.type = "array"
    BY <1>1, <1>3 DEF PathsStep, PublicStep
  <1>4. CASE def.type \in {"text", "number"}
    BY <1>1, <1>4 DEF PathsStep, PublicStep
  <1> QED
    BY <1>2, <1>3, <1>4

LEMMA PathsOfValue ==
    ASSUME NEW value \in Values
    PROVE  /\ value.is = "object" => ValuePathsBelow[value] = ValuePaths(value.at)
           /\ value.is = "array" =>
                 ValuePathsBelow[value]
                    = UNION {ValuePathsBelow[value.items[k]] : k \in DOMAIN value.items}
           /\ value.is \in {"text", "number"} => ValuePathsBelow[value] = {}
  <1>1. ValuePathsBelow[value] = ValuePathsStep(ValuePathsBelow, value)
    BY BelowEquation
  <1>2. CASE value.is = "object"
    BY <1>1, <1>2 DEF ValuePathsStep, ValuePaths
  <1>3. CASE value.is = "array"
    BY <1>1, <1>3 DEF ValuePathsStep
  <1>4. CASE value.is \in {"text", "number"}
    BY <1>1, <1>4 DEF ValuePathsStep
  <1> QED
    BY <1>2, <1>3, <1>4

\* A value that was accepted has only fields of its schema, at every level.
LEMMA AcceptedPaths ==
    \A pair \in Accepted : ValuePathsBelow[pair[2]] \subseteq PathsBelow[pair[1]]
  <1> DEFINE T == {pair \in Accepted : ValuePathsBelow[pair[2]] \subseteq PathsBelow[pair[1]]}
  <1>1. ASSUME NEW pair \in Accepted,
               \A y \in Accepted : PairHeight(y) < PairHeight(pair) => y \in T
        PROVE  pair \in T
    <2> DEFINE def == pair[1]
               value == pair[2]
    <2>1. /\ def \in Definitions /\ value \in Values /\ <<def, value>> \in Accepted
          /\ def.type \in Types /\ def.type = value.is
      BY AcceptedPair
    <2>2. ASSUME NEW d, NEW v, <<d, v>> \in Accepted, DefinitionHeight(d) < DefinitionHeight(def)
          PROVE  ValuePathsBelow[v] \subseteq PathsBelow[d]
      BY <1>1, <2>2 DEF PairHeight
    <2> SUFFICES ValuePathsBelow[value] \subseteq PathsBelow[def]
      OBVIOUS
    <2> HIDE DEF def, value
    <2>3. CASE def.type = "object"
      <3> DEFINE a == [f \in DOMAIN value.at |-> ValuePathsBelow[value.at[f]]]
                 b == [f \in DOMAIN def.fields |-> PathsBelow[def.fields[f].def]]
      <3>1. DOMAIN a \subseteq DOMAIN b /\ \A f \in DOMAIN a : a[f] \subseteq b[f]
        BY <2>1, <2>2, <2>3, AcceptedObject, InsideDefinition
      <3>2. ValuePathsBelow[value] = PathsOf(a) /\ PathsBelow[def] = PathsOf(b)
        BY <2>1, <2>3, PathsOfValue, DefinitionPaths DEF ValuePaths, FieldPaths
      <3> HIDE DEF a, b
      <3> QED
        BY <3>1, <3>2, PathsMonotone
    <2>4. CASE def.type = "array"
      <3>1. \A k \in DOMAIN value.items : ValuePathsBelow[value.items[k]] \subseteq PathsBelow[def]
        BY <2>1, <2>2, <2>4, AcceptedArray, InsideDefinition, DefinitionPaths
      <3>2. ValuePathsBelow[value]
               = UNION {ValuePathsBelow[value.items[k]] : k \in DOMAIN value.items}
        BY <2>1, <2>4, PathsOfValue
      <3> QED
        BY <3>1, <3>2
    <2>5. CASE def.type \in {"text", "number"}
      BY <2>1, <2>5, PathsOfValue
    <2> QED
      BY <2>1, <2>3, <2>4, <2>5 DEF Types
  <1>2. Projected!Ranked
    BY AcceptedPair, DefinitionsAssumption DEF Projected!Ranked, PairHeight
  <1>3. Accepted \subseteq T
    <2> HIDE DEF T
    <2> QED
      BY <1>1, <1>2, Projected!RankInduction
  <1> QED
    BY <1>3

\* The copy of an accepted value, and where it is projected.
LEMMA CopyOf ==
    ASSUME NEW pair \in Accepted
    PROVE  /\ ProjectValue[pair] \in Values
           /\ ProjectValue[pair] = PublicCopy(pair[1], pair[2], ProjectValue)
  BY ProjectEquation, ProjectionsAreValues DEF ProjectStep

LEMMA CopyOfObject ==
    ASSUME NEW def \in Definitions, NEW value \in Values, <<def, value>> \in Accepted,
           def.type = "object"
    PROVE  ValuePathsBelow[ProjectValue[<<def, value>>]]
              = ValuePaths(Project(def.fields, value.at))
  <1> DEFINE copy == ProjectValue[<<def, value>>]
  <1>1. copy \in Values /\ copy = PublicCopy(def, value, ProjectValue)
    BY CopyOf
  <1> HIDE DEF copy
  <1>2. copy.is = "object" /\ copy.at = Project(def.fields, value.at)
    BY <1>1 DEF PublicCopy, Project, IsArrayOfObjects
  <1>3. ValuePathsBelow[copy] = ValuePaths(copy.at)
    BY <1>1, <1>2, PathsOfValue
  <1> QED
    BY <1>2, <1>3 DEF copy

LEMMA CopyOfArray ==
    ASSUME NEW def \in Definitions, NEW value \in Values, <<def, value>> \in Accepted,
           IsArrayOfObjects(def)
    PROVE  ValuePathsBelow[ProjectValue[<<def, value>>]]
              = UNION {ValuePathsBelow[ProjectValue[<<def.items, value.items[k]>>]] :
                          k \in DOMAIN value.items}
  <1> DEFINE copy == ProjectValue[<<def, value>>]
  <1>1. copy \in Values /\ copy = PublicCopy(def, value, ProjectValue)
    BY CopyOf
  <1> HIDE DEF copy
  <1>2. /\ copy.is = "array"
        /\ copy.items = [k \in DOMAIN value.items |-> ProjectValue[<<def.items, value.items[k]>>]]
    BY <1>1 DEF PublicCopy, IsArrayOfObjects
  <1>3. ValuePathsBelow[copy] = UNION {ValuePathsBelow[copy.items[k]] : k \in DOMAIN copy.items}
    BY <1>1, <1>2, PathsOfValue
  <1>4. DOMAIN copy.items = DOMAIN value.items
    BY <1>2
  <1>5. \A k \in DOMAIN value.items : copy.items[k] = ProjectValue[<<def.items, value.items[k]>>]
    BY <1>2
  <1>6. UNION {ValuePathsBelow[copy.items[k]] : k \in DOMAIN value.items}
           = UNION {ValuePathsBelow[ProjectValue[<<def.items, value.items[k]>>]] :
                       k \in DOMAIN value.items}
    BY <1>5
  <1> QED
    BY <1>3, <1>4, <1>6 DEF copy

LEMMA PathsOfProjection ==
    ASSUME NEW fields, NEW values
    PROVE  ValuePaths(Project(fields, values))
              = PathsOf([f \in Shown(fields, values) |->
                            ValuePathsBelow[ProjectValue[<<fields[f].def, values[f]>>]]])
  <1> DEFINE copy == Project(fields, values)
  <1>1. /\ DOMAIN copy = Shown(fields, values)
        /\ \A f \in Shown(fields, values) : copy[f] = ProjectValue[<<fields[f].def, values[f]>>]
    BY DEF Project, Projection
  <1> HIDE DEF copy
  <1>2. [f \in DOMAIN copy |-> ValuePathsBelow[copy[f]]]
           = [f \in Shown(fields, values) |->
                 ValuePathsBelow[ProjectValue[<<fields[f].def, values[f]>>]]]
    BY <1>1
  <1> QED
    BY <1>2 DEF ValuePaths, copy

\* The fields of a copy, from what is known of the values it is made of.
LEMMA ProjectionPaths ==
    ASSUME NEW fields, NEW values,
           \A f \in DOMAIN fields \cap DOMAIN values :
               ValuePathsBelow[ProjectValue[<<fields[f].def, values[f]>>]]
                  \subseteq PublicBelow[fields[f].def]
    PROVE  ValuePaths(Project(fields, values)) \subseteq PublicPaths(fields)
  <1> DEFINE a == [f \in Shown(fields, values) |->
                      ValuePathsBelow[ProjectValue[<<fields[f].def, values[f]>>]]]
             b == [f \in PublicIds(fields) |-> PublicBelow[fields[f].def]]
  <1>1. DOMAIN a \subseteq DOMAIN b /\ \A f \in DOMAIN a : a[f] \subseteq b[f]
    BY DEF Shown, PublicIds
  <1>2. ValuePaths(Project(fields, values)) = PathsOf(a)
    BY PathsOfProjection
  <1>3. PublicPaths(fields) = PathsOf(b)
    BY DEF PublicPaths
  <1> HIDE DEF a, b
  <1> QED
    BY <1>1, <1>2, <1>3, PathsMonotone

\* What the copy of an accepted value shows is public at every level.
LEMMA CopiesArePublic ==
    ASSUME TablesAreOpen
    PROVE  \A pair \in Accepted : ValuePathsBelow[ProjectValue[pair]] \subseteq PublicBelow[pair[1]]
  <1> DEFINE T == {pair \in Accepted : ValuePathsBelow[ProjectValue[pair]] \subseteq PublicBelow[pair[1]]}
  <1>1. ASSUME NEW pair \in Accepted,
               \A y \in Accepted : PairHeight(y) < PairHeight(pair) => y \in T
        PROVE  pair \in T
    <2> DEFINE def == pair[1]
               value == pair[2]
    <2>1. /\ def \in Definitions /\ value \in Values /\ <<def, value>> \in Accepted
          /\ def.type \in Types /\ def.type = value.is /\ pair = <<def, value>>
      BY AcceptedPair
    <2>2. ASSUME NEW d, NEW v, <<d, v>> \in Accepted, DefinitionHeight(d) < DefinitionHeight(def)
          PROVE  ValuePathsBelow[ProjectValue[<<d, v>>]] \subseteq PublicBelow[d]
      BY <1>1, <2>2 DEF PairHeight
    <2> SUFFICES ValuePathsBelow[ProjectValue[<<def, value>>]] \subseteq PublicBelow[def]
      BY <2>1
    <2> HIDE DEF def, value
    <2>3. CASE def.type = "object"
      <3>1. \A f \in DOMAIN def.fields \cap DOMAIN value.at :
               ValuePathsBelow[ProjectValue[<<def.fields[f].def, value.at[f]>>]]
                  \subseteq PublicBelow[def.fields[f].def]
        BY <2>1, <2>2, <2>3, AcceptedObject, InsideDefinition
      <3>2. ValuePaths(Project(def.fields, value.at)) \subseteq PublicPaths(def.fields)
        BY <3>1, ProjectionPaths
      <3> QED
        BY <2>1, <2>3, <3>2, CopyOfObject, DefinitionPaths
    <2>4. CASE IsArrayOfObjects(def)
      <3>1. \A k \in DOMAIN value.items :
               ValuePathsBelow[ProjectValue[<<def.items, value.items[k]>>]] \subseteq PublicBelow[def]
        BY <2>1, <2>2, <2>4, AcceptedArray, InsideDefinition, DefinitionPaths DEF IsArrayOfObjects
      <3>2. ValuePathsBelow[ProjectValue[<<def, value>>]]
               = UNION {ValuePathsBelow[ProjectValue[<<def.items, value.items[k]>>]] :
                           k \in DOMAIN value.items}
        BY <2>1, <2>4, CopyOfArray
      <3> QED
        BY <3>1, <3>2
    <2>5. CASE def.type # "object" /\ ~IsArrayOfObjects(def)
      <3>1. ProjectValue[<<def, value>>] = value
        <4>1. ProjectValue[<<def, value>>] = PublicCopy(def, value, ProjectValue)
          BY <2>1, CopyOf
        <4> QED
          BY <2>5, <4>1 DEF PublicCopy
      <3>2. ValuePathsBelow[value] \subseteq PathsBelow[def]
        BY <2>1, AcceptedPaths
      <3>3. PathsBelow[def] = PublicBelow[def]
        <4>1. CASE def.type \in {"text", "number"}
          BY <2>1, <4>1, DefinitionPaths
        <4>2. CASE def.type = "array" /\ def.items.type = "array"
          BY <2>1, <4>2 DEF TablesAreOpen
        <4>3. CASE def.type = "array" /\ def.items.type \in {"text", "number"}
          <5>1. def.items \in Definitions
            BY <2>1, <4>3, InsideDefinition
          <5> QED
            BY <2>1, <4>3, <5>1, DefinitionPaths
        <4>4. def.type = "array" => def.items.type \in Types /\ def.items.type # "object"
          BY <2>1, <2>5, InsideDefinition, DefinitionsAssumption DEF IsArrayOfObjects
        <4> QED
          BY <2>1, <2>5, <4>1, <4>2, <4>3, <4>4 DEF Types
      <3> QED
        BY <3>1, <3>2, <3>3
    <2> QED
      BY <2>3, <2>4, <2>5
  <1>2. Projected!Ranked
    BY AcceptedPair, DefinitionsAssumption DEF Projected!Ranked, PairHeight
  <1>3. Accepted \subseteq T
    <2> HIDE DEF T
    <2> QED
      BY <1>1, <1>2, Projected!RankInduction
  <1> QED
    BY <1>3

-----------------------------------------------------------------------------
(* Nothing public is left out.                                             *)

LEMMA PublicTyped == \A def \in Definitions : PublicBelow[def] \subseteq Seq(Ids)
  BY PublicArePaths, DefinitionPathsTyped

LEMMA ProjectionKeeps ==
    ASSUME NEW fields, NEW values,
           DOMAIN fields \subseteq Ids, \A f \in DOMAIN fields : fields[f].def \in Definitions,
           DOMAIN values \subseteq DOMAIN fields, \A f \in DOMAIN values : values[f] \in Values,
           \A f \in DOMAIN values :
               ValuePathsBelow[values[f]] \cap PublicBelow[fields[f].def]
                  \subseteq ValuePathsBelow[ProjectValue[<<fields[f].def, values[f]>>]]
    PROVE  ValuePaths(values) \cap PublicPaths(fields) \subseteq ValuePaths(Project(fields, values))
  <1> DEFINE a == [f \in DOMAIN values |-> ValuePathsBelow[values[f]]]
             b == [f \in PublicIds(fields) |-> PublicBelow[fields[f].def]]
             c == [f \in Shown(fields, values) |->
                      ValuePathsBelow[ProjectValue[<<fields[f].def, values[f]>>]]]
  <1>1. DOMAIN a \subseteq Ids /\ \A f \in DOMAIN a : a[f] \subseteq Seq(Ids)
    BY ValuePathsTyped
  <1>2. DOMAIN b \subseteq Ids /\ \A f \in DOMAIN b : b[f] \subseteq Seq(Ids)
    BY PublicTyped DEF PublicIds
  <1>3. /\ DOMAIN a \cap DOMAIN b \subseteq DOMAIN c
        /\ \A f \in DOMAIN a \cap DOMAIN b : a[f] \cap b[f] \subseteq c[f]
    BY DEF PublicIds, Shown
  <1>4. ValuePaths(Project(fields, values)) = PathsOf(c)
    BY PathsOfProjection
  <1>5. ValuePaths(values) = PathsOf(a) /\ PublicPaths(fields) = PathsOf(b)
    BY DEF ValuePaths, PublicPaths
  <1> HIDE DEF a, b, c
  <1> QED
    BY <1>1, <1>2, <1>3, <1>4, <1>5, PathsShared

\* What is public at every level, and has a value, is in the copy.
LEMMA CopiesAreComplete ==
    \A pair \in Accepted :
        ValuePathsBelow[pair[2]] \cap PublicBelow[pair[1]] \subseteq ValuePathsBelow[ProjectValue[pair]]
  <1> DEFINE Kept(def, value) ==
                ValuePathsBelow[value] \cap PublicBelow[def]
                   \subseteq ValuePathsBelow[ProjectValue[<<def, value>>]]
             T == {pair \in Accepted : Kept(pair[1], pair[2])}
  <1>1. ASSUME NEW pair \in Accepted,
               \A y \in Accepted : PairHeight(y) < PairHeight(pair) => y \in T
        PROVE  pair \in T
    <2> DEFINE def == pair[1]
               value == pair[2]
    <2>1. /\ def \in Definitions /\ value \in Values /\ <<def, value>> \in Accepted
          /\ def.type \in Types /\ def.type = value.is
      BY AcceptedPair
    <2>2. ASSUME NEW d, NEW v, <<d, v>> \in Accepted, DefinitionHeight(d) < DefinitionHeight(def)
          PROVE  Kept(d, v)
      BY <1>1, <2>2 DEF PairHeight
    <2> SUFFICES Kept(def, value)
      OBVIOUS
    <2> HIDE DEF def, value
    <2>3. CASE def.type = "object"
      <3>1. /\ DOMAIN def.fields \subseteq Ids
            /\ \A f \in DOMAIN def.fields : def.fields[f].def \in Definitions
            /\ DOMAIN value.at \subseteq DOMAIN def.fields
            /\ \A f \in DOMAIN value.at : value.at[f] \in Values
        BY <2>1, <2>3, FieldIds, AcceptedObject, InsideDefinition, InsideValue
      <3>2. \A f \in DOMAIN value.at : Kept(def.fields[f].def, value.at[f])
        <4> HIDE DEF Kept
        <4> QED
          BY <2>1, <2>2, <2>3, AcceptedObject, InsideDefinition
      <3>3. ValuePaths(value.at) \cap PublicPaths(def.fields)
               \subseteq ValuePaths(Project(def.fields, value.at))
        BY <3>1, <3>2, ProjectionKeeps
      <3>4. /\ ValuePathsBelow[value] = ValuePaths(value.at)
            /\ PublicBelow[def] = PublicPaths(def.fields)
            /\ ValuePathsBelow[ProjectValue[<<def, value>>]]
                  = ValuePaths(Project(def.fields, value.at))
        BY <2>1, <2>3, CopyOfObject, DefinitionPaths, PathsOfValue
      <3> QED
        BY <3>3, <3>4
    <2>4. CASE IsArrayOfObjects(def)
      <3>1. \A k \in DOMAIN value.items : Kept(def.items, value.items[k])
        <4> HIDE DEF Kept
        <4> QED
          BY <2>1, <2>2, <2>4, AcceptedArray, InsideDefinition DEF IsArrayOfObjects
      <3>2. ValuePathsBelow[ProjectValue[<<def, value>>]]
               = UNION {ValuePathsBelow[ProjectValue[<<def.items, value.items[k]>>]] :
                           k \in DOMAIN value.items}
        BY <2>1, <2>4, CopyOfArray
      <3>3. ValuePathsBelow[value]
               = UNION {ValuePathsBelow[value.items[k]] : k \in DOMAIN value.items}
        BY <2>1, <2>4, PathsOfValue DEF IsArrayOfObjects
      <3>4. PublicBelow[def] = PublicBelow[def.items]
        BY <2>1, <2>4, DefinitionPaths DEF IsArrayOfObjects
      <3> QED
        BY <3>1, <3>2, <3>3, <3>4
    <2>5. CASE def.type # "object" /\ ~IsArrayOfObjects(def)
      <3>1. ProjectValue[<<def, value>>] = PublicCopy(def, value, ProjectValue)
        BY <2>1, CopyOf
      <3>2. ProjectValue[<<def, value>>] = value
        BY <2>5, <3>1 DEF PublicCopy
      <3> QED
        BY <3>2
    <2> QED
      BY <2>3, <2>4, <2>5
  <1>2. Projected!Ranked
    BY AcceptedPair, DefinitionsAssumption DEF Projected!Ranked, PairHeight
  <1>3. Accepted \subseteq T
    <2> HIDE DEF T
    <2> QED
      BY <1>1, <1>2, Projected!RankInduction
  <1>4. \A pair \in Accepted : pair = <<pair[1], pair[2]>>
    BY AcceptedPair
  <1> QED
    BY <1>3, <1>4


-----------------------------------------------------------------------------
(* The limits.                                                             *)

\* A path of a well formed schema is no longer than the depth allows.
DepthKept(def) ==
    \A depth \in Nat : WellFormed[def][depth] =>
        \A p \in PathsBelow[def] : depth + Len(p) <= MaxDepth

LEMMA FieldDepth ==
    ASSUME NEW fields, DOMAIN fields \subseteq Ids,
           \A f \in DOMAIN fields : fields[f].def \in Definitions /\ DepthKept(fields[f].def),
           NEW depth \in Nat, WellFormedFields(fields, depth + 1, WellFormed)
    PROVE  \A p \in FieldPaths(fields) : depth + Len(p) <= MaxDepth
  <1> DEFINE inside == [f \in DOMAIN fields |-> PathsBelow[fields[f].def]]
  <1> SUFFICES ASSUME NEW q \in PathsOf(inside) PROVE depth + Len(q) <= MaxDepth
    BY DEF FieldPaths
  <1>1. DOMAIN inside = DOMAIN fields /\ \A f \in DOMAIN fields : inside[f] = PathsBelow[fields[f].def]
    OBVIOUS
  <1> HIDE DEF inside
  <1>2. PICK f \in DOMAIN inside : q = <<f>> \/ \E p \in inside[f] : q = <<f>> \o p
    BY PathsSplit
  <1>3. depth + 1 <= MaxDepth
    BY LimitsAssumption DEF WellFormedFields, TooDeep
  <1>4. CASE q = <<f>>
    BY <1>1, <1>2, <1>3, <1>4, PathLength
  <1>5. ASSUME NEW p \in inside[f], q = <<f>> \o p PROVE depth + Len(q) <= MaxDepth
    <2>1. p \in Seq(Ids) /\ f \in Ids
      BY <1>1, <1>2, <1>5, DefinitionPathsTyped
    <2>2. Len(q) = 1 + Len(p) /\ Len(p) \in Nat
      BY <1>5, <2>1, PathLength, LenProperties
    <2>3. WellFormed[fields[f].def][depth + 1]
      BY <1>1, <1>2 DEF WellFormedFields
    <2>4. (depth + 1) + Len(p) <= MaxDepth
      BY <1>1, <1>2, <1>5, <2>3 DEF DepthKept
    <2> QED
      BY <2>2, <2>4, LimitsAssumption
  <1> QED
    BY <1>2, <1>4, <1>5

LEMMA DepthsKept == \A def \in Definitions : DepthKept(def)
  <1> DEFINE T == {def \in Definitions : DepthKept(def)}
  <1>1. ASSUME NEW def \in Definitions,
               \A y \in Definitions : DefinitionHeight(y) < DefinitionHeight(def) => y \in T
        PROVE  def \in T
    <2> SUFFICES ASSUME NEW depth \in Nat, WellFormed[def][depth]
                 PROVE  \A p \in PathsBelow[def] : depth + Len(p) <= MaxDepth
      BY DEF DepthKept
    <2>1. /\ def.type = "object" => WellFormedFields(def.fields, depth + 1, WellFormed)
          /\ def.type = "array" => WellFormed[def.items][depth + 1]
      <3>1. WellFormed[def] = FormStep(WellFormed, def)
        BY FormEquation
      <3> QED
        BY <3>1 DEF FormStep
    <2>2. CASE def.type = "object"
      <3>1. /\ DOMAIN def.fields \subseteq Ids
            /\ \A f \in DOMAIN def.fields :
                  def.fields[f].def \in Definitions /\ DepthKept(def.fields[f].def)
        BY <1>1, <2>2, InsideDefinition, FieldIds
      <3>2. \A p \in FieldPaths(def.fields) : depth + Len(p) <= MaxDepth
        BY <2>1, <2>2, <3>1, FieldDepth
      <3> QED
        BY <2>2, <3>2, DefinitionPaths
    <2>3. CASE def.type = "array"
      <3>1. def.items \in Definitions /\ DepthKept(def.items)
        BY <1>1, <2>3, InsideDefinition
      <3> SUFFICES ASSUME NEW p \in PathsBelow[def] PROVE depth + Len(p) <= MaxDepth
        OBVIOUS
      <3>2. p \in PathsBelow[def.items] /\ p \in Seq(Ids)
        BY <2>3, DefinitionPaths, DefinitionPathsTyped
      <3>3. (depth + 1) + Len(p) <= MaxDepth
        BY <2>1, <2>3, <3>1, <3>2 DEF DepthKept
      <3> QED
        BY <3>2, <3>3, LenProperties, LimitsAssumption
    <2>4. CASE def.type \notin {"object", "array"}
      BY <2>4, DefinitionPaths, DefinitionsAssumption DEF Types
    <2> QED
      BY <2>2, <2>3, <2>4
  <1>2. Definitions \subseteq T
    <2> HIDE DEF T
    <2> QED
      BY <1>1, DefinitionsAssumption, Form!RankInduction DEF Form!Ranked
  <1> QED
    BY <1>2

-----------------------------------------------------------------------------
(* Sums over the fields of a schema or of an object.                       *)

FieldSets ==
    {DOMAIN def.fields : def \in {d \in Definitions : d.type = "object"}}
       \cup {DOMAIN s : s \in SchemaCases}

LEMMA FieldSetsFinite == \A D \in FieldSets : IsFiniteSet(D)
  BY DefinitionsAssumption, CasesAssumption DEF FieldSets

Some(ids) == CHOOSE f \in ids : TRUE

\* A weighing has the weights of fields and those whose sum is asked for.
Weights == UNION {[D -> Nat] : D \in FieldSets}
Weighings == {pair \in Weights \X (SUBSET UNION FieldSets) : pair[2] \subseteq DOMAIN pair[1]}
WeighingSize(pair) == Cardinality(pair[2])

SumStep(g, pair) ==
    IF pair[2] = {} THEN 0
    ELSE pair[1][Some(pair[2])] + g[<<pair[1], pair[2] \ {Some(pair[2])}>>]

Sums == INSTANCE Recursion WITH S <- Weighings, Rank <- WeighingSize, Step <- SumStep

LEMMA WeighingFacts ==
    ASSUME NEW w \in Weights
    PROVE  /\ IsFiniteSet(DOMAIN w)
           /\ w \in [DOMAIN w -> Nat]
           /\ \A ids \in SUBSET DOMAIN w :
                 /\ <<w, ids>> \in Weighings
                 /\ IsFiniteSet(ids)
                 /\ Cardinality(ids) \in Nat
                 /\ ids # {} => /\ Some(ids) \in ids
                                /\ Cardinality(ids \ {Some(ids)}) = Cardinality(ids) - 1
  <1>1. PICK D \in FieldSets : w \in [D -> Nat]
    BY DEF Weights
  <1>2. IsFiniteSet(DOMAIN w) /\ w \in [DOMAIN w -> Nat] /\ DOMAIN w \in FieldSets
    BY <1>1, FieldSetsFinite
  <1>3. ASSUME NEW ids \in SUBSET DOMAIN w
        PROVE  /\ <<w, ids>> \in Weighings
               /\ IsFiniteSet(ids)
               /\ Cardinality(ids) \in Nat
               /\ ids # {} => /\ Some(ids) \in ids
                              /\ Cardinality(ids \ {Some(ids)}) = Cardinality(ids) - 1
    <2>1. <<w, ids>> \in Weighings
      BY <1>2 DEF Weighings
    <2>2. IsFiniteSet(ids) /\ Cardinality(ids) \in Nat
      BY <1>2, FS_Subset, FS_CardinalityType
    <2>3. ids # {} => Some(ids) \in ids
      BY DEF Some
    <2>4. ids # {} => Cardinality(ids \ {Some(ids)}) = Cardinality(ids) - 1
      BY <2>2, <2>3, FS_RemoveElement
    <2> QED
      BY <2>1, <2>2, <2>3, <2>4
  <1> QED
    BY <1>2, <1>3

LEMMA SumsRanked == Sums!Ranked
  <1>1. ASSUME NEW pair \in Weighings PROVE WeighingSize(pair) \in Nat
    <2>1. pair[1] \in Weights /\ pair[2] \in SUBSET DOMAIN pair[1]
      BY DEF Weighings
    <2> QED
      BY <2>1, WeighingFacts DEF WeighingSize
  <1> QED
    BY <1>1 DEF Sums!Ranked

LEMMA SumsSolved ==
    Sums!Solution = [pair \in Weighings |-> SumStep(Sums!Solution, pair)]
  <1>1. \A pair \in Weighings : pair[1] \in Weights /\ pair[2] \in SUBSET DOMAIN pair[1]
    BY DEF Weighings
  <1>2. ASSUME NEW pair \in Weighings, NEW g, NEW h,
               \A y \in Weighings : WeighingSize(y) < WeighingSize(pair) => g[y] = h[y]
        PROVE  SumStep(g, pair) = SumStep(h, pair)
    <2>1. CASE pair[2] # {}
      <3> DEFINE rest == pair[2] \ {Some(pair[2])}
                 y == <<pair[1], rest>>
      <3>1. y \in Weighings
        BY <1>1, WeighingFacts
      <3>2. Cardinality(rest) < Cardinality(pair[2])
        <4>1. /\ Cardinality(pair[2]) \in Nat
              /\ Cardinality(rest) = Cardinality(pair[2]) - 1
          BY <1>1, <2>1, WeighingFacts
        <4> QED
          BY <4>1
      <3>3. g[y] = h[y]
        BY <1>2, <3>1, <3>2 DEF WeighingSize
      <3> QED
        BY <2>1, <3>3 DEF SumStep
    <2> QED
      BY <2>1 DEF SumStep
  <1>3. Sums!Founded
    BY <1>2 DEF Sums!Founded
  <1> QED
    BY <1>3, SumsRanked, Sums!Unfolding

\* The sums of the subsets, each from the one with a field less.
LEMMA SumUnfolds ==
    ASSUME NEW w \in Weights
    PROVE  \E Sum : /\ SumFunction(w) = Sum[DOMAIN w]
                    /\ Sum[{}] = 0
                    /\ \A ids \in SUBSET DOMAIN w :
                          ids # {} => Sum[ids] = w[Some(ids)] + Sum[ids \ {Some(ids)}]
  <1> DEFINE Meets(Sum) ==
                Sum = [ids \in SUBSET DOMAIN w |->
                          IF ids = {} THEN 0
                          ELSE w[CHOOSE f \in ids : TRUE] + Sum[ids \ {CHOOSE f \in ids : TRUE}]]
  <1>1. SumFunction(w) = (CHOOSE Sum : Meets(Sum))[DOMAIN w]
    BY DEF SumFunction, SumFunctionOnSet, FoldFunctionOnSet, MapThenFoldSet
  <1>2. \E Sum : Meets(Sum)
    <2> DEFINE F == Sums!Solution
               Sum == [ids \in SUBSET DOMAIN w |-> F[<<w, ids>>]]
    <2>1. ASSUME NEW ids \in SUBSET DOMAIN w
          PROVE  Sum[ids] = IF ids = {} THEN 0 ELSE w[Some(ids)] + Sum[ids \ {Some(ids)}]
      <3>1. F[<<w, ids>>] = SumStep(F, <<w, ids>>)
        BY SumsSolved, WeighingFacts
      <3>2. ids \ {Some(ids)} \in SUBSET DOMAIN w
        OBVIOUS
      <3> HIDE DEF F
      <3> QED
        BY <3>1, <3>2 DEF SumStep
    <2> HIDE DEF F
    <2>2. Meets(Sum)
      BY <2>1 DEF Some
    <2> QED
      BY <2>2
  <1> HIDE DEF Meets
  <1>3. PICK Sum : Sum = CHOOSE s : Meets(s)
    OBVIOUS
  <1>4. Meets(Sum)
    BY <1>2, <1>3
  <1>5. SumFunction(w) = Sum[DOMAIN w]
    BY <1>1, <1>3
  <1>6. Sum[{}] = 0
    BY <1>4 DEF Meets
  <1>7. \A ids \in SUBSET DOMAIN w :
           ids # {} => Sum[ids] = w[Some(ids)] + Sum[ids \ {Some(ids)}]
    BY <1>4 DEF Meets, Some
  <1> QED
    BY <1>5, <1>6, <1>7

\* Sets no larger than the weights are together no larger than their sum.
LEMMA SumBounds ==
    ASSUME NEW w \in Weights, NEW sets,
           \A f \in DOMAIN w : IsFiniteSet(sets[f]) /\ Cardinality(sets[f]) <= w[f]
    PROVE  /\ SumFunction(w) \in Nat
           /\ IsFiniteSet(UNION {sets[f] : f \in DOMAIN w})
           /\ Cardinality(UNION {sets[f] : f \in DOMAIN w}) <= SumFunction(w)
  <1>1. PICK Sum : /\ SumFunction(w) = Sum[DOMAIN w]
                   /\ Sum[{}] = 0
                   /\ \A ids \in SUBSET DOMAIN w :
                         ids # {} => Sum[ids] = w[Some(ids)] + Sum[ids \ {Some(ids)}]
    BY SumUnfolds
  <1> DEFINE U(ids) == UNION {sets[f] : f \in ids}
             Bound(ids) == /\ Sum[ids] \in Nat
                           /\ IsFiniteSet(U(ids))
                           /\ Cardinality(U(ids)) <= Sum[ids]
             T == {pair \in Weighings : pair[1] = w => Bound(pair[2])}
  <1>2. Bound({})
    <2>1. U({}) = {}
      OBVIOUS
    <2> HIDE DEF U
    <2>2. IsFiniteSet({}) /\ Cardinality({}) = 0
      BY FS_EmptySet
    <2>3. Sum[{}] = 0
      BY <1>1
    <2> QED
      BY <2>1, <2>2, <2>3
  <1>3. ASSUME NEW ids \in SUBSET DOMAIN w, ids # {}, Bound(ids \ {Some(ids)})
        PROVE  Bound(ids)
    <2> DEFINE f == Some(ids)
               rest == ids \ {Some(ids)}
    <2>1. f \in ids /\ f \in DOMAIN w
      BY <1>3, WeighingFacts
    <2>2. U(ids) = U(rest) \cup sets[f]
      BY <2>1
    <2>3. Sum[ids] = w[f] + Sum[rest] /\ w[f] \in Nat /\ Sum[rest] \in Nat
      BY <1>1, <1>3, <2>1, WeighingFacts
    <2>4. /\ IsFiniteSet(U(rest)) /\ Cardinality(U(rest)) <= Sum[rest]
          /\ IsFiniteSet(sets[f]) /\ Cardinality(sets[f]) <= w[f]
      BY <1>3, <2>1
    <2> HIDE DEF f, rest, U
    <2>5. /\ IsFiniteSet(U(rest) \cup sets[f])
          /\ Cardinality(U(rest) \cup sets[f])
                = Cardinality(U(rest)) + Cardinality(sets[f]) - Cardinality(U(rest) \cap sets[f])
      BY <2>4, FS_Union
    <2>6. /\ Cardinality(U(rest)) \in Nat /\ Cardinality(sets[f]) \in Nat
          /\ Cardinality(U(rest) \cap sets[f]) \in Nat
      BY <2>4, FS_CardinalityType, FS_Intersection
    <2>7. Cardinality(U(rest) \cup sets[f]) <= w[f] + Sum[rest]
      BY <2>3, <2>4, <2>5, <2>6
    <2>8. w[f] + Sum[rest] \in Nat
      BY <2>3
    <2> QED
      BY <2>2, <2>3, <2>5, <2>7, <2>8
  <1>4. ASSUME NEW pair \in Weighings,
               \A y \in Weighings : WeighingSize(y) < WeighingSize(pair) => y \in T
        PROVE  pair \in T
    <2> SUFFICES ASSUME pair[1] = w PROVE Bound(pair[2])
      OBVIOUS
    <2> DEFINE ids == pair[2]
               rest == ids \ {Some(ids)}
    <2>1. ids \in SUBSET DOMAIN w
      BY DEF Weighings
    <2>2. CASE ids # {}
      <3>1. <<w, rest>> \in Weighings
        BY <2>1, WeighingFacts
      <3>2. Cardinality(ids) \in Nat /\ Cardinality(rest) = Cardinality(ids) - 1
        BY <2>1, <2>2, WeighingFacts
      <3>3. Cardinality(rest) < Cardinality(ids)
        BY <3>2
      <3>4. <<w, rest>> \in T
        BY <1>4, <3>1, <3>3 DEF WeighingSize
      <3>5. Bound(rest)
        BY <3>4
      <3> HIDE DEF Bound
      <3> QED
        BY <1>3, <2>1, <2>2, <3>5
    <2> QED
      BY <1>2, <2>2
  <1>5. Weighings \subseteq T
    <2> HIDE DEF T
    <2> QED
      BY <1>4, SumsRanked, Sums!RankInduction
  <1>6. <<w, DOMAIN w>> \in Weighings
    BY WeighingFacts
  <1>7. Bound(DOMAIN w)
    BY <1>5, <1>6
  <1> QED
    BY <1>1, <1>7

-----------------------------------------------------------------------------
(* The count of the fields bounds the number of their paths.               *)

CountBounds(def) ==
    /\ NestedCount[def] \in Nat
    /\ IsFiniteSet(PathsBelow[def])
    /\ Cardinality(PathsBelow[def]) <= NestedCount[def]

LEMMA FieldCountBounds ==
    ASSUME NEW fields, DOMAIN fields \in FieldSets, DOMAIN fields \subseteq Ids,
           \A f \in DOMAIN fields : fields[f].def \in Definitions /\ CountBounds(fields[f].def)
    PROVE  /\ FieldCount(fields) \in Nat
           /\ IsFiniteSet(FieldPaths(fields))
           /\ Cardinality(FieldPaths(fields)) <= FieldCount(fields)
  <1> DEFINE w == [f \in DOMAIN fields |-> 1 + NestedCount[fields[f].def]]
             Inside(f) == {<<f>> \o p : p \in PathsBelow[fields[f].def]}
             sets == [f \in DOMAIN fields |-> {<<f>>} \cup Inside(f)]
  <1>1. w \in Weights
    BY DEF Weights, CountBounds
  <1>2. ASSUME NEW f \in DOMAIN fields
        PROVE  IsFiniteSet(sets[f]) /\ Cardinality(sets[f]) <= w[f]
    <2> DEFINE P == PathsBelow[fields[f].def]
    <2>1. /\ IsFiniteSet(P) /\ Cardinality(P) \in Nat
          /\ NestedCount[fields[f].def] \in Nat /\ Cardinality(P) <= NestedCount[fields[f].def]
      BY FS_CardinalityType DEF CountBounds
    <2>2. IsFiniteSet(Inside(f)) /\ Cardinality(Inside(f)) <= Cardinality(P)
      <3> DEFINE g == [p \in P |-> <<f>> \o p]
      <3>1. g \in Surjection(P, Inside(f))
        BY DEF Surjection
      <3> HIDE DEF g, P, Inside
      <3> QED
        BY <2>1, <3>1, FS_Surjection
    <2>3. IsFiniteSet({<<f>>}) /\ Cardinality({<<f>>}) = 1
      BY FS_Singleton
    <2> HIDE DEF P, Inside
    <2>4. /\ IsFiniteSet({<<f>>} \cup Inside(f))
          /\ Cardinality({<<f>>} \cup Inside(f))
                = 1 + Cardinality(Inside(f)) - Cardinality({<<f>>} \cap Inside(f))
      BY <2>2, <2>3, FS_Union
    <2>5. Cardinality(Inside(f)) \in Nat /\ Cardinality({<<f>>} \cap Inside(f)) \in Nat
      BY <2>2, <2>3, FS_CardinalityType, FS_Intersection
    <2>6. Cardinality({<<f>>} \cup Inside(f)) <= 1 + NestedCount[fields[f].def]
      BY <2>1, <2>2, <2>4, <2>5
    <2> QED
      BY <2>4, <2>6
  <1>3. FieldCount(fields) = SumFunction(w)
    BY DEF FieldCount, CountWith
  <1>4. FieldPaths(fields) = UNION {sets[f] : f \in DOMAIN w}
    <2> DEFINE inside == [f \in DOMAIN fields |-> PathsBelow[fields[f].def]]
    <2>1. FieldPaths(fields)
             = UNION {{<<f>>} \cup {<<f>> \o p : p \in inside[f]} : f \in DOMAIN inside}
      BY DEF FieldPaths, PathsOf
    <2>2. \A f \in DOMAIN fields : {<<f>>} \cup {<<f>> \o p : p \in inside[f]} = sets[f]
      OBVIOUS
    <2>3. DOMAIN inside = DOMAIN fields /\ DOMAIN w = DOMAIN fields
      OBVIOUS
    <2> HIDE DEF inside, sets, w
    <2> QED
      BY <2>1, <2>2, <2>3
  <1>5. \A f \in DOMAIN w : IsFiniteSet(sets[f]) /\ Cardinality(sets[f]) <= w[f]
    BY <1>2
  <1> HIDE DEF w, sets
  <1> QED
    BY <1>1, <1>3, <1>4, <1>5, SumBounds

LEMMA CountsBound == \A def \in Definitions : CountBounds(def)
  <1> DEFINE T == {def \in Definitions : CountBounds(def)}
  <1>1. ASSUME NEW def \in Definitions,
               \A y \in Definitions : DefinitionHeight(y) < DefinitionHeight(def) => y \in T
        PROVE  def \in T
    <2>1. NestedCount[def] = CountStep(NestedCount, def)
      BY CountEquation
    <2>2. CASE def.type = "object"
      <3>1. /\ DOMAIN def.fields \subseteq Ids
            /\ DOMAIN def.fields \in FieldSets
            /\ \A f \in DOMAIN def.fields :
                  def.fields[f].def \in Definitions /\ CountBounds(def.fields[f].def)
        BY <1>1, <2>2, InsideDefinition, FieldIds DEF FieldSets
      <3>2. NestedCount[def] = FieldCount(def.fields)
        BY <2>1, <2>2 DEF CountStep, FieldCount
      <3>3. PathsBelow[def] = FieldPaths(def.fields)
        BY <2>2, DefinitionPaths
      <3>4. /\ FieldCount(def.fields) \in Nat
            /\ IsFiniteSet(FieldPaths(def.fields))
            /\ Cardinality(FieldPaths(def.fields)) <= FieldCount(def.fields)
        BY <3>1, FieldCountBounds
      <3> QED
        BY <3>2, <3>3, <3>4 DEF CountBounds
    <2>3. CASE def.type = "array"
      <3>1. def.items \in Definitions /\ CountBounds(def.items)
        BY <1>1, <2>3, InsideDefinition
      <3>2. NestedCount[def] = NestedCount[def.items]
        BY <2>1, <2>3 DEF CountStep
      <3>3. PathsBelow[def] = PathsBelow[def.items]
        BY <2>3, DefinitionPaths
      <3> QED
        BY <3>1, <3>2, <3>3 DEF CountBounds
    <2>4. CASE def.type \in {"text", "number"}
      <3>1. NestedCount[def] = 0
        BY <2>1, <2>4 DEF CountStep
      <3>2. PathsBelow[def] = {}
        BY <2>4, DefinitionPaths
      <3>3. IsFiniteSet({}) /\ Cardinality({}) = 0
        BY FS_EmptySet
      <3> QED
        BY <3>1, <3>2, <3>3 DEF CountBounds
    <2> QED
      BY <2>2, <2>3, <2>4, DefinitionsAssumption DEF Types
  <1>2. Definitions \subseteq T
    <2> HIDE DEF T
    <2> QED
      BY <1>1, DefinitionsAssumption, Count!RankInduction DEF Count!Ranked
  <1> QED
    BY <1>2

\* A valid schema is within the limits.
LEMMA ValidWithinLimits ==
    ASSUME NEW s \in SchemaCases, ValidSchema(s)
    PROVE  /\ Cardinality(FieldPaths(s)) <= MaxFields
           /\ \A p \in FieldPaths(s) : Len(p) <= MaxDepth
  <1>1. /\ DOMAIN s \subseteq Ids
        /\ DOMAIN s \in FieldSets
        /\ \A f \in DOMAIN s : s[f].def \in Definitions
    BY CasesAssumption, FieldIds DEF FieldSets
  <1>2. Cardinality(FieldPaths(s)) <= MaxFields
    <2>1. /\ FieldCount(s) \in Nat
          /\ IsFiniteSet(FieldPaths(s))
          /\ Cardinality(FieldPaths(s)) <= FieldCount(s)
      BY <1>1, CountsBound, FieldCountBounds
    <2>2. FieldCount(s) <= MaxFields
      BY DEF ValidSchema, WithinCount
    <2>3. Cardinality(FieldPaths(s)) \in Nat
      BY <2>1, FS_CardinalityType
    <2> QED
      BY <2>1, <2>2, <2>3, LimitsAssumption
  <1>3. ASSUME NEW p \in FieldPaths(s) PROVE Len(p) <= MaxDepth
    <2>1. WellFormedFields(s, 0 + 1, WellFormed)
      BY DEF ValidSchema
    <2>2. 0 + Len(p) <= MaxDepth
      BY <1>1, <2>1, DepthsKept, FieldDepth
    <2>3. Len(p) \in Nat
      <3> DEFINE inside == [f \in DOMAIN s |-> PathsBelow[s[f].def]]
      <3>1. DOMAIN inside \subseteq Ids /\ \A f \in DOMAIN inside : inside[f] \subseteq Seq(Ids)
        BY <1>1, DefinitionPathsTyped
      <3>2. p \in PathsOf(inside)
        BY DEF FieldPaths
      <3> HIDE DEF inside
      <3>3. p \in Seq(Ids)
        BY <3>1, <3>2, PathsTyped
      <3> QED
        BY <3>3, LenProperties
    <2> QED
      BY <2>2, <2>3
  <1> QED
    BY <1>2, <1>3

-----------------------------------------------------------------------------
(* Validation comes to a decision, at every level.                         *)

Decisions == {"ok", "invalid"}

LEMMA FailuresAreOutcomes ==
    ASSUME NEW O, O \subseteq Decisions
    PROVE  FirstFailure(O) \subseteq Decisions
  BY DEF FirstFailure, Decisions

LEMMA ObjectsDecided ==
    ASSUME NEW fields, NEW values,
           \A f \in DOMAIN values : f \in DOMAIN fields =>
               ValueVerdicts[<<fields[f].def, values[f]>>] \subseteq Decisions
    PROVE  ObjectVerdicts(fields, values, ValueVerdicts) \subseteq Decisions
  <1> DEFINE O == UNION {ValueVerdicts[<<fields[f].def, values[f]>>] : f \in DOMAIN values}
  <1>1. CASE DOMAIN values \subseteq DOMAIN fields
    <2>1. O \subseteq Decisions
      BY <1>1
    <2>2. FirstFailure(O) \subseteq Decisions
      <3> HIDE DEF O
      <3> QED
        BY <2>1, FailuresAreOutcomes
    <2>3. \/ ObjectVerdicts(fields, values, ValueVerdicts) = {"invalid"}
          \/ ObjectVerdicts(fields, values, ValueVerdicts) = FirstFailure(O)
      BY DEF ObjectVerdicts
    <2> HIDE DEF O
    <2> QED
      BY <2>2, <2>3 DEF Decisions
  <1>2. CASE ~(DOMAIN values \subseteq DOMAIN fields)
    BY <1>2 DEF ObjectVerdicts, Decisions
  <1> QED
    BY <1>1, <1>2

LEMMA ValuesDecided ==
    ASSUME BoundsAreNumbers
    PROVE  \A pair \in Pairs : ValueVerdicts[pair] \subseteq Decisions
  <1> DEFINE T == {pair \in Pairs : ValueVerdicts[pair] \subseteq Decisions}
  <1>1. ASSUME NEW pair \in Pairs,
               \A y \in Pairs : PairHeight(y) < PairHeight(pair) => y \in T
        PROVE  pair \in T
    <2> DEFINE def == pair[1]
               value == pair[2]
    <2>1. def \in Definitions /\ value \in Values
      BY DEF Pairs
    <2>2. ASSUME NEW d \in Definitions, NEW v \in Values, DefinitionHeight(d) < DefinitionHeight(def)
          PROVE  ValueVerdicts[<<d, v>>] \subseteq Decisions
      BY <1>1, <2>2 DEF Pairs, PairHeight
    <2>3. ValueVerdicts[pair] = TypeVerdicts(def, value, ValueVerdicts)
      BY VerdictEquation DEF VerdictStep
    <2> SUFFICES TypeVerdicts(def, value, ValueVerdicts) \subseteq Decisions
      BY <2>3
    <2> HIDE DEF def, value
    <2>4. CASE def.type = value.is /\ def.type = "object"
      <3>1. \A f \in DOMAIN value.at : f \in DOMAIN def.fields =>
               ValueVerdicts[<<def.fields[f].def, value.at[f]>>] \subseteq Decisions
        BY <2>1, <2>2, <2>4, InsideDefinition, InsideValue
      <3>2. ObjectVerdicts(def.fields, value.at, ValueVerdicts) \subseteq Decisions
        BY <3>1, ObjectsDecided
      <3> QED
        BY <2>4, <3>2 DEF TypeVerdicts
    <2>5. CASE def.type = value.is /\ def.type = "array"
      <3> DEFINE O == UNION {ValueVerdicts[<<def.items, value.items[k]>>] : k \in DOMAIN value.items}
      <3>1. \A k \in DOMAIN value.items :
               ValueVerdicts[<<def.items, value.items[k]>>] \subseteq Decisions
        BY <2>1, <2>2, <2>5, InsideDefinition, InsideValue
      <3>2. O \subseteq Decisions
        BY <3>1
      <3>3. TypeVerdicts(def, value, ValueVerdicts) = FirstFailure(O)
        BY <2>5 DEF TypeVerdicts
      <3> HIDE DEF O
      <3> QED
        BY <3>2, <3>3, FailuresAreOutcomes
    <2>6. CASE def.type = value.is /\ def.type = "number"
      <3>1. NumberVerdicts(def, value.n) \subseteq Decisions
        BY <2>1, <2>6 DEF NumberVerdicts, BoundsAreNumbers, Decisions
      <3> QED
        BY <2>6, <3>1 DEF TypeVerdicts
    <2>7. CASE def.type = value.is /\ def.type = "text"
      BY <2>7 DEF TypeVerdicts, Decisions
    <2>8. CASE def.type # value.is
      BY <2>8 DEF TypeVerdicts, Decisions
    <2> QED
      BY <2>1, <2>4, <2>5, <2>6, <2>7, <2>8, DefinitionsAssumption DEF Types
  <1>2. Verdict!Ranked
    BY DefinitionsAssumption DEF Verdict!Ranked, Pairs, PairHeight
  <1>3. Pairs \subseteq T
    <2> HIDE DEF T
    <2> QED
      BY <1>1, <1>2, Verdict!RankInduction
  <1> QED
    BY <1>3

LEMMA RecordsDecided ==
    ASSUME BoundsAreNumbers, NEW s \in SchemaCases, NEW d \in DataCases
    PROVE  Verdicts(s, d) \subseteq Decisions
  <1>1. \A f \in DOMAIN d : f \in DOMAIN s =>
           ValueVerdicts[<<s[f].def, d[f]>>] \subseteq Decisions
    BY CasesAssumption, ValuesDecided DEF Pairs
  <1> QED
    BY <1>1, ObjectsDecided DEF Verdicts
-----------------------------------------------------------------------------
(* Schemas and records as a whole.                                         *)

LEMMA AcceptedRecord ==
    ASSUME NEW s \in SchemaCases, NEW d \in DataCases, "ok" \in Verdicts(s, d)
    PROVE  /\ DOMAIN d \subseteq DOMAIN s
           /\ \A f \in DOMAIN d : <<s[f].def, d[f]>> \in Accepted
  BY CasesAssumption, AcceptedFields DEF Verdicts

LEMMA RecordPublic ==
    ASSUME TablesAreOpen, NEW s \in SchemaCases, NEW d \in DataCases, "ok" \in Verdicts(s, d)
    PROVE  ValuePaths(Project(s, d)) \subseteq PublicPaths(s)
  <1>1. \A f \in DOMAIN s \cap DOMAIN d :
           ValuePathsBelow[ProjectValue[<<s[f].def, d[f]>>]] \subseteq PublicBelow[s[f].def]
    BY AcceptedRecord, CopiesArePublic
  <1> QED
    BY <1>1, ProjectionPaths

LEMMA RecordComplete ==
    ASSUME NEW s \in SchemaCases, NEW d \in DataCases, "ok" \in Verdicts(s, d)
    PROVE  ValuePaths(d) \cap PublicPaths(s) \subseteq ValuePaths(Project(s, d))
  <1>1. \A f \in DOMAIN d :
           ValuePathsBelow[d[f]] \cap PublicBelow[s[f].def]
              \subseteq ValuePathsBelow[ProjectValue[<<s[f].def, d[f]>>]]
    BY AcceptedRecord, CopiesAreComplete
  <1> QED
    BY <1>1, AcceptedRecord, CasesAssumption, FieldIds, ProjectionKeeps

\* An update that preserves the fields leaves public what is public.
LEMMA PreservedPublic ==
    ASSUME NEW current, NEW updated, Preserves(current, updated)
    PROVE  PublicPaths(current) \subseteq PublicPaths(updated)
  <1> DEFINE a == [f \in PublicIds(current) |-> PublicBelow[current[f].def]]
             b == [f \in PublicIds(updated) |-> PublicBelow[updated[f].def]]
  <1>1. DOMAIN a \subseteq DOMAIN b /\ \A f \in DOMAIN a : a[f] \subseteq b[f]
    BY DEF Preserves, PublicIds
  <1>2. PublicPaths(current) = PathsOf(a) /\ PublicPaths(updated) = PathsOf(b)
    BY DEF PublicPaths
  <1> HIDE DEF a, b
  <1> QED
    BY <1>1, <1>2, PathsMonotone

-----------------------------------------------------------------------------
(* The inductive invariant: a public item has a record, a record a schema, *)
(* and what is stored was sent; a schema in use is valid.                  *)

Grounded ==
    /\ schema \in SchemaCases \cup {Absent}
    /\ record \in DataCases \cup {Absent}
    /\ public # Absent => record # Absent
    /\ record # Absent => schema # Absent
    /\ schema # Absent => ValidSchema(schema)

LEMMA GroundedInitial == Init => Grounded
  BY DEF Init, Grounded

LEMMA GroundedStep == Grounded /\ [Next]_vars => Grounded'
  <1> SUFFICES ASSUME Grounded, [Next]_vars PROVE Grounded'
    OBVIOUS
  <1> USE CasesAssumption DEF Grounded
  <1>1. ASSUME NEW s \in SchemaCases, CreateCollection(s) PROVE Grounded'
    BY <1>1 DEF CreateCollection, Refuse
  <1>2. ASSUME NEW s \in SchemaCases, UpdateCollection(s) PROVE Grounded'
    BY <1>2 DEF UpdateCollection, Refuse
  <1>3. ASSUME NEW d \in DataCases, StoreRecord(d) PROVE Grounded'
    BY <1>3 DEF StoreRecord, Refuse
  <1>4. CASE PublishRecord
    BY <1>4 DEF PublishRecord, Refuse
  <1>5. CASE UNCHANGED vars
    BY <1>5 DEF vars
  <1> QED
    BY <1>1, <1>2, <1>3, <1>4, <1>5 DEF Next

LEMMA GroundedHolds == Spec => []Grounded
  BY GroundedInitial, GroundedStep, PTL DEF Spec

LEMMA PublicStepHolds ==
    ASSUME TablesAreOpen
    PROVE  Grounded /\ OnlyPublicShown /\ [Next]_vars => OnlyPublicShown'
  <1> SUFFICES ASSUME Grounded, OnlyPublicShown, [Next]_vars PROVE OnlyPublicShown'
    OBVIOUS
  <1> USE CasesAssumption DEF Grounded, OnlyPublicShown
  <1>1. ASSUME NEW s \in SchemaCases, CreateCollection(s) PROVE OnlyPublicShown'
    BY <1>1 DEF CreateCollection, Refuse
  <1>2. ASSUME NEW s \in SchemaCases, UpdateCollection(s) PROVE OnlyPublicShown'
    <2>1. CASE UNCHANGED <<schema, public>>
      BY <2>1
    <2>2. CASE schema' = s /\ public' = public /\ (record # Absent => Preserves(schema, s))
      BY <2>2, PreservedPublic
    <2> QED
      BY <1>2, <2>1, <2>2 DEF UpdateCollection, Refuse
  <1>3. ASSUME NEW d \in DataCases, StoreRecord(d) PROVE OnlyPublicShown'
    BY <1>3 DEF StoreRecord, Refuse
  <1>4. CASE PublishRecord
    <2>1. CASE UNCHANGED <<schema, public>>
      BY <2>1
    <2>2. CASE "ok" \in Verdicts(schema, record) /\ record # Absent
               /\ public' = Project(schema, record) /\ schema' = schema
      BY <2>2, RecordPublic
    <2> QED
      BY <1>4, <2>1, <2>2 DEF PublishRecord, Refuse
  <1>5. CASE UNCHANGED vars
    BY <1>5 DEF vars
  <1> QED
    BY <1>1, <1>2, <1>3, <1>4, <1>5 DEF Next

\* README, "Public reads expose only ... fields classified public", at every
\* level and through every update of the schema, where arrays of arrays hold
\* nothing that is not public: _project_value copies those whole.
THEOREM PublicAtEveryLevel == TablesAreOpen => (Spec => []OnlyPublicShown)
  <1> SUFFICES ASSUME TablesAreOpen PROVE Spec => []OnlyPublicShown
    OBVIOUS
  <1>1. Init => OnlyPublicShown
    BY DEF Init, OnlyPublicShown
  <1>2. Grounded /\ OnlyPublicShown /\ [Next]_vars => OnlyPublicShown'
    BY PublicStepHolds
  <1> QED
    BY <1>1, <1>2, GroundedHolds, PTL DEF Spec

\* What is published shows each public field of the record that has a value,
\* at every level, whatever the schema: public_projection leaves out no more
\* than it must.
THEOREM PublishedCompletely == Spec => EveryPublicShown
  <1>1. ASSUME Grounded, [Next]_vars, public' # public
        PROVE  ValuePaths(record) \cap PublicPaths(schema) \subseteq ValuePaths(public')
    <2>1. PublishRecord
      BY <1>1 DEF Next, CreateCollection, UpdateCollection, StoreRecord, Refuse, vars
    <2>2. /\ "ok" \in Verdicts(schema, record)
          /\ public' = Project(schema, record)
      BY <1>1, <2>1 DEF PublishRecord, Refuse
    <2>3. schema \in SchemaCases /\ record \in DataCases
      BY <1>1, <2>1 DEF Grounded, PublishRecord
    <2> QED
      BY <2>2, <2>3, RecordComplete
  <1>2. Grounded /\ [Next]_vars =>
           [public' # public => ValuePaths(record) \cap PublicPaths(schema)
                                   \subseteq ValuePaths(public')]_vars
    BY <1>1
  <1> QED
    BY <1>2, GroundedHolds, PTL DEF Spec, EveryPublicShown

\* Every collection stays within the two limits of validate_schema, which
\* counts and measures while it recurses: maxFieldsPerCollection bounds the
\* fields of all levels together, and no field lies deeper than the policy
\* allows, however deep the objects and arrays of the schema are nested.
THEOREM LimitsAtEveryLevel == Spec => []LimitsHold
  <1>1. Grounded => LimitsHold
    BY ValidWithinLimits, CasesAssumption DEF Grounded, LimitsHold
  <1> QED
    BY <1>1, GroundedHolds, PTL

\* "Validate record values against an already validated schema": of what is
\* modelled of a schema, nothing but a null lower bound makes validate_record
\* end in an exception other than SchemaPolicyError.
THEOREM OnlyNullBoundsFail == BoundsAreNumbers => (Spec => []ValidationDecides)
  <1> SUFFICES ASSUME BoundsAreNumbers PROVE Spec => []ValidationDecides
    OBVIOUS
  <1>1. Init => ValidationDecides
    BY DEF Init, ValidationDecides
  <1>2. Grounded /\ ValidationDecides /\ [Next]_vars => ValidationDecides'
    <2> SUFFICES ASSUME Grounded, ValidationDecides, [Next]_vars PROVE ValidationDecides'
      OBVIOUS
    <2> USE DEF ValidationDecides
    <2>1. ASSUME NEW s \in SchemaCases, CreateCollection(s) PROVE ValidationDecides'
      BY <2>1 DEF CreateCollection, Refuse
    <2>2. ASSUME NEW s \in SchemaCases, UpdateCollection(s) PROVE ValidationDecides'
      BY <2>2 DEF UpdateCollection, Refuse
    <2>3. ASSUME NEW d \in DataCases, StoreRecord(d) PROVE ValidationDecides'
      <3>1. Verdicts(schema, d) \subseteq Decisions
        BY <2>3, RecordsDecided DEF Grounded, StoreRecord
      <3> QED
        BY <2>3, <3>1 DEF StoreRecord, Refuse, Decisions
    <2>4. CASE PublishRecord
      <3>1. Verdicts(schema, record) \subseteq Decisions
        BY <2>4, RecordsDecided DEF Grounded, PublishRecord
      <3> QED
        BY <2>4, <3>1 DEF PublishRecord, Refuse, Decisions
    <2>5. CASE UNCHANGED vars
      BY <2>5 DEF vars
    <2> QED
      BY <2>1, <2>2, <2>3, <2>4, <2>5 DEF Next
  <1> QED
    BY <1>1, <1>2, GroundedHolds, PTL DEF Spec
=============================================================================
