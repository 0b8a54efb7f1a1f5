--------------------------- MODULE MCNestedRecords ---------------------------
(***************************************************************************)
(* Schemas and records for TLC: fields inside objects and arrays of        *)
(* objects in every classification, and chains of objects that are deeper  *)
(* than the policy allows.                                                 *)
(***************************************************************************)
EXTENDS NestedRecords

Classes == {"public", "internal"}

Field(classification, def) ==
    [classification |-> classification, required |-> FALSE, def |-> def]
Required(def) == [classification |-> "public", required |-> TRUE, def |-> def]

Text == [type |-> "text"]
Number(minimum) == [type |-> "number", minimum |-> minimum]
Object(fields) == [type |-> "object", fields |-> fields]
ArrayOf(def) == [type |-> "array", items |-> def]

AText == [is |-> "text"]
ANumber(n) == [is |-> "number", n |-> n]
AnObject(at) == [is |-> "object", at |-> at]
AnArray(items) == [is |-> "array", items |-> items]

\* The fields of an object, and the definitions an object may be part of.
Inner == {[x |-> Field(c, Text)] : c \in Classes}
            \cup {[x |-> Field(c, Text), y |-> Field("public", Number(0))] : c \in Classes}
Middle == {Object(fs) : fs \in Inner} \cup {ArrayOf(Object(fs)) : fs \in Inner}
OpenTable == ArrayOf(ArrayOf(Object([x |-> Field("public", Text)])))
Outer == {Text, ArrayOf(Text), Number(Missing), OpenTable} \cup Middle
            \cup {Object([z |-> Field(c, def)]) : c \in Classes, def \in Middle}

WideSchemas ==
    {[a |-> Field(c, def)] : c \in Classes, def \in Outer}
        \cup {[a |-> Field(c, def), b |-> Required(Text)] : c \in Classes, def \in Outer}

\* Two objects side by side: five fields of all levels together, or more.
FullSchemas ==
    {[a |-> Field("public", Object(fs)), b |-> Required(Text), d |-> Field("internal", def)] :
        fs \in Inner, def \in Middle}

\* Objects in objects, and objects in arrays in objects.
Chain[n \in 1 .. 6] ==
    [a |-> Field("public", IF n = 1 THEN Text ELSE Object(Chain[n - 1]))]
ArrayChain[n \in 1 .. 6] ==
    [a |-> Field("public", IF n = 1 THEN Text ELSE ArrayOf(Object(ArrayChain[n - 1])))]

NestedSchemas ==
    WideSchemas \cup FullSchemas \cup {Chain[n] : n \in 1 .. 6} \cup {ArrayChain[n] : n \in 1 .. 6}

\* Objects with one value, with two, one below its minimum, and with none.
InnerValues == {AnObject([x |-> AText]), AnObject([x |-> AText, y |-> ANumber(0)]),
                AnObject([y |-> ANumber(-1)]), AnObject(<<>>)}
MiddleValues == InnerValues \cup {AnArray(<<v>>) : v \in InnerValues}
                    \cup {AnArray(<<AnObject(<<>>), v>>) : v \in InnerValues}
ATable == AnArray(<<AnArray(<<AnObject([x |-> AText])>>)>>)
OuterValues == {AText, ANumber(0), AnArray(<<>>), AnArray(<<AText>>), ATable} \cup MiddleValues
                    \cup {AnObject([z |-> v]) : v \in MiddleValues}

NestedDatas ==
    {[a |-> v] : v \in OuterValues} \cup {[a |-> v, b |-> AText] : v \in OuterValues}

\* An array of arrays whose objects may have a field that is internal, which
\* no other workload has.
TableSchemas == {[a |-> Field("public", ArrayOf(ArrayOf(Object(fs))))] : fs \in Inner}
TableDatas == {[a |-> AnArray(<<AnArray(<<v>>)>>)] : v \in InnerValues}

\* A lower bound that is null.
NullSchemas == {[a |-> Field("public", Number(m))] : m \in {Missing, Null, 0}}
NumberDatas == {[a |-> ANumber(n)] : n \in {-1, 0}}

-----------------------------------------------------------------------------
(* The definitions and the values of a workload, with all those inside     *)
(* them, and the values with fields left out at any level.                 *)

RECURSIVE Inside(_), Narrowed(_), HeightOfDefinition(_), HeightOfValue(_)

Inside(def) == {def} \cup UNION {Inside(part) : part \in Parts(def)}

NarrowedObjects(at) ==
    UNION {{g \in [D -> UNION {Narrowed(at[f]) : f \in D}] : \A f \in D : g[f] \in Narrowed(at[f])} :
              D \in SUBSET DOMAIN at}

Narrowed(value) ==
    {value}
        \cup UNION {Narrowed(part) : part \in ValueParts(value)}
        \cup CASE value.is = "object" -> {AnObject(at) : at \in NarrowedObjects(value.at)}
               [] value.is = "array"  ->
                    {AnArray(items) : items \in
                        {s \in [DOMAIN value.items -> UNION {Narrowed(part) : part \in ValueParts(value)}] :
                            \A k \in DOMAIN s : s[k] \in Narrowed(value.items[k])}}
               [] OTHER               -> {}

DefinitionsIn(schemas) == UNION {UNION {Inside(s[f].def) : f \in DOMAIN s} : s \in schemas}
ValuesIn(datas) == UNION {UNION {Narrowed(d[f]) : f \in DOMAIN d} : d \in datas}

NestedDefinitions == DefinitionsIn(NestedSchemas)
NestedValues == ValuesIn(NestedDatas)
TableDefinitions == DefinitionsIn(TableSchemas)
TableValues == ValuesIn(TableDatas)
NullDefinitions == DefinitionsIn(NullSchemas)
NumberValues == ValuesIn(NumberDatas)

Above(heights) == IF heights = {} THEN 0 ELSE 1 + CHOOSE n \in heights : \A m \in heights : m <= n
HeightOfDefinition(def) == Above({HeightOfDefinition(part) : part \in Parts(def)})
HeightOfValue(value) == Above({HeightOfValue(part) : part \in ValueParts(value)})

\* The hypotheses of PublicAtEveryLevel and OnlyNullBoundsFail.
ASSUME NestedHypotheses ==
    SchemaCases = NestedSchemas => TablesAreOpen /\ BoundsAreNumbers
=============================================================================
