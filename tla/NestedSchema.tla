---------------------------- MODULE NestedSchema ----------------------------
(***************************************************************************)
(* domain/schema_policy.py and domain/records.py over nested schemas:      *)
(* objects and arrays at any depth, the recursion of the code and, beside  *)
(* it, reference definitions by paths.  Everything else a type may demand  *)
(* (lengths, enum values, restricted text) is left to RecordSchema; the    *)
(* type "number" keeps its lower bound, which may be missing or null.      *)
(***************************************************************************)
EXTENDS Integers, Sequences, FiniteSets, Functions

CONSTANTS
    MaxFields,      \* maxFieldsPerCollection of the resolved policy
    MaxDepth,       \* the four of _validate_fields
    Missing,        \* a key that is not in a field definition
    Null,           \* JSON null
    Definitions,    \* the field definitions there may be, with all inside them
    Values,         \* the JSON values there may be, with all inside them
    DefinitionHeight(_), ValueHeight(_)     \* how deep each of them is nested

\* A definition is [type |-> "text"], [type |-> "number", minimum |-> m],
\* [type |-> "object", fields |-> fs] or [type |-> "array", items |-> def];
\* fields map ids to [classification, required, def]; a value is
\* [is |-> "text"], [is |-> "number", n |-> k], [is |-> "object", at |-> f]
\* or [is |-> "array", items |-> seq].
Types == {"text", "number", "object", "array"}

\* What a definition, and what a value, has directly inside.
Parts(def) ==
    CASE def.type = "object" -> {def.fields[f].def : f \in DOMAIN def.fields}
      [] def.type = "array"  -> {def.items}
      [] OTHER               -> {}

ValueParts(value) ==
    CASE value.is = "object" -> {value.at[f] : f \in DOMAIN value.at}
      [] value.is = "array"  -> {value.items[k] : k \in DOMAIN value.items}
      [] OTHER               -> {}

\* Schemas and records are JSON documents: finite trees.  The recursion of the
\* code goes from a definition or a value to its parts.
ASSUME DefinitionsAssumption ==
    \A def \in Definitions :
        /\ def.type \in Types
        /\ def.type = "object" => IsFiniteSet(DOMAIN def.fields)
        /\ DefinitionHeight(def) \in Nat
        /\ \A part \in Parts(def) :
              part \in Definitions /\ DefinitionHeight(part) < DefinitionHeight(def)

ASSUME ValuesAssumption ==
    \A value \in Values :
        /\ value.is \in Types
        /\ ValueHeight(value) \in Nat
        /\ \A part \in ValueParts(value) :
              part \in Values /\ ValueHeight(part) < ValueHeight(value)

ASSUME LimitsAssumption == MaxFields \in Nat /\ MaxDepth \in Nat

-----------------------------------------------------------------------------
(* validate_schema.                                                        *)

\* state["count"], when the fields of all levels have been visited: one for
\* each of these fields, and what is counted inside it.
CountWith(fields, inside) ==
    SumFunction([f \in DOMAIN fields |-> 1 + inside[fields[f].def]])

NestedCount[def \in Definitions] ==
    CASE def.type = "object" -> CountWith(def.fields, NestedCount)
      [] def.type = "array"  -> NestedCount[def.items]
      [] OTHER               -> 0

FieldCount(fields) == CountWith(fields, NestedCount)

\* A variant of TooDeep: the first level is counted as level zero.
OneLevelMore(depth) == depth > MaxDepth + 1

TooDeep(depth) == depth > MaxDepth

\* _validate_fields: the depth is checked where fields are, not for arrays.
WellFormedFields(fields, depth, wellFormed) ==
    /\ ~TooDeep(depth)
    /\ DOMAIN fields # {}
    /\ \A f \in DOMAIN fields : wellFormed[fields[f].def][depth]

\* _validate_field: a null minimum passes as a missing one does.
WellFormed[def \in Definitions] ==
    [depth \in Nat |->
        /\ def.type = "object" => WellFormedFields(def.fields, depth + 1, WellFormed)
        /\ def.type = "array" => WellFormed[def.items][depth + 1]]

\* A variant of WithinCount: the fields of the first level only.
TopLevelCount(fields) == Cardinality(DOMAIN fields) <= MaxFields

WithinCount(fields) == FieldCount(fields) <= MaxFields

ValidSchema(fields) == WellFormedFields(fields, 1, WellFormed) /\ WithinCount(fields)

-----------------------------------------------------------------------------
(* validate_record: the possible outcomes, "ok", "invalid" for a           *)
(* SchemaPolicyError or "error" for any other exception.  Which of several *)
(* fields fails first depends on the order of the request.                 *)

FirstFailure(outcomes) ==
    IF outcomes = {"ok"} \/ outcomes = {} THEN {"ok"} ELSE outcomes \ {"ok"}

MissesRequired(fields, values) ==
    \E f \in DOMAIN fields : fields[f].required /\ f \notin DOMAIN values

\* _validate_object_values.
ObjectVerdicts(fields, values, verdicts) ==
    IF ~(DOMAIN values \subseteq DOMAIN fields) \/ MissesRequired(fields, values)
    THEN {"invalid"}
    ELSE FirstFailure(UNION {verdicts[<<fields[f].def, values[f]>>] : f \in DOMAIN values})

\* A variant of NumberVerdicts: value < field["minimum"], without looking first.
ReadsMissing(def, n) ==
    CASE def.minimum \in {Missing, Null} -> {"error"}
      [] OTHER                           -> IF n < def.minimum THEN {"invalid"} ELSE {"ok"}

\* _check_number_bounds: "minimum" in field, then value < field["minimum"].
NumberVerdicts(def, n) ==
    CASE def.minimum = Missing -> {"ok"}
      [] def.minimum = Null    -> {"error"}
      [] OTHER                 -> IF n < def.minimum THEN {"invalid"} ELSE {"ok"}

\* _validate_value.
TypeVerdicts(def, value, verdicts) ==
    IF def.type # value.is THEN {"invalid"} ELSE
    CASE def.type = "text"   -> {"ok"}
      [] def.type = "number" -> NumberVerdicts(def, value.n)
      [] def.type = "object" -> ObjectVerdicts(def.fields, value.at, verdicts)
      [] def.type = "array"  ->
            FirstFailure(UNION {verdicts[<<def.items, value.items[k]>>] :
                                    k \in DOMAIN value.items})

ValueVerdicts[pair \in Definitions \X Values] ==
    TypeVerdicts(pair[1], pair[2], ValueVerdicts)

Verdicts(fields, values) == ObjectVerdicts(fields, values, ValueVerdicts)

-----------------------------------------------------------------------------
(* public_projection.                                                      *)

\* A variant of Shown: every field of the schema is shown.
AnyClass(fields, values) == DOMAIN fields \cap DOMAIN values

Falsy(value) == \/ value.is = "number" /\ value.n = 0
                \/ value.is = "array" /\ value.items = <<>>

\* A variant of Shown: a value that Python takes for false is left out.
ShownIfTruthy(fields, values) ==
    {f \in DOMAIN fields \cap DOMAIN values :
        fields[f].classification = "public" /\ ~Falsy(values[f])}

Shown(fields, values) ==
    {f \in DOMAIN fields \cap DOMAIN values : fields[f].classification = "public"}

\* _project_fields.
Projection(fields, values, projected) ==
    [f \in Shown(fields, values) |-> projected[<<fields[f].def, values[f]>>]]

IsArrayOfObjects(def) == def.type = "array" /\ def.items.type = "object"

\* _project_value: objects, and arrays whose items are objects, are
\* projected; any other value is copied as it is.
PublicCopy(def, value, projected) ==
    CASE def.type = "object"   ->
            [is |-> "object", at |-> Projection(def.fields, value.at, projected)]
      [] IsArrayOfObjects(def) ->
            [is |-> "array",
             items |-> [k \in DOMAIN value.items |-> projected[<<def.items, value.items[k]>>]]]
      [] OTHER                 -> value

\* Only what was validated is projected.
Accepted == {pair \in Definitions \X Values : "ok" \in ValueVerdicts[pair]}

ProjectValue[pair \in Accepted] ==
    PublicCopy(pair[1], pair[2], ProjectValue)

Project(fields, values) == Projection(fields, values, ProjectValue)

\* The public copy of a JSON value is a JSON value.
ASSUME ProjectionsAreValues == \A pair \in Accepted : ProjectValue[pair] \in Values

\* A variant of Preserves: nested definitions are not compared.
PreservesTopLevel(current, updated) ==
    \A f \in DOMAIN current :
        /\ f \in DOMAIN updated
        /\ updated[f].classification = current[f].classification
        /\ updated[f].def.type = current[f].def.type

\* _schema_preserves_existing_fields compares whole definitions.
Preserves(current, updated) ==
    \A f \in DOMAIN current : f \in DOMAIN updated /\ updated[f] = current[f]

-----------------------------------------------------------------------------
(* Reference definitions.  A path is a sequence of field ids; the items of *)
(* an array are at the path of the array.                                  *)

\* The paths of fields and, after each of them, of those inside it.
PathsOf(inside) ==
    UNION {{<<f>>} \cup {<<f>> \o p : p \in inside[f]} : f \in DOMAIN inside}

\* Every field of a schema, by its path.
PathsBelow[def \in Definitions] ==
    CASE def.type = "object" ->
            PathsOf([f \in DOMAIN def.fields |-> PathsBelow[def.fields[f].def]])
      [] def.type = "array"  -> PathsBelow[def.items]
      [] OTHER               -> {}

FieldPaths(fields) == PathsOf([f \in DOMAIN fields |-> PathsBelow[fields[f].def]])

\* The fields that are public with all the fields they are part of.
PublicIds(fields) == {f \in DOMAIN fields : fields[f].classification = "public"}

PublicBelow[def \in Definitions] ==
    CASE def.type = "object" ->
            PathsOf([f \in PublicIds(def.fields) |-> PublicBelow[def.fields[f].def]])
      [] def.type = "array"  -> PublicBelow[def.items]
      [] OTHER               -> {}

PublicPaths(fields) == PathsOf([f \in PublicIds(fields) |-> PublicBelow[fields[f].def]])

\* _project_value copies arrays of arrays as they are: here they hold no field
\* that is not public.
TablesAreOpen ==
    \A def \in Definitions :
        def.type = "array" /\ def.items.type = "array" => PathsBelow[def] = PublicBelow[def]

\* Every field that has a value, by its path.
ValuePathsBelow[value \in Values] ==
    CASE value.is = "object" ->
            PathsOf([f \in DOMAIN value.at |-> ValuePathsBelow[value.at[f]]])
      [] value.is = "array"  ->
            UNION {ValuePathsBelow[value.items[k]] : k \in DOMAIN value.items}
      [] OTHER               -> {}

ValuePaths(values) == PathsOf([f \in DOMAIN values |-> ValuePathsBelow[values[f]]])

\* No lower bound is JSON null, which validate_schema accepts.
BoundsAreNumbers == \A def \in Definitions : def.type = "number" => def.minimum # Null
=============================================================================
