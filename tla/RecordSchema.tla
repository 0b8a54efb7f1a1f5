---------------------------- MODULE RecordSchema ----------------------------
(***************************************************************************)
(* What domain/schema_policy.py decides about a schema and a record, and   *)
(* what domain/records.py projects, for schemas of one level.  A field's   *)
(* type with all its options (length bounds, enum values, restricted       *)
(* text...) is abstracted to the set of values it accepts; the size of a   *)
(* record to its number of fields.                                         *)
(***************************************************************************)
EXTENDS Naturals, FiniteSets

CONSTANTS
    Fields,     \* field ids a schema may define
    Values      \* field values that clients may send

Classifications == {"public", "internal"}

\* A field definition: classification, required flag, and the values that
\* its type and options accept.
FieldDef == [classification : Classifications,
             required       : BOOLEAN,
             accepts        : SUBSET Values]

\* The "fields" array of a schema, keyed by field id.
Schemas == UNION {[ids -> FieldDef] : ids \in SUBSET Fields}

\* Record data, and public projections: a value for some of the fields.
Datas == UNION {[ids -> Values] : ids \in SUBSET Fields}

\* validate_schema: at least one field, no more than max_fields, and every
\* classification among the allowed ones.
ValidSchema(s, maxFields, allowed) ==
    /\ DOMAIN s # {}
    /\ Cardinality(DOMAIN s) <= maxFields
    /\ \A f \in DOMAIN s : s[f].classification \in allowed

\* _validate_object_values: no unknown field, every required field present,
\* every value accepted by its field.
Conforms(s, d) ==
    /\ DOMAIN d \subseteq DOMAIN s
    /\ \A f \in DOMAIN s : s[f].required => f \in DOMAIN d
    /\ \A f \in DOMAIN d : d[f] \in s[f].accepts

Size(d) == Cardinality(DOMAIN d)

\* validate_record with the byte limit of the resolved policy.
ValidRecord(s, d, maxBytes) ==
    /\ Conforms(s, d)
    /\ Size(d) <= maxBytes

PublicFields(s, d) ==
    {f \in DOMAIN d : f \in DOMAIN s /\ s[f].classification = "public"}

\* public_projection: the values of the fields classified public.
Project(s, d) == [f \in PublicFields(s, d) |-> d[f]]

\* A variant of Preserves: fields must be kept, their definitions may change.
KeepsFieldIds(current, updated) == DOMAIN current \subseteq DOMAIN updated

\* _schema_preserves_existing_fields: each existing definition is unchanged.
Preserves(current, updated) ==
    \A f \in DOMAIN current : f \in DOMAIN updated /\ updated[f] = current[f]
=============================================================================
