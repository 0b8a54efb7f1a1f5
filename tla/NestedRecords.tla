---------------------------- MODULE NestedRecords ----------------------------
(***************************************************************************)
(* One collection with one record under nested schemas: the schema is      *)
(* created and updated, the record stored and published, one after the     *)
(* other.  The races between these steps are those of DataSpaceStore; here *)
(* the decisions of the policy functions are what they are at every depth. *)
(***************************************************************************)
EXTENDS NestedSchema

CONSTANTS
    SchemaCases,    \* the schemas that clients may send
    DataCases,      \* the record data that clients may send
    Absent          \* an item that is not there

ASSUME CasesAssumption ==
    /\ \A s \in SchemaCases :
          IsFiniteSet(DOMAIN s) /\ \A f \in DOMAIN s : s[f].def \in Definitions
    /\ \A d \in DataCases : \A f \in DOMAIN d : d[f] \in Values
    /\ Absent \notin SchemaCases \cup DataCases

VARIABLES
    schema,         \* the fields of the collection, or Absent
    record,         \* the data of the record, or Absent
    public,         \* the public data of the record, or Absent
    answer          \* the outcome of the last call

vars == <<schema, record, public, answer>>

Init ==
    /\ schema = Absent
    /\ record = Absent
    /\ public = Absent
    /\ answer = "ok"

Refuse(code) == answer' = code /\ UNCHANGED <<schema, record, public>>

CreateCollection(s) ==
    /\ schema = Absent
    /\ \/ ~ValidSchema(s) /\ Refuse("invalid")
       \/ ValidSchema(s) /\ schema' = s /\ answer' = "ok" /\ UNCHANGED <<record, public>>

UpdateCollection(s) ==
    /\ schema # Absent
    /\ \/ ~ValidSchema(s) /\ Refuse("invalid")
       \/ /\ ValidSchema(s)
          /\ record # Absent /\ ~Preserves(schema, s)
          /\ Refuse("conflict")
       \/ /\ ValidSchema(s)
          /\ record # Absent => Preserves(schema, s)
          /\ schema' = s
          /\ answer' = "ok"
          /\ UNCHANGED <<record, public>>

\* createRecord and updateRecord.
StoreRecord(d) ==
    /\ schema # Absent
    /\ \E verdict \in Verdicts(schema, d) :
          \/ verdict # "ok" /\ Refuse(verdict)
          \/ verdict = "ok" /\ record' = d /\ answer' = "ok" /\ UNCHANGED <<schema, public>>

PublishRecord ==
    /\ record # Absent
    /\ \E verdict \in Verdicts(schema, record) :
          \/ verdict # "ok" /\ Refuse(verdict)
          \/ /\ verdict = "ok"
             /\ DOMAIN Project(schema, record) = {}
             /\ Refuse("conflict")
          \/ /\ verdict = "ok"
             /\ DOMAIN Project(schema, record) # {}
             /\ public' = Project(schema, record)
             /\ answer' = "ok"
             /\ UNCHANGED <<schema, record>>

Next ==
    \/ \E s \in SchemaCases : CreateCollection(s) \/ UpdateCollection(s)
    \/ \E d \in DataCases : StoreRecord(d)
    \/ PublishRecord

Spec == Init /\ [][Next]_vars

-----------------------------------------------------------------------------
(* Properties.                                                             *)

\* maxFieldsPerCollection bounds the fields of all levels together, and no
\* field lies deeper than four: validate_schema counts while it recurses.
LimitsHold ==
    schema # Absent =>
        /\ Cardinality(FieldPaths(schema)) <= MaxFields
        /\ \A p \in FieldPaths(schema) : Len(p) <= MaxDepth

\* README, "Public reads expose only ... fields classified public": every
\* field that a public item shows is public at every level, in the schema of
\* this moment, however often the schema was updated since publication.
OnlyPublicShown ==
    public # Absent => ValuePaths(public) \subseteq PublicPaths(schema)

\* The projection leaves out nothing else: what is published shows each public
\* field of the record that has a value.
EveryPublicShown ==
    [][public' # public => ValuePaths(record) \cap PublicPaths(schema)
                              \subseteq ValuePaths(public')]_vars

\* "Validate record values against an already validated schema": a record
\* is accepted, or refused as invalid; no schema in use makes validation fail.
ValidationDecides == answer # "error"
=============================================================================
