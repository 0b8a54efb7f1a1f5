------------------------------ MODULE DataSpace ------------------------------
(***************************************************************************)
(* What one data space promises its clients: every mutation takes effect   *)
(* at one instant, on the state of that instant.  No snapshots, counters,  *)
(* receipts or conditions: the schema a record is checked against, the     *)
(* limits and the expected revisions are those of the moment the mutation  *)
(* takes effect.                                                           *)
(***************************************************************************)
EXTENDS DataSpaceItems

VARIABLES
    collections,    \* revision and schema of each collection, or Absent
    records,        \* the current item of each record, or Absent
    published       \* the public item of each record, or Absent

vars == <<collections, records, published>>

CollectionsThere == {c \in Collections : collections[c] # Absent}

RecordsOf(c) == {r \in Records : records[c, r] # Absent}

Init ==
    /\ collections = [c \in Collections |-> Absent]
    /\ records = [id \in RecordIds |-> Absent]
    /\ published = [id \in RecordIds |-> Absent]

CreateCollection(request, policy) ==
    LET c == request.collection IN
    /\ collections[c] = Absent
    /\ Cardinality(CollectionsThere) < policy.maxCollections
    /\ ValidSchema(request.schema, policy.maxFields, policy.allowed)
    /\ collections' = [collections EXCEPT ![c] = [revision |-> 1, schema |-> request.schema]]
    /\ UNCHANGED <<records, published>>

\* Once the collection has records its fields may only be added to.
UpdateCollection(request, policy) ==
    LET c == request.collection IN
    /\ collections[c] # Absent
    /\ collections[c].revision = request.expected
    /\ ValidSchema(request.schema, policy.maxFields, policy.allowed)
    /\ RecordsOf(c) # {} => Preserves(collections[c].schema, request.schema)
    /\ collections' = [collections EXCEPT ![c] = [revision |-> request.expected + 1,
                                                   schema   |-> request.schema]]
    /\ UNCHANGED <<records, published>>

CreateRecord(request, policy) ==
    LET c == request.collection IN
    /\ collections[c] # Absent
    /\ records[Id(request)] = Absent
    /\ Cardinality(RecordsOf(c)) < policy.maxRecords
    /\ ValidRecord(collections[c].schema, request.data, policy.maxBytes)
    /\ records' = [records EXCEPT ![Id(request)] =
                     [revision |-> 1, schemaRevision |-> collections[c].revision,
                      status |-> "draft", publishedRevision |-> 0,
                      data |-> request.data]]
    /\ UNCHANGED <<collections, published>>

\* A draft edit of a published record leaves the public item as it is.
UpdateRecord(request, policy) ==
    LET c == request.collection IN
    /\ collections[c] # Absent
    /\ records[Id(request)] # Absent
    /\ records[Id(request)].revision = request.expected
    /\ ValidRecord(collections[c].schema, request.data, policy.maxBytes)
    /\ records' = [records EXCEPT ![Id(request)].revision = request.expected + 1,
                                  ![Id(request)].schemaRevision = collections[c].revision,
                                  ![Id(request)].data = request.data]
    /\ UNCHANGED <<collections, published>>

Publish(request) ==
    LET c    == request.collection
        data == records[Id(request)].data
        next == request.expected + 1
    IN  /\ collections[c] # Absent
        /\ records[Id(request)] # Absent
        /\ records[Id(request)].revision = request.expected
        /\ Conforms(collections[c].schema, data)
        /\ DOMAIN Project(collections[c].schema, data) # {}
        /\ records' = [records EXCEPT ![Id(request)].revision = next,
                                      ![Id(request)].status = "published",
                                      ![Id(request)].publishedRevision = next]
        /\ published' = [published EXCEPT ![Id(request)] =
                           [revision |-> next, sourceRevision |-> request.expected,
                            schemaRevision |-> collections[c].revision,
                            data |-> Project(collections[c].schema, data)]]
        /\ UNCHANGED collections

Unpublish(request) ==
    /\ collections[request.collection] # Absent
    /\ records[Id(request)] # Absent
    /\ records[Id(request)].revision = request.expected
    /\ records' = [records EXCEPT ![Id(request)].revision = request.expected + 1,
                                  ![Id(request)].status = "draft",
                                  ![Id(request)].publishedRevision = 0]
    /\ published' = [published EXCEPT ![Id(request)] = Absent]
    /\ UNCHANGED collections

Perform(request, policy) ==
    \/ request.action = "createCollection" /\ CreateCollection(request, policy)
    \/ request.action = "updateCollection" /\ UpdateCollection(request, policy)
    \/ request.action = "createRecord" /\ CreateRecord(request, policy)
    \/ request.action = "updateRecord" /\ UpdateRecord(request, policy)
    \/ request.action = "publishRecord" /\ Publish(request)
    \/ request.action = "unpublishRecord" /\ Unpublish(request)

Next == \E m \in Calls : Perform(m.request, m.policy)

Spec == Init /\ [][Next]_vars
=============================================================================
