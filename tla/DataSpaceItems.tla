--------------------------- MODULE DataSpaceItems ---------------------------
(***************************************************************************)
(* The vocabulary of one data space (one partition key of the table):      *)
(* the mutation requests that handlers/protected_action.py passes on, the  *)
(* policy resolved for them, and the items storage.py keeps.               *)
(***************************************************************************)
EXTENDS RecordSchema

CONSTANTS
    Collections,    \* collection ids
    Records,        \* record ids
    Keys,           \* idempotency keys
    Actors,         \* hashes of the authenticated subjects
    Calls,          \* the calls clients may make: key, request and policy
    MaxRevision,    \* bound on revisions: no request expects MaxRevision
    Absent          \* an item or attribute that is not there

\* A record is named by its collection and its own id.
RecordIds == Collections \X Records

Revisions == 1 .. MaxRevision

\* An expectedRevision whose successor is still below the bound.
ExpectedRevisions == 1 .. MaxRevision - 1

CreateCollectionRequests ==
    [action : {"createCollection"}, actor : Actors,
     collection : Collections, schema : Schemas]

UpdateCollectionRequests ==
    [action : {"updateCollection"}, actor : Actors,
     collection : Collections, schema : Schemas, expected : ExpectedRevisions]

CreateRecordRequests ==
    [action : {"createRecord"}, actor : Actors,
     collection : Collections, record : Records, data : Datas]

UpdateRecordRequests ==
    [action : {"updateRecord"}, actor : Actors,
     collection : Collections, record : Records, data : Datas,
     expected : ExpectedRevisions]

PublicationRequests ==
    [action : {"publishRecord", "unpublishRecord"}, actor : Actors,
     collection : Collections, record : Records, expected : ExpectedRevisions]

CollectionRequests == CreateCollectionRequests \cup UpdateCollectionRequests

RecordRequests ==
    CreateRecordRequests \cup UpdateRecordRequests \cup PublicationRequests

Requests == CollectionRequests \cup RecordRequests

\* The limits and allowed classifications of a space in the resolved policy.
Policies ==
    [maxCollections : Nat, maxFields : Nat, maxRecords : Nat, maxBytes : Nat,
     allowed : SUBSET Classifications]

\* The id of the record that a record request is about.
Id(request) == <<request.collection, request.record>>

\* SCHEMA#{collectionId} and SCHEMA_REV#{collectionId}#{revision}.
CollectionItem == [revision : Revisions, recordCount : Nat, schema : Schemas]
CollectionRevisionItem == [revision : Revisions, schema : Schemas]

\* RECORD#... and RECORD_REV#...; publishedRevision 0 is a missing attribute.
RecordItem ==
    [revision : Revisions, schemaRevision : Revisions,
     status : {"draft", "published"}, publishedRevision : 0 .. MaxRevision,
     data : Datas]

\* PUBLIC#{collectionId}#{recordId}.
PublicItem ==
    [revision : Revisions, sourceRevision : Revisions,
     schemaRevision : Revisions, data : Datas]

\* What a successful mutation answers and its receipt keeps.
Results ==
    [collection : Collections, revision : Revisions]
        \cup
    [collection : Collections, record : Records, revision : Revisions,
     status : {"draft", "published"}]

ASSUME FiniteIds == /\ IsFiniteSet(Collections)
                    /\ IsFiniteSet(Records)
                    /\ IsFiniteSet(Fields)

ASSUME RevisionBound == MaxRevision \in Nat \ {0}

ASSUME CallsAssumption == Calls \subseteq [key : Keys, request : Requests, policy : Policies]

\* Absent is none of the values the items and local variables may hold.
ASSUME AbsentAssumption ==
    /\ Absent \notin Nat
    /\ Absent \notin Calls
    /\ Absent \notin CollectionItem
    /\ Absent \notin CollectionRevisionItem
    /\ Absent \notin RecordItem
    /\ Absent \notin PublicItem
=============================================================================
