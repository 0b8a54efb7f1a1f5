------------------------ MODULE DataSpaceStoreProofs ------------------------
(***************************************************************************)
(* Theorems about DataSpaceStore for every set of collections, records,    *)
(* keys, calls and invocations, and every bound: types, and the inductive  *)
(* invariant (what an invocation has read is still the item if the         *)
(* revision is still the same, its checks were made on it, and the         *)
(* counters are exact).  Then the store implements the contract of         *)
(* DataSpace.tla: a transaction whose conditions hold is a mutation on the *)
(* state of that moment, although its checks were made on what was read    *)
(* before.                                                                 *)
(***************************************************************************)
EXTENDS DataSpaceStore, TLAPS, FiniteSetTheorems

-----------------------------------------------------------------------------
(* The requests.                                                           *)

\* The action of a request says which of the record sets it belongs to.
LEMMA RequestKinds ==
    ASSUME NEW r \in Requests
    PROVE  /\ r.action \in {"createCollection", "updateCollection", "createRecord",
                            "updateRecord", "publishRecord", "unpublishRecord"}
           /\ r.actor \in Actors
           /\ r.collection \in Collections
           /\ r.action = "createCollection" => r \in CreateCollectionRequests
           /\ r.action = "updateCollection" => r \in UpdateCollectionRequests
           /\ r.action = "createRecord" => r \in CreateRecordRequests
           /\ r.action = "updateRecord" => r \in UpdateRecordRequests
           /\ r.action \in Publications => r \in PublicationRequests
  BY DEF Requests, CollectionRequests, RecordRequests, CreateCollectionRequests,
         UpdateCollectionRequests, CreateRecordRequests, UpdateRecordRequests,
         PublicationRequests, Publications

\* A request that expects a revision leaves room for the next one.
LEMMA ExpectedRevision ==
    ASSUME NEW e \in ExpectedRevisions
    PROVE  e \in Revisions /\ e + 1 \in Revisions /\ e + 1 # e
  BY RevisionBound DEF ExpectedRevisions, Revisions

\* A publishedRevision is a revision, or 0 for none.
LEMMA PublishedRevisions == 0 \in 0 .. MaxRevision /\ Revisions \subseteq 0 .. MaxRevision
  BY RevisionBound DEF Revisions

LEMMA FirstRevision == 1 \in Revisions
  BY RevisionBound DEF Revisions

\* The fields of a record request.
LEMMA RecordRequestFields ==
    ASSUME NEW r \in Requests,
           r.action \notin {"createCollection", "updateCollection"}
    PROVE  /\ r.record \in Records
           /\ Id(r) \in RecordIds
           /\ r.action # "createRecord" =>
                 r.expected \in ExpectedRevisions
           /\ r.action \in {"createRecord", "updateRecord"} => r.data \in Datas
  <1>1. r \in CreateRecordRequests \cup UpdateRecordRequests \cup PublicationRequests
    BY RequestKinds DEF Publications
  <1> QED
    BY <1>1 DEF CreateRecordRequests, UpdateRecordRequests, PublicationRequests, Id, RecordIds

LEMMA CollectionRequestFields ==
    ASSUME NEW r \in Requests,
           r.action \in {"createCollection", "updateCollection"}
    PROVE  /\ r.schema \in Schemas
           /\ r.action = "updateCollection" => r.expected \in ExpectedRevisions
  BY RequestKinds DEF CreateCollectionRequests, UpdateCollectionRequests

-----------------------------------------------------------------------------
(* Schemas and records.                                                    *)

\* A projection is record data.
LEMMA ProjectionType ==
    ASSUME NEW s, NEW d \in Datas
    PROVE  Project(s, d) \in Datas
  <1>1. PICK ids \in SUBSET Fields : d \in [ids -> Values]
    BY DEF Datas
  <1>2. PublicFields(s, d) \in SUBSET Fields
    BY <1>1 DEF PublicFields
  <1>3. Project(s, d) \in [PublicFields(s, d) -> Values]
    BY <1>1 DEF Project, PublicFields
  <1> QED
    BY <1>2, <1>3 DEF Datas

-----------------------------------------------------------------------------
(* Types.  TypeOK is not inductive: what an invocation writes back is what *)
(* it has read, which has to be there (SnapshotsThere).                    *)

TypeInv == TypeOK /\ SnapshotsThere

LEMMA CallTypes ==
    ASSUME InvocationsTypeOK, NEW i \in Invocations, call[i] # Absent
    PROVE  /\ call[i] \in Calls
           /\ call[i].key \in Keys
           /\ Request(i) \in Requests
           /\ Policy(i) \in Policies
  BY CallsAssumption DEF InvocationsTypeOK, OrAbsent, Request, Policy

\* An answer clears what was read.
LEMMA AnswerTypes ==
    ASSUME InvocationsTypeOK, SnapshotsThere,
           NEW i \in Invocations, call[i] # Absent,
           NEW answer \in Replies, Answer(i, answer)
    PROVE  InvocationsTypeOK' /\ SnapshotsThere'
  <1>1. InvocationsTypeOK'
    BY DEF InvocationsTypeOK, Answer, Goto, Forget, Steps, OrAbsent
  <1>2. SnapshotsThere'
    BY DEF InvocationsTypeOK, SnapshotsThere, Answer, Goto, Forget, Request
  <1> QED
    BY <1>1, <1>2

LEMMA RefuseTypes ==
    ASSUME TypeInv, NEW i \in Invocations, call[i] # Absent,
           NEW code \in Refusals, Refuse(i, code)
    PROVE  TypeInv'
  <1>1. [status |-> code] \in Replies
    BY DEF Replies
  <1>2. InvocationsTypeOK' /\ SnapshotsThere'
    BY <1>1, AnswerTypes DEF TypeInv, TypeOK, Refuse
  <1>3. ItemsTypeOK' /\ JournalTypeOK'
    BY DEF TypeInv, TypeOK, Refuse, ItemsTypeOK, JournalTypeOK, table, items
  <1> QED
    BY <1>2, <1>3 DEF TypeInv, TypeOK

\* A receipt, an audit entry and an answer end every transaction.
LEMMA SettleTypes ==
    ASSUME TypeInv, NEW i \in Invocations, call[i] # Absent,
           NEW result \in Results, Settle(i, result)
    PROVE  JournalTypeOK' /\ InvocationsTypeOK' /\ SnapshotsThere'
  <1> USE DEF TypeInv, TypeOK
  <1>1. /\ call[i].key \in Keys
        /\ Request(i) \in Requests
        /\ Request(i).actor \in Actors
    BY CallTypes, RequestKinds
  <1>2. since[i] \in Nat /\ Expiry(i) \in Nat
    BY TimesAssumption DEF InvocationsTypeOK, Expiry
  <1>3. receipt' \in [Keys -> OrAbsent(Receipts)]
    BY <1>1, <1>2 DEF Settle, JournalTypeOK, OrAbsent, Receipts
  <1>4. AuditEntry(i) \in AuditItems
    BY <1>1, <1>2 DEF AuditEntry, AuditItems
  <1>5. audit' \subseteq AuditItems
    BY <1>4 DEF Settle, PutAudit, JournalTypeOK
  <1>6. applied' \subseteq Mutations
    BY <1>1, <1>2 DEF Settle, Mutations, JournalTypeOK
  <1>7. JournalTypeOK'
    BY <1>3, <1>5, <1>6 DEF JournalTypeOK, Settle
  <1>8. /\ [status |-> "ok", result |-> result] \in Replies
        /\ [status |-> "internal_error"] \in Replies
    BY DEF Replies, Refusals
  <1>9. InvocationsTypeOK' /\ SnapshotsThere'
    BY <1>8, AnswerTypes DEF Settle
  <1> QED
    BY <1>7, <1>9

\* What is put in a revision's place is the item itself.
LEMMA PutRecordTypes ==
    ASSUME TypeInv, NEW i \in Invocations, Id(Request(i)) \in RecordIds,
           NEW item \in RecordItem, PutRecord(i, item)
    PROVE  /\ record' \in [RecordIds -> OrAbsent(RecordItem)]
           /\ recordRev' \in [RecordIds -> [Revisions -> OrAbsent(RecordItem)]]
  <1>1. item.revision \in Revisions
    BY DEF RecordItem
  <1> QED
    BY <1>1 DEF TypeInv, TypeOK, ItemsTypeOK, PutRecord, OrAbsent

LEMMA PutSchemaTypes ==
    ASSUME TypeInv, NEW i \in Invocations, Request(i).collection \in Collections,
           NEW item \in CollectionItem, PutSchema(i, item)
    PROVE  /\ schema' \in [Collections -> OrAbsent(CollectionItem)]
           /\ schemaRev' \in [Collections -> [Revisions -> OrAbsent(CollectionRevisionItem)]]
  <1>1. /\ item.revision \in Revisions
        /\ [revision |-> item.revision, schema |-> item.schema] \in CollectionRevisionItem
    BY DEF CollectionItem, CollectionRevisionItem
  <1> QED
    BY <1>1 DEF TypeInv, TypeOK, ItemsTypeOK, PutSchema, OrAbsent

\* Before its transaction an invocation only moves on and remembers.
LEMMA ReadTypes ==
    ASSUME TypeInv, NEW i \in Invocations,
           \/ Begin(i) \/ Return(i) \/ Replay(i) \/ RefuseKeyReuse(i)
           \/ RefuseSchema(i) \/ Proceed(i) \/ NotFound(i)
           \/ CreateCollectionRead(i) \/ UpdateCollectionRead(i) \/ CreateRecordRead(i)
           \/ UpdateRecordReadSchema(i) \/ UpdateRecordReadRecord(i)
           \/ PublicationReadRecord(i) \/ PublicationReadSchema(i)
           \/ ConditionFailed(i) \/ BackendError(i) \/ Crash(i)
    PROVE  TypeInv'
  <1> USE DEF TypeInv, TypeOK
  <1> DEFINE Untouched == UNCHANGED <<table, clock, applied>>
  <1>a. Untouched => ItemsTypeOK' /\ JournalTypeOK'
    BY DEF table, items, ItemsTypeOK, JournalTypeOK
  <1>b. /\ pc[i] # "idle" => call[i] # Absent
        /\ call[i] # Absent => Request(i) \in Requests
    BY CallTypes DEF SnapshotsThere
  <1>c. ASSUME NEW code \in Refusals, pc[i] # "idle", Refuse(i, code)
        PROVE  TypeInv'
    BY <1>b, <1>c, RefuseTypes
  <1>d. {"conflict", "not_found", "validation_error", "internal_error"} \subseteq Refusals
    BY DEF Refusals
  <1>1. CASE Begin(i)
    <2>1. InvocationsTypeOK'
      BY <1>1, AbsentAssumption
      DEF Begin, Goto, InvocationsTypeOK, JournalTypeOK, OrAbsent, Steps, snapshots
    <2>2. SnapshotsThere'
      BY <1>1, AbsentAssumption
      DEF Begin, Goto, InvocationsTypeOK, SnapshotsThere, Request, snapshots
    <2> QED
      BY <1>1, <1>a, <2>1, <2>2 DEF Begin
  <1>2. CASE Return(i)
    <2>1. InvocationsTypeOK'
      BY <1>2 DEF Return, Goto, InvocationsTypeOK, OrAbsent, Steps, snapshots
    <2>2. SnapshotsThere'
      BY <1>2 DEF Return, Goto, InvocationsTypeOK, SnapshotsThere, Request, snapshots
    <2> QED
      BY <1>2, <1>a, <2>1, <2>2 DEF Return
  <1>3. CASE Crash(i)
    <2>1. InvocationsTypeOK'
      BY <1>3 DEF Crash, Goto, Forget, InvocationsTypeOK, OrAbsent, Steps
    <2>2. SnapshotsThere'
      BY <1>3 DEF Crash, Goto, Forget, InvocationsTypeOK, SnapshotsThere, Request
    <2> QED
      BY <1>3, <1>a, <2>1, <2>2 DEF Crash
  <1>4. CASE Replay(i)
    <2>1. receipt[call[i].key] \in Receipts
      BY <1>4, <1>b, CallTypes
      DEF Replay, At, IsReplay, Existing, JournalTypeOK, OrAbsent
    <2>2. [status |-> "ok", result |-> Existing(i).result] \in Replies
      BY <2>1 DEF Replies, Receipts, Existing
    <2> QED
      BY <1>4, <1>a, <1>b, <2>2, AnswerTypes DEF Replay, At
  <1>5. CASE Proceed(i)
    <2>1. FirstRead(Request(i).action) \in {"space", "schema", "record"}
      BY DEF FirstRead
    <2>2. /\ FirstRead(Request(i).action) = "record" => Request(i).action # "updateRecord"
          /\ FirstRead(Request(i).action) = "schema" =>
                Request(i).action \notin Publications
      BY <1>5, <1>b, RequestKinds DEF Proceed, At, FirstRead, Publications
    <2>3. InvocationsTypeOK'
      BY <1>5, <2>1 DEF Proceed, Continue, Goto, InvocationsTypeOK, Steps, snapshots
    <2>4. SnapshotsThere'
      BY <1>5, <2>1, <2>2
      DEF Proceed, At, Continue, Goto, InvocationsTypeOK, SnapshotsThere, Request, snapshots
    <2> QED
      BY <1>5, <1>a, <2>3, <2>4 DEF Proceed, Continue
  <1>6. CASE RefuseKeyReuse(i) \/ RefuseSchema(i) \/ NotFound(i) \/ ConditionFailed(i)
              \/ BackendError(i)
    BY <1>6, <1>c, <1>d
    DEF RefuseKeyReuse, RefuseSchema, NotFound, ConditionFailed, BackendError, At, Running
  <1>e. ASSUME NEW step \in {"schema", "record", "transact"}, Continue(i, step),
               pc[i] # "idle",
               \/ RememberSpace(i)
               \/ RememberSchema(i)
               \/ RememberRecord(i) /\ Id(Request(i)) \in RecordIds
        PROVE  ItemsTypeOK' /\ JournalTypeOK' /\ InvocationsTypeOK'
    <2>1. /\ SchemaNow(i) \in OrAbsent(CollectionItem)
          /\ Id(Request(i)) \in RecordIds => RecordNow(i) \in OrAbsent(RecordItem)
      BY <1>b, <1>e, RequestKinds DEF SchemaNow, RecordNow, ItemsTypeOK
    <2>2. InvocationsTypeOK'
      BY <1>e, <2>1
      DEF Continue, Goto, RememberSpace, RememberSchema, RememberRecord, InvocationsTypeOK,
          ItemsTypeOK, Steps
    <2> QED
      BY <1>a, <1>e, <2>2 DEF Continue
  <1>7. CASE CreateCollectionRead(i)
    <2>1. CASE Refuse(i, "validation_error")
      BY <1>7, <1>c, <1>d, <2>1 DEF CreateCollectionRead, Reads, At
    <2>2. CASE RememberSpace(i) /\ Continue(i, "transact")
      <3>1. SnapshotsThere'
        BY <1>7, <2>2
        DEF CreateCollectionRead, Reads, At, Continue, Goto, RememberSpace, SnapshotsThere,
            InvocationsTypeOK, Request, Publications
      <3> QED
        BY <1>7, <1>e, <2>2, <3>1 DEF CreateCollectionRead, Reads, At
    <2> QED
      BY <1>7, <2>1, <2>2 DEF CreateCollectionRead
  <1>8. CASE UpdateCollectionRead(i) \/ CreateRecordRead(i)
    <2>1. CASE Refuse(i, "conflict") \/ Refuse(i, "validation_error")
      BY <1>8, <1>c, <1>d, <2>1 DEF UpdateCollectionRead, CreateRecordRead, Reads, At
    <2>2. CASE RememberSchema(i) /\ Continue(i, "transact")
      <3>1. SnapshotsThere'
        BY <1>8, <2>2
        DEF UpdateCollectionRead, CreateRecordRead, Reads, At, Continue, Goto,
            RememberSchema, SnapshotsThere, InvocationsTypeOK, Request, Publications, SchemaNow
      <3> QED
        BY <1>8, <1>e, <2>2, <3>1 DEF UpdateCollectionRead, CreateRecordRead, Reads, At
    <2> QED
      BY <1>8, <2>1, <2>2 DEF UpdateCollectionRead, CreateRecordRead
  <1>9. CASE UpdateRecordReadSchema(i)
    <2>1. SnapshotsThere'
      BY <1>9
      DEF UpdateRecordReadSchema, Reads, At, Continue, Goto, RememberSchema, SnapshotsThere,
          InvocationsTypeOK, Request, Publications, SchemaNow
    <2> QED
      BY <1>9, <1>e, <2>1 DEF UpdateRecordReadSchema, Reads, At
  <1>10. CASE UpdateRecordReadRecord(i)
    <2>1. Id(Request(i)) \in RecordIds
      BY <1>10, <1>b, RecordRequestFields DEF UpdateRecordReadRecord, Reads, At
    <2>2. CASE Refuse(i, "conflict") \/ Refuse(i, "validation_error")
      BY <1>10, <1>c, <1>d, <2>2 DEF UpdateRecordReadRecord, Reads, At
    <2>3. CASE RememberRecord(i) /\ Continue(i, "transact")
      <3>1. SnapshotsThere'
        BY <1>10, <2>3
        DEF UpdateRecordReadRecord, Reads, At, Continue, Goto, RememberRecord,
            SnapshotsThere, InvocationsTypeOK, Request, Publications, RecordNow
      <3> QED
        BY <1>10, <1>e, <2>1, <2>3, <3>1 DEF UpdateRecordReadRecord, Reads, At
    <2> QED
      BY <1>10, <2>2, <2>3 DEF UpdateRecordReadRecord
  <1>11. CASE PublicationReadRecord(i)
    <2>1. Id(Request(i)) \in RecordIds
      BY <1>11, <1>b, RecordRequestFields DEF PublicationReadRecord, Reads, At, Publications
    <2>2. SnapshotsThere'
      BY <1>11
      DEF PublicationReadRecord, Reads, At, Continue, Goto, RememberRecord, SnapshotsThere,
          InvocationsTypeOK, Request, Publications, RecordNow
    <2> QED
      BY <1>11, <1>e, <2>1, <2>2 DEF PublicationReadRecord, Reads, At
  <1>12. CASE PublicationReadSchema(i)
    <2>1. CASE Refuse(i, "conflict") \/ Refuse(i, "validation_error")
      BY <1>12, <1>c, <1>d, <2>1 DEF PublicationReadSchema, Reads, At
    <2>2. CASE RememberSchema(i) /\ Continue(i, "transact")
      <3>1. SnapshotsThere'
        BY <1>12, <2>2
        DEF PublicationReadSchema, Reads, At, Continue, Goto, RememberSchema,
            SnapshotsThere, InvocationsTypeOK, Request, Publications, SchemaNow
      <3> QED
        BY <1>12, <1>e, <2>2, <3>1 DEF PublicationReadSchema, Reads, At
    <2> QED
      BY <1>12, <2>1, <2>2 DEF PublicationReadSchema
  <1> QED
    BY <1>1, <1>2, <1>3, <1>4, <1>5, <1>6, <1>7, <1>8, <1>9, <1>10, <1>11, <1>12

\* A transaction writes well-typed items.
LEMMA TransactionTypes ==
    ASSUME TypeInv, NEW i \in Invocations,
           \/ CreateCollection(i) \/ UpdateCollection(i) \/ CreateRecord(i)
           \/ UpdateRecord(i) \/ Publish(i) \/ Unpublish(i)
    PROVE  TypeInv'
  <1> USE DEF TypeInv, TypeOK
  <1>a. /\ pc[i] = "transact"
        /\ call[i] # Absent
        /\ Request(i) \in Requests
        /\ Request(i).collection \in Collections
    <2>1. pc[i] = "transact"
      BY DEF CreateCollection, UpdateCollection, CreateRecord, UpdateRecord, Publish,
             Unpublish, Transacts, At
    <2> QED
      BY <2>1, CallTypes, RequestKinds DEF SnapshotsThere
  <1>b. ASSUME NEW result \in Results, Settle(i, result), ItemsTypeOK'
        PROVE  TypeInv'
    BY <1>a, <1>b, SettleTypes
  <1>1. CASE CreateCollection(i)
    <2>1. [revision |-> 1, recordCount |-> 0, schema |-> Request(i).schema] \in CollectionItem
      BY <1>1, <1>a, CollectionRequestFields, FirstRevision
      DEF CreateCollection, Transacts, CollectionItem
    <2>2. space' \in Nat
      BY <1>1 DEF CreateCollection, CollectionCount, InvocationsTypeOK, OrAbsent
    <2>3. CollectionResult(i, 1) \in Results
      BY <1>a, FirstRevision DEF CollectionResult, Results
    <2>4. ItemsTypeOK'
      BY <1>1, <1>a, <2>1, <2>2, PutSchemaTypes DEF CreateCollection, ItemsTypeOK, OrAbsent
    <2> QED
      BY <1>1, <1>b, <2>3, <2>4 DEF CreateCollection
  <1>2. CASE UpdateCollection(i)
    <2>1. /\ Request(i).schema \in Schemas
          /\ NextRevision(i) \in Revisions
      BY <1>2, <1>a, CollectionRequestFields, ExpectedRevision
      DEF UpdateCollection, Transacts, NextRevision
    <2>2. seenSchema[i] \in CollectionItem
      BY <1>2, <1>a DEF UpdateCollection, Transacts, SnapshotsThere, InvocationsTypeOK, OrAbsent
    <2>3. [seenSchema[i] EXCEPT !.revision = NextRevision(i), !.schema = Request(i).schema]
             \in CollectionItem
      BY <2>1, <2>2 DEF CollectionItem
    <2>4. CollectionResult(i, NextRevision(i)) \in Results
      BY <1>a, <2>1 DEF CollectionResult, Results
    <2>5. ItemsTypeOK'
      BY <1>2, <1>a, <2>3, PutSchemaTypes DEF UpdateCollection, ItemsTypeOK
    <2> QED
      BY <1>2, <1>b, <2>4, <2>5 DEF UpdateCollection
  <1>3. CASE CreateRecord(i)
    <2>1. /\ Request(i).data \in Datas /\ Request(i).record \in Records
          /\ Id(Request(i)) \in RecordIds
      BY <1>3, <1>a, RecordRequestFields DEF CreateRecord, Transacts
    <2>2. seenSchema[i] \in CollectionItem
      BY <1>3, <1>a DEF CreateRecord, Transacts, SnapshotsThere, InvocationsTypeOK, OrAbsent
    <2>3. NewRecord(i) \in RecordItem
      BY <2>1, <2>2, FirstRevision, RevisionBound DEF NewRecord, RecordItem, CollectionItem
    <2>4. [seenSchema[i] EXCEPT !.recordCount = seenSchema[i].recordCount + 1] \in CollectionItem
      BY <2>2 DEF CollectionItem
    <2>5. schema' \in [Collections -> OrAbsent(CollectionItem)]
      BY <1>3, <1>a, <2>4 DEF CreateRecord, ItemsTypeOK, OrAbsent
    <2>6. RecordResult(i, NewRecord(i)) \in Results
      BY <1>a, <2>1, <2>3 DEF RecordResult, Results, RecordItem
    <2>7. ItemsTypeOK'
      BY <1>3, <2>1, <2>3, <2>5, PutRecordTypes DEF CreateRecord, ItemsTypeOK
    <2> QED
      BY <1>3, <1>b, <2>6, <2>7 DEF CreateRecord
  <1>c. ASSUME Request(i).action \in {"updateRecord"} \cup Publications
        PROVE  /\ Request(i).record \in Records /\ Id(Request(i)) \in RecordIds
               /\ Request(i).expected \in Revisions /\ NextRevision(i) \in Revisions
               /\ seenSchema[i] \in CollectionItem
               /\ seenRecord[i] \in RecordItem
    BY <1>a, <1>c, RecordRequestFields, ExpectedRevision
    DEF NextRevision, Publications, SnapshotsThere, InvocationsTypeOK, OrAbsent
  <1>4. CASE UpdateRecord(i)
    <2>1. Request(i).action = "updateRecord" /\ Request(i).data \in Datas
      BY <1>4, <1>a, RecordRequestFields DEF UpdateRecord, Transacts
    <2>2. EditedRecord(i) \in RecordItem
      BY <1>c, <2>1 DEF EditedRecord, RecordItem, CollectionItem
    <2>3. RecordResult(i, EditedRecord(i)) \in Results
      BY <1>a, <1>c, <2>1, <2>2 DEF RecordResult, Results, RecordItem
    <2>4. ItemsTypeOK'
      BY <1>4, <1>c, <2>1, <2>2, PutRecordTypes DEF UpdateRecord, ItemsTypeOK
    <2> QED
      BY <1>4, <1>b, <2>3, <2>4 DEF UpdateRecord
  <1>5. CASE Publish(i)
    <2>1. Request(i).action \in Publications
      BY <1>5 DEF Publish, Transacts, Publications
    <2>2. PublishedRecord(i) \in RecordItem
      <3>1. NextRevision(i) \in Revisions /\ NextRevision(i) \in 0 .. MaxRevision
        BY <1>c, <2>1, PublishedRevisions
      <3> QED
        BY <1>c, <2>1, <3>1 DEF PublishedRecord, RecordItem
    <2>3. PublicEntry(i) \in PublicItem
      <3>1. Projection(i, seenSchema[i]) \in Datas
        BY <1>c, <2>1, ProjectionType DEF Projection, RecordItem
      <3> QED
        BY <1>c, <2>1, <3>1 DEF PublicEntry, PublicItem, CollectionItem
    <2>4. RecordResult(i, PublishedRecord(i)) \in Results
      BY <1>a, <1>c, <2>1, <2>2 DEF RecordResult, Results, RecordItem
    <2>5. ItemsTypeOK'
      BY <1>5, <1>c, <2>1, <2>2, <2>3, PutRecordTypes DEF Publish, ItemsTypeOK, OrAbsent
    <2> QED
      BY <1>5, <1>b, <2>4, <2>5 DEF Publish
  <1>6. CASE Unpublish(i)
    <2>1. Request(i).action \in Publications
      BY <1>6 DEF Unpublish, Transacts, Publications
    <2>2. UnpublishedRecord(i) \in RecordItem
      BY <1>c, <2>1, PublishedRevisions DEF UnpublishedRecord, RecordItem
    <2>3. RecordResult(i, UnpublishedRecord(i)) \in Results
      BY <1>a, <1>c, <2>1, <2>2 DEF RecordResult, Results, RecordItem
    <2>4. ItemsTypeOK'
      BY <1>6, <1>c, <2>1, <2>2, PutRecordTypes
      DEF Unpublish, Withdrawn, ItemsTypeOK, OrAbsent
    <2> QED
      BY <1>6, <1>b, <2>3, <2>4 DEF Unpublish
  <1> QED
    BY <1>1, <1>2, <1>3, <1>4, <1>5, <1>6

LEMMA TypeInit == Init => TypeInv
  BY DEF Init, TypeInv, TypeOK, ItemsTypeOK, JournalTypeOK, InvocationsTypeOK,
         SnapshotsThere, OrAbsent, Steps

LEMMA TypeStep == TypeInv /\ [Next]_vars => TypeInv'
  <1> SUFFICES ASSUME TypeInv, [Next]_vars PROVE TypeInv'
    OBVIOUS
  <1>1. ASSUME NEW i \in Invocations, Invoke(i) PROVE TypeInv'
    BY <1>1, ReadTypes, TransactionTypes DEF Invoke
  <1>2. CASE Tick
    BY <1>2
    DEF Tick, TypeInv, TypeOK, ItemsTypeOK, JournalTypeOK, InvocationsTypeOK,
        SnapshotsThere, Request, table, items, local, snapshots
  <1>3. ASSUME NEW k \in Keys, ExpireReceipt(k) PROVE TypeInv'
    BY <1>3
    DEF ExpireReceipt, TypeInv, TypeOK, ItemsTypeOK, JournalTypeOK, InvocationsTypeOK,
        SnapshotsThere, Request, items, local, snapshots, OrAbsent
  <1>4. CASE UNCHANGED vars
    BY <1>4
    DEF vars, TypeInv, TypeOK, ItemsTypeOK, JournalTypeOK, InvocationsTypeOK,
        SnapshotsThere, Request, table, items, local, snapshots
  <1> QED
    BY <1>1, <1>2, <1>3, <1>4 DEF Next

\* Every variable and every item of the store has its type, whatever the
\* interleaving of invocations, failures and expiries.
THEOREM TypeCorrect == Spec => []TypeOK
  BY TypeInit, TypeStep, PTL DEF Spec, TypeInv

-----------------------------------------------------------------------------
(* A step of one invocation leaves the locals of the others alone.         *)

LocalsKept(j) ==
    /\ pc'[j] = pc[j] /\ call'[j] = call[j]
    /\ seenSpace'[j] = seenSpace[j]
    /\ seenSchema'[j] = seenSchema[j]
    /\ seenRecord'[j] = seenRecord[j]

LEMMA AnswerIsLocal ==
    ASSUME InvocationsTypeOK, NEW i \in Invocations, NEW answer, Answer(i, answer)
    PROVE  /\ \A j \in Invocations \ {i} : LocalsKept(j)
           /\ pc'[i] = "done" /\ seenSchema'[i] = Absent /\ seenRecord'[i] = Absent
  BY DEF InvocationsTypeOK, Answer, Goto, Forget, LocalsKept

LEMMA ContinueIsLocal ==
    ASSUME InvocationsTypeOK, NEW i \in Invocations, NEW step, Continue(i, step),
           \/ RememberSpace(i) \/ RememberSchema(i) \/ RememberRecord(i)
           \/ UNCHANGED snapshots
    PROVE  /\ \A j \in Invocations \ {i} : LocalsKept(j)
           /\ pc'[i] = step /\ call'[i] = call[i]
           /\ seenSchema'[i] \in {seenSchema[i], SchemaNow(i)}
           /\ \/ seenRecord'[i] = seenRecord[i]
              \/ RememberRecord(i) /\ seenRecord'[i] = RecordNow(i)
           /\ UNCHANGED items
  BY DEF InvocationsTypeOK, Continue, Goto, RememberSpace, RememberSchema, RememberRecord,
         LocalsKept, snapshots, table, items

Transaction(i) ==
    \/ CreateCollection(i) \/ UpdateCollection(i) \/ CreateRecord(i)
    \/ UpdateRecord(i) \/ Publish(i) \/ Unpublish(i)

LEMMA TransactionIsLocal ==
    ASSUME TypeInv, NEW i \in Invocations, Transaction(i)
    PROVE  /\ \A j \in Invocations \ {i} : LocalsKept(j)
           /\ pc'[i] = "done" /\ seenSchema'[i] = Absent /\ seenRecord'[i] = Absent
  <1>1. PICK answer : Answer(i, answer)
    BY DEF Transaction, CreateCollection, UpdateCollection, CreateRecord, UpdateRecord,
           Publish, Unpublish, Settle
  <1> QED
    BY <1>1, AnswerIsLocal DEF TypeInv, TypeOK

\* Every step before the transaction: the invocation gives up what it read,
\* or keeps it, or reads the item that is there, and changes no item.
LEMMA ReadIsLocal ==
    ASSUME TypeInv, SnapshotsTrue, NEW i \in Invocations, Invoke(i), ~Transaction(i)
    PROVE  /\ \A j \in Invocations \ {i} : LocalsKept(j)
           /\ UNCHANGED items
           /\ pc'[i] \in {"idle", "done"} => seenSchema'[i] = Absent /\ seenRecord'[i] = Absent
           /\ \/ seenSchema'[i] = Absent
              \/ call'[i] = call[i] /\ seenSchema'[i] \in {seenSchema[i], SchemaNow(i)}
           /\ \/ seenRecord'[i] = Absent
              \/ call'[i] = call[i] /\ seenRecord'[i] = seenRecord[i]
              \/ /\ call'[i] = call[i] /\ seenRecord'[i] = RecordNow(i)
                 /\ Request(i).action \in {"updateRecord"} \cup Publications
  <1> USE DEF TypeInv, TypeOK
  <1>a. ASSUME NEW code, Refuse(i, code)
        PROVE  /\ \A j \in Invocations \ {i} : LocalsKept(j)
               /\ UNCHANGED items
               /\ seenSchema'[i] = Absent /\ seenRecord'[i] = Absent
    BY <1>a, AnswerIsLocal DEF Refuse, table, items
  <1>b. ASSUME NEW step \in {"space", "schema", "record", "transact"}, Continue(i, step),
               \/ RememberSpace(i) \/ RememberSchema(i) \/ RememberRecord(i)
               \/ UNCHANGED snapshots
        PROVE  /\ \A j \in Invocations \ {i} : LocalsKept(j)
               /\ UNCHANGED items
               /\ pc'[i] \notin {"idle", "done"}
               /\ call'[i] = call[i] /\ seenSchema'[i] \in {seenSchema[i], SchemaNow(i)}
               /\ \/ seenRecord'[i] = seenRecord[i]
                  \/ RememberRecord(i) /\ seenRecord'[i] = RecordNow(i)
    BY <1>b, ContinueIsLocal
  <1>1. CASE Begin(i)
    BY <1>1 DEF Begin, At, Goto, LocalsKept, InvocationsTypeOK, SnapshotsTrue, SnapshotTrue, snapshots, table
  <1>2. CASE Return(i)
    BY <1>2 DEF Return, At, Goto, LocalsKept, InvocationsTypeOK, SnapshotsTrue, SnapshotTrue, snapshots, table
  <1>3. CASE Crash(i)
    BY <1>3 DEF Crash, Goto, Forget, LocalsKept, InvocationsTypeOK, table
  <1>4. CASE Replay(i)
    BY <1>4, AnswerIsLocal DEF Replay, table
  <1>5. CASE Proceed(i)
    <2>1. FirstRead(Request(i).action) \in {"space", "schema", "record"}
      BY DEF FirstRead
    <2> QED
      BY <1>5, <1>b, <2>1 DEF Proceed, snapshots
  <1>6. CASE RefuseKeyReuse(i) \/ RefuseSchema(i) \/ NotFound(i) \/ ConditionFailed(i)
              \/ BackendError(i)
    BY <1>6, <1>a DEF RefuseKeyReuse, RefuseSchema, NotFound, ConditionFailed, BackendError
  <1>7. CASE CreateCollectionRead(i)
    BY <1>7, <1>a, <1>b DEF CreateCollectionRead, RememberSpace
  <1>8. CASE UpdateCollectionRead(i)
    BY <1>8, <1>a, <1>b DEF UpdateCollectionRead, RememberSchema
  <1>9. CASE CreateRecordRead(i)
    BY <1>9, <1>a, <1>b DEF CreateRecordRead, RememberSchema
  <1>10. CASE UpdateRecordReadSchema(i)
    BY <1>10, <1>b DEF UpdateRecordReadSchema, RememberSchema
  <1>11. CASE UpdateRecordReadRecord(i)
    BY <1>11, <1>a, <1>b DEF UpdateRecordReadRecord, Reads
  <1>12. CASE PublicationReadRecord(i)
    BY <1>12, <1>b DEF PublicationReadRecord, Reads
  <1>13. CASE PublicationReadSchema(i)
    BY <1>13, <1>a, <1>b DEF PublicationReadSchema, RememberSchema
  <1> QED
    BY <1>1, <1>2, <1>3, <1>4, <1>5, <1>6, <1>7, <1>8, <1>9, <1>10, <1>11, <1>12, <1>13
    DEF Invoke, Transaction

-----------------------------------------------------------------------------
(* Items never go back: the order of revisions is the order of contents.   *)

SchemaGrows(c) ==
    schema[c] # Absent =>
        /\ schema'[c] # Absent
        /\ schema[c].revision <= schema'[c].revision
        /\ schema[c].revision = schema'[c].revision => schema[c].schema = schema'[c].schema

RecordGrows(id) ==
    record[id] # Absent =>
        /\ record'[id] # Absent
        /\ record[id].revision <= record'[id].revision
        /\ record[id].revision = record'[id].revision => record[id] = record'[id]

\* What holds of an invocation whose transaction is applied.
LEMMA TransactionFacts ==
    ASSUME TypeInv, NEW i \in Invocations, Transaction(i)
    PROVE  /\ pc[i] = "transact" /\ Conditions(i)
           /\ call[i] \in Calls /\ Request(i) \in Requests
           /\ Request(i).collection \in Collections
           /\ Request(i).action # "createCollection" => seenSchema[i] \in CollectionItem
           /\ Request(i).action \in {"updateRecord"} \cup Publications =>
                 seenRecord[i] \in RecordItem
  <1>1. pc[i] = "transact" /\ Conditions(i)
    BY DEF Transaction, CreateCollection, UpdateCollection, CreateRecord, UpdateRecord,
           Publish, Unpublish, Transacts, At
  <1>2. call[i] # Absent
    BY <1>1 DEF TypeInv, SnapshotsThere
  <1>3. /\ call[i] \in Calls /\ Request(i) \in Requests
        /\ Request(i).collection \in Collections
    BY <1>2, CallTypes, RequestKinds DEF TypeInv, TypeOK
  <1> QED
    BY <1>1, <1>3 DEF TypeInv, TypeOK, SnapshotsThere, InvocationsTypeOK, OrAbsent, Publications

\* What is there has a revision.
LEMMA ItemRevisions ==
    ASSUME ItemsTypeOK
    PROVE  /\ \A c \in Collections :
                 schema[c] # Absent => schema[c] \in CollectionItem /\ schema[c].revision \in Nat
           /\ \A id \in RecordIds :
                 record[id] # Absent => record[id] \in RecordItem /\ record[id].revision \in Nat
  BY RevisionBound DEF ItemsTypeOK, OrAbsent, CollectionItem, RecordItem, Revisions

\* The three mutations of a record put an item at the next revision.
LEMMA EditTypes ==
    ASSUME TypeInv, NEW i \in Invocations, UpdateRecord(i) \/ Publish(i) \/ Unpublish(i)
    PROVE  /\ \E item \in RecordItem : PutRecord(i, item) /\ item.revision = NextRevision(i)
           /\ UpdateRecord(i) => EditedRecord(i) \in RecordItem
           /\ Publish(i) => PublishedRecord(i) \in RecordItem
           /\ Unpublish(i) => UnpublishedRecord(i) \in RecordItem
           /\ Id(Request(i)) \in RecordIds /\ Request(i).expected \in Nat
           /\ RecordNow(i) # Absent /\ RecordNow(i).revision = Request(i).expected
           /\ SchemaNow(i) # Absent /\ SchemaNow(i).revision = seenSchema[i].revision
  <1>1. Request(i).action \in {"updateRecord"} \cup Publications
    BY DEF UpdateRecord, Publish, Unpublish, Transacts, Publications
  <1>2. /\ Conditions(i) /\ Request(i) \in Requests
        /\ seenSchema[i] \in CollectionItem /\ seenRecord[i] \in RecordItem
    BY <1>1, TransactionFacts DEF Transaction, Publications
  <1>3. /\ RecordNow(i) # Absent /\ RecordNow(i).revision = Request(i).expected
        /\ SchemaNow(i) # Absent /\ SchemaNow(i).revision = seenSchema[i].revision
    BY <1>1, <1>2
    DEF Conditions, RevisionConditions, RecordUnchanged, SchemaUnchanged, CollectionUnchanged
  <1>4. /\ Id(Request(i)) \in RecordIds
        /\ Request(i).expected \in ExpectedRevisions
    BY <1>1, <1>2, RecordRequestFields DEF Publications
  <1>5. /\ Request(i).expected \in Nat
        /\ NextRevision(i) \in Revisions /\ NextRevision(i) \in 0 .. MaxRevision
        /\ 0 \in 0 .. MaxRevision
    BY <1>4, ExpectedRevision, PublishedRevisions, RevisionBound
    DEF ExpectedRevisions, NextRevision
  <1>6. CASE UpdateRecord(i)
    <2>1. Request(i).data \in Datas
      BY <1>2, <1>6, RecordRequestFields DEF UpdateRecord, Transacts
    <2>2. EditedRecord(i) \in RecordItem /\ EditedRecord(i).revision = NextRevision(i)
      BY <1>2, <1>5, <2>1 DEF EditedRecord, RecordItem, CollectionItem
    <2> QED
      BY <1>3, <1>4, <1>5, <1>6, <2>2 DEF UpdateRecord, Publish, Unpublish, Transacts
  <1>7. CASE Publish(i)
    <2>1. PublishedRecord(i) \in RecordItem /\ PublishedRecord(i).revision = NextRevision(i)
      BY <1>2, <1>5 DEF PublishedRecord, RecordItem
    <2> QED
      BY <1>3, <1>4, <1>5, <1>7, <2>1 DEF UpdateRecord, Publish, Unpublish, Transacts
  <1>8. CASE Unpublish(i)
    <2>1. UnpublishedRecord(i) \in RecordItem /\ UnpublishedRecord(i).revision = NextRevision(i)
      BY <1>2, <1>5 DEF UnpublishedRecord, RecordItem
    <2> QED
      BY <1>3, <1>4, <1>5, <1>8, <2>1 DEF UpdateRecord, Publish, Unpublish, Transacts
  <1> QED
    BY <1>6, <1>7, <1>8

LEMMA ItemsGrow ==
    ASSUME TypeInv, SnapshotsTrue, NEW i \in Invocations, Transaction(i)
    PROVE  /\ \A c \in Collections : SchemaGrows(c)
           /\ \A id \in RecordIds : RecordGrows(id)
  <1> USE DEF TypeInv, TypeOK
  <1>a. /\ Conditions(i)
        /\ Request(i) \in Requests /\ Request(i).collection \in Collections
        /\ Request(i).action # "createCollection" => seenSchema[i] \in CollectionItem
    BY TransactionFacts
  <1>b. /\ \A c \in Collections : schema'[c] = schema[c] => SchemaGrows(c)
        /\ \A id \in RecordIds : record'[id] = record[id] => RecordGrows(id)
    BY ItemRevisions DEF SchemaGrows, RecordGrows
  <1>c. /\ SchemaNow(i) = Absent => SchemaGrows(Request(i).collection)
        /\ RecordNow(i) = Absent => RecordGrows(Id(Request(i)))
    BY DEF SchemaGrows, RecordGrows, SchemaNow, RecordNow
  <1>1. CASE CreateCollection(i)
    <2>1. SchemaNow(i) = Absent
      BY <1>1, <1>a DEF CreateCollection, Transacts, Conditions, CreateCollectionConditions
    <2>2. \A c \in Collections : c # Request(i).collection => schema'[c] = schema[c]
      BY <1>1 DEF CreateCollection, PutSchema, ItemsTypeOK
    <2> QED
      BY <1>1, <1>b, <1>c, <2>1, <2>2 DEF CreateCollection
  <1>2. CASE UpdateCollection(i)
    <2>1. /\ Request(i).action = "updateCollection"
          /\ SchemaNow(i) # Absent /\ SchemaNow(i).revision = Request(i).expected
      BY <1>2, <1>a DEF UpdateCollection, Transacts, Conditions, UpdateCollectionConditions
    <2>2. Request(i).expected \in Nat /\ NextRevision(i) \in Revisions
      BY <1>a, <2>1, CollectionRequestFields, ExpectedRevision, RevisionBound
      DEF NextRevision, ExpectedRevisions
    <2>3. /\ \A c \in Collections : c # Request(i).collection => schema'[c] = schema[c]
          /\ schema'[Request(i).collection] =
                [seenSchema[i] EXCEPT !.revision = NextRevision(i), !.schema = Request(i).schema]
      BY <1>2, <1>a DEF UpdateCollection, PutSchema, ItemsTypeOK
    <2>4. [seenSchema[i] EXCEPT !.revision = NextRevision(i), !.schema = Request(i).schema]
             \in CollectionItem
      BY <1>a, <2>1, <2>2, CollectionRequestFields DEF CollectionItem
    <2>5. schema'[Request(i).collection].revision = Request(i).expected + 1
      BY <1>a, <2>1, <2>3 DEF CollectionItem, NextRevision
    <2>6. SchemaGrows(Request(i).collection)
      BY <2>1, <2>2, <2>3, <2>4, <2>5, AbsentAssumption DEF SchemaNow, SchemaGrows
    <2> QED
      BY <1>2, <1>b, <2>3, <2>6 DEF UpdateCollection
  <1>3. CASE CreateRecord(i)
    <2> DEFINE counted == [seenSchema[i] EXCEPT !.recordCount = seenSchema[i].recordCount + 1]
    <2>1. /\ SchemaNow(i) # Absent /\ SchemaNow(i).revision = seenSchema[i].revision
          /\ RecordNow(i) = Absent
          /\ seenSchema[i] \in CollectionItem
      BY <1>3, <1>a
      DEF CreateRecord, Transacts, Conditions, CreateRecordConditions, CollectionUnchanged
    <2>2. /\ \A c \in Collections : c # Request(i).collection => schema'[c] = schema[c]
          /\ schema'[Request(i).collection] = counted
      BY <1>3, <1>a DEF CreateRecord, ItemsTypeOK
    <2>3. /\ counted \in CollectionItem
          /\ counted.revision = seenSchema[i].revision
          /\ counted.schema = seenSchema[i].schema
      BY <2>1 DEF CollectionItem
    <2>4. seenSchema[i].schema = SchemaNow(i).schema
      BY <2>1, AbsentAssumption DEF SnapshotsTrue, SnapshotTrue
    <2>5. SchemaGrows(Request(i).collection)
      BY <1>a, <2>1, <2>2, <2>3, <2>4, AbsentAssumption, ItemRevisions
      DEF SchemaNow, SchemaGrows
    <2>6. \A id \in RecordIds : id # Id(Request(i)) => record'[id] = record[id]
      BY <1>3 DEF CreateRecord, PutRecord, ItemsTypeOK
    <2> QED
      BY <1>b, <1>c, <2>1, <2>2, <2>5, <2>6
  <1>4. CASE UpdateRecord(i) \/ Publish(i) \/ Unpublish(i)
    <2>1. PICK item \in RecordItem : PutRecord(i, item) /\ item.revision = NextRevision(i)
      BY <1>4, EditTypes
    <2>2. UNCHANGED schema
      BY <1>4 DEF UpdateRecord, Publish, Unpublish
    <2>3. /\ Id(Request(i)) \in RecordIds /\ Request(i).expected \in Nat
          /\ RecordNow(i) # Absent /\ RecordNow(i).revision = Request(i).expected
      BY <1>4, EditTypes
    <2>4. /\ record'[Id(Request(i))] = item
          /\ \A id \in RecordIds : id # Id(Request(i)) => record'[id] = record[id]
      BY <2>1, <2>3 DEF PutRecord, ItemsTypeOK
    <2>5. RecordGrows(Id(Request(i)))
      BY <2>1, <2>3, <2>4, AbsentAssumption DEF RecordNow, RecordGrows, NextRevision
    <2> QED
      BY <1>b, <2>2, <2>4, <2>5
  <1> QED
    BY <1>1, <1>2, <1>3, <1>4 DEF Transaction

-----------------------------------------------------------------------------
(* What was read stays true: nobody else's transaction makes an item go    *)
(* back to a revision with another content.                                *)

\* The keys of an item that an invocation has read.
LEMMA SnapshotKeys ==
    ASSUME TypeInv, SnapshotsTrue, NEW i \in Invocations
    PROVE  /\ seenSchema[i] # Absent =>
                 /\ call[i] # Absent /\ Request(i).collection \in Collections
                 /\ seenSchema[i] \in CollectionItem /\ seenSchema[i].revision \in Nat
           /\ seenRecord[i] # Absent =>
                 /\ call[i] # Absent /\ Id(Request(i)) \in RecordIds
                 /\ seenRecord[i] \in RecordItem /\ seenRecord[i].revision \in Nat
  <1> USE DEF TypeInv, TypeOK
  <1>1. seenSchema[i] # Absent \/ seenRecord[i] # Absent =>
           /\ call[i] # Absent
           /\ Request(i) \in Requests
           /\ Request(i).collection \in Collections
    BY CallTypes, RequestKinds DEF SnapshotsTrue, SnapshotTrue, SnapshotsThere
  <1>2. seenRecord[i] # Absent => Id(Request(i)) \in RecordIds
    BY <1>1, RecordRequestFields DEF SnapshotsTrue, SnapshotTrue, Publications
  <1> QED
    BY <1>1, <1>2, RevisionBound
    DEF InvocationsTypeOK, OrAbsent, CollectionItem, RecordItem, Revisions

\* SnapshotsTrue of one invocation, after a step in which the items grew and
\* in which its own locals stayed.
LEMMA SnapshotKept ==
    ASSUME TypeInv, TypeInv', SnapshotsTrue, NEW j \in Invocations, LocalsKept(j),
           \A c \in Collections : SchemaGrows(c),
           \A id \in RecordIds : RecordGrows(id)
    PROVE  SnapshotTrue(j)'
  <1> USE DEF TypeInv, TypeOK
  <1>1. SnapshotTrue(j)
    BY DEF SnapshotsTrue
  <1>2. seenSchema'[j] # Absent =>
           /\ SchemaNow(j)' # Absent
           /\ seenSchema'[j].revision <= SchemaNow(j)'.revision
           /\ seenSchema'[j].revision = SchemaNow(j)'.revision =>
                seenSchema'[j].schema = SchemaNow(j)'.schema
    <2> SUFFICES ASSUME seenSchema[j] # Absent
                 PROVE  /\ SchemaNow(j)' # Absent
                        /\ seenSchema[j].revision <= SchemaNow(j)'.revision
                        /\ seenSchema[j].revision = SchemaNow(j)'.revision =>
                             seenSchema[j].schema = SchemaNow(j)'.schema
      BY DEF LocalsKept
    <2>1. Request(j).collection \in Collections /\ SchemaNow(j)' = schema'[Request(j).collection]
      BY SnapshotKeys DEF LocalsKept, SchemaNow, Request
    <2>2. SchemaGrows(Request(j).collection) /\ seenSchema[j].revision \in Nat
      BY <2>1, SnapshotKeys
    <2>3. /\ SchemaNow(j) # Absent => SchemaNow(j).revision \in Nat
          /\ SchemaNow(j)' # Absent => SchemaNow(j)'.revision \in Nat
      BY <2>1, RevisionBound
      DEF SchemaNow, ItemsTypeOK, OrAbsent, CollectionItem, Revisions
    <2> QED
      BY <1>1, <2>1, <2>2, <2>3 DEF SchemaGrows, SnapshotTrue, SchemaNow
  <1>3. seenRecord'[j] # Absent =>
           /\ RecordNow(j)' # Absent
           /\ seenRecord'[j].revision <= RecordNow(j)'.revision
           /\ seenRecord'[j].revision = RecordNow(j)'.revision => seenRecord'[j] = RecordNow(j)'
    <2> SUFFICES ASSUME seenRecord[j] # Absent
                 PROVE  /\ RecordNow(j)' # Absent
                        /\ seenRecord[j].revision <= RecordNow(j)'.revision
                        /\ seenRecord[j].revision = RecordNow(j)'.revision =>
                             seenRecord[j] = RecordNow(j)'
      BY DEF LocalsKept
    <2>1. Id(Request(j)) \in RecordIds /\ RecordNow(j)' = record'[Id(Request(j))]
      BY SnapshotKeys DEF LocalsKept, RecordNow, Request, Id
    <2>2. RecordGrows(Id(Request(j))) /\ seenRecord[j].revision \in Nat
      BY <2>1, SnapshotKeys
    <2>3. /\ RecordNow(j) # Absent => RecordNow(j).revision \in Nat
          /\ RecordNow(j)' # Absent => RecordNow(j)'.revision \in Nat
      BY <2>1, RevisionBound
      DEF RecordNow, ItemsTypeOK, OrAbsent, RecordItem, Revisions
    <2> QED
      BY <1>1, <2>1, <2>2, <2>3 DEF RecordGrows, SnapshotTrue, RecordNow
  <1> QED
    BY <1>1, <1>2, <1>3 DEF SnapshotTrue, LocalsKept, Request

\* SnapshotsTrue is preserved by every step of an invocation.
LEMMA SnapshotsStayTrue ==
    ASSUME TypeInv, TypeInv', SnapshotsTrue, NEW i \in Invocations, Invoke(i)
    PROVE  SnapshotsTrue'
  <1> USE DEF TypeInv, TypeOK
  <1>1. CASE Transaction(i)
    <2>1. \A j \in Invocations \ {i} : SnapshotTrue(j)'
      BY <1>1, ItemsGrow, SnapshotKept, TransactionIsLocal
    <2>2. SnapshotTrue(i)'
      BY <1>1, TransactionIsLocal DEF SnapshotTrue
    <2> QED
      BY <2>1, <2>2 DEF SnapshotsTrue
  <1>2. CASE ~Transaction(i)
    <2>1. /\ schema' = schema /\ record' = record
          /\ \A j \in Invocations \ {i} : LocalsKept(j)
      BY <1>2, ReadIsLocal DEF items
    <2>2. /\ \A c \in Collections : SchemaGrows(c)
          /\ \A id \in RecordIds : RecordGrows(id)
      BY <2>1, ItemRevisions DEF SchemaGrows, RecordGrows
    <2>3. \A j \in Invocations \ {i} : SnapshotTrue(j)'
      BY <2>1, <2>2, SnapshotKept
    <2>4. SnapshotTrue(i) /\ (call'[i] = call[i] => Request(i)' = Request(i))
      BY DEF SnapshotsTrue, Request
    <2>5. call'[i] = call[i] =>
             SchemaNow(i)' = SchemaNow(i) /\ RecordNow(i)' = RecordNow(i)
      BY <2>1, <2>4 DEF SchemaNow, RecordNow, Id
    <2>6. pc'[i] \in {"idle", "done"} => seenSchema'[i] = Absent /\ seenRecord'[i] = Absent
      BY <1>2, ReadIsLocal
    <2>7. seenSchema'[i] # Absent =>
             /\ SchemaNow(i)' # Absent
             /\ seenSchema'[i].revision <= SchemaNow(i)'.revision
             /\ seenSchema'[i].revision = SchemaNow(i)'.revision =>
                  seenSchema'[i].schema = SchemaNow(i)'.schema
      <3>1. CASE seenSchema'[i] = Absent
        BY <3>1
      <3>2. CASE call'[i] = call[i] /\ seenSchema'[i] = seenSchema[i]
        BY <2>4, <2>5, <3>2 DEF SnapshotTrue
      <3>3. CASE call'[i] = call[i] /\ seenSchema'[i] = SchemaNow(i)
        <4>1. seenSchema'[i] # Absent => seenSchema'[i].revision \in Nat
          BY RevisionBound DEF InvocationsTypeOK, OrAbsent, CollectionItem, Revisions
        <4> QED
          BY <2>5, <3>3, <4>1
      <3> QED
        BY <1>2, <3>1, <3>2, <3>3, ReadIsLocal
    <2>8. seenRecord'[i] # Absent =>
             /\ Request(i)'.action \in {"updateRecord"} \cup Publications
             /\ RecordNow(i)' # Absent
             /\ seenRecord'[i].revision <= RecordNow(i)'.revision
             /\ seenRecord'[i].revision = RecordNow(i)'.revision => seenRecord'[i] = RecordNow(i)'
      <3>1. CASE seenRecord'[i] = Absent
        BY <3>1
      <3>2. CASE call'[i] = call[i] /\ seenRecord'[i] = seenRecord[i]
        BY <2>4, <2>5, <3>2 DEF SnapshotTrue
      <3>3. CASE /\ call'[i] = call[i] /\ seenRecord'[i] = RecordNow(i)
                 /\ Request(i).action \in {"updateRecord"} \cup Publications
        <4>1. seenRecord'[i] # Absent => seenRecord'[i].revision \in Nat
          BY RevisionBound DEF InvocationsTypeOK, OrAbsent, RecordItem, Revisions
        <4> QED
          BY <2>4, <2>5, <3>3, <4>1
      <3> QED
        BY <1>2, <3>1, <3>2, <3>3, ReadIsLocal
    <2>9. SnapshotTrue(i)'
      BY <2>6, <2>7, <2>8 DEF SnapshotTrue
    <2> QED
      BY <2>3, <2>9 DEF SnapshotsTrue
  <1> QED
    BY <1>1, <1>2

-----------------------------------------------------------------------------
(* A transaction is sent only after its checks: they are about the locals  *)
(* of the invocation alone.                                                *)

CheckMade(i) ==
    /\ pc[i] \in {"space", "schema", "record", "transact"} => AcceptsSchema(i)
    /\ pc[i] = "transact" => Checked(i)

LEMMA ChecksKept ==
    ASSUME NEW j \in Invocations, CheckMade(j), LocalsKept(j)
    PROVE  CheckMade(j)'
  <1>1. Request(j)' = Request(j) /\ Policy(j)' = Policy(j)
    BY DEF LocalsKept, Request, Policy
  <1>2. AcceptsSchema(j)' <=> AcceptsSchema(j)
    BY <1>1 DEF AcceptsSchema
  <1>3. Checked(j)' <=> Checked(j)
    BY <1>1 DEF Checked, LocalsKept, IsStale, Restructures, AcceptsData, StillConforms,
                Projection, Publishes
  <1> QED
    BY <1>2, <1>3 DEF CheckMade, LocalsKept

LEMMA ChecksStayMade ==
    ASSUME TypeInv, SnapshotsTrue, ChecksMade, NEW i \in Invocations, Invoke(i)
    PROVE  ChecksMade'
  <1> USE DEF TypeInv, TypeOK
  <1>1. \A j \in Invocations \ {i} : CheckMade(j)'
    BY ChecksKept, ReadIsLocal, TransactionIsLocal DEF ChecksMade, CheckMade
  <1>2. CheckMade(i)'
    <2>1. CASE pc'[i] \in {"idle", "receipt", "done"}
      BY <2>1 DEF CheckMade
    <2>a. ASSUME NEW step, Continue(i, step)
          PROVE  pc'[i] = step /\ Request(i)' = Request(i) /\ Policy(i)' = Policy(i)
      BY <2>a DEF Continue, Goto, InvocationsTypeOK, Request, Policy
    <2>b. ASSUME NEW code, Refuse(i, code)
          PROVE  pc'[i] = "done"
      BY <2>b DEF Refuse, Answer, Goto, InvocationsTypeOK
    <2>c. pc[i] \in {"space", "schema", "record"} => AcceptsSchema(i)
      BY DEF ChecksMade
    <2>d. pc[i] # "idle" => Request(i) \in Requests
      BY CallTypes DEF SnapshotsThere
    <2>2. CASE Proceed(i)
      <3>1. FirstRead(Request(i).action) # "transact"
        BY DEF FirstRead
      <3> QED
        BY <2>2, <2>a, <3>1 DEF Proceed, CheckMade, AcceptsSchema
    <2>3. CASE UpdateRecordReadSchema(i)
      BY <2>3, <2>a, <2>c DEF UpdateRecordReadSchema, CheckMade, AcceptsSchema, Reads, At
    <2>4. CASE PublicationReadRecord(i)
      BY <2>4, <2>a, <2>c DEF PublicationReadRecord, CheckMade, AcceptsSchema, Reads, At
    <2>5. CASE CreateCollectionRead(i)
      <3>1. CASE RememberSpace(i) /\ Continue(i, "transact")
                 /\ CollectionCount(space) < Policy(i).maxCollections
        <4>1. pc[i] = "space" /\ Request(i).action = "createCollection"
          BY <2>5 DEF CreateCollectionRead, Reads, At
        <4>2. seenSpace'[i] = space
          BY <3>1 DEF RememberSpace, InvocationsTypeOK
        <4> QED
          BY <2>a, <2>c, <3>1, <4>1, <4>2
          DEF CheckMade, Checked, Publishes, Publications, CollectionCount, AcceptsSchema
      <3> QED
        BY <2>1, <2>5, <2>b, <3>1 DEF CreateCollectionRead
    <2>6. CASE UpdateCollectionRead(i)
      <3>1. CASE RememberSchema(i) /\ Continue(i, "transact")
                 /\ ~IsStale(i, SchemaNow(i)) /\ ~Restructures(i, SchemaNow(i))
        <4>1. pc[i] = "schema" /\ Request(i).action = "updateCollection"
          BY <2>6 DEF UpdateCollectionRead, Reads, At
        <4>2. seenSchema'[i] = SchemaNow(i)
          BY <3>1 DEF RememberSchema, InvocationsTypeOK
        <4> QED
          BY <2>a, <2>c, <3>1, <4>1, <4>2
          DEF CheckMade, Checked, Publishes, Publications, AcceptsSchema, IsStale, Restructures
      <3> QED
        BY <2>1, <2>6, <2>b, <3>1 DEF UpdateCollectionRead
    <2>7. CASE CreateRecordRead(i)
      <3>1. CASE RememberSchema(i) /\ Continue(i, "transact")
                 /\ AcceptsData(i, SchemaNow(i))
                 /\ HasRoom(i, SchemaNow(i))
        <4>1. pc[i] = "schema" /\ Request(i).action = "createRecord"
          BY <2>7 DEF CreateRecordRead, Reads, At
        <4>2. seenSchema'[i] = SchemaNow(i)
          BY <3>1 DEF RememberSchema, InvocationsTypeOK
        <4> QED
          BY <2>a, <2>c, <3>1, <4>1, <4>2
          DEF CheckMade, Checked, Publishes, Publications, AcceptsSchema, AcceptsData, HasRoom
      <3> QED
        BY <2>1, <2>7, <2>b, <3>1 DEF CreateRecordRead
    <2>8. CASE UpdateRecordReadRecord(i)
      <3>1. CASE RememberRecord(i) /\ Continue(i, "transact")
                 /\ AcceptsData(i, seenSchema[i]) /\ ~IsStale(i, RecordNow(i))
        <4>1. pc[i] = "record" /\ Request(i).action = "updateRecord"
          BY <2>8 DEF UpdateRecordReadRecord, Reads, At
        <4>2. seenRecord'[i] = RecordNow(i) /\ seenSchema'[i] = seenSchema[i]
          BY <3>1 DEF RememberRecord, InvocationsTypeOK
        <4> QED
          BY <2>a, <2>c, <3>1, <4>1, <4>2
          DEF CheckMade, Checked, Publishes, Publications, AcceptsSchema, AcceptsData, IsStale
      <3> QED
        BY <2>1, <2>8, <2>b, <3>1 DEF UpdateRecordReadRecord
    <2>9. CASE PublicationReadSchema(i)
      <3>1. CASE RememberSchema(i) /\ Continue(i, "transact") /\ ~IsStale(i, seenRecord[i])
                 /\ (Publishes(i) => /\ StillConforms(i, SchemaNow(i))
                                     /\ DOMAIN Projection(i, SchemaNow(i)) # {})
        <4>1. pc[i] = "schema" /\ Request(i).action \in Publications
          BY <2>9 DEF PublicationReadSchema, Reads, At
        <4>2. seenSchema'[i] = SchemaNow(i) /\ seenRecord'[i] = seenRecord[i]
          BY <3>1 DEF RememberSchema, InvocationsTypeOK
        <4>3. /\ (StillConforms(i, seenSchema[i]))' <=> StillConforms(i, SchemaNow(i))
              /\ (Projection(i, seenSchema[i]))' = Projection(i, SchemaNow(i))
              /\ (IsStale(i, seenRecord[i]))' <=> IsStale(i, seenRecord[i])
              /\ Publishes(i)' <=> Publishes(i)
          BY <2>a, <3>1, <4>2 DEF StillConforms, Projection, IsStale, Publishes
        <4> QED
          BY <2>a, <2>c, <3>1, <4>1, <4>3
          DEF CheckMade, Checked, Publications, AcceptsSchema
      <3> QED
        BY <2>1, <2>9, <2>b, <3>1 DEF PublicationReadSchema
    <2>10. CASE Transaction(i)
      BY <2>1, <2>10, TransactionIsLocal
    <2>11. CASE \/ Begin(i) \/ Return(i) \/ Crash(i) \/ Replay(i) \/ RefuseKeyReuse(i)
                \/ RefuseSchema(i) \/ NotFound(i) \/ ConditionFailed(i) \/ BackendError(i)
      BY <2>1, <2>11, <2>b
      DEF Begin, Return, Crash, Replay, RefuseKeyReuse, RefuseSchema, NotFound,
          ConditionFailed, BackendError, Goto, Answer, InvocationsTypeOK
    <2> QED
      BY <2>2, <2>3, <2>4, <2>5, <2>6, <2>7, <2>8, <2>9, <2>10, <2>11 DEF Invoke, Transaction
  <1> QED
    BY <1>1, <1>2 DEF ChecksMade, CheckMade

-----------------------------------------------------------------------------
(* The counters.                                                           *)

\* The keys of a record request name a record of its collection.
LEMMA RecordKeys ==
    ASSUME NEW i \in Invocations, Id(Request(i)) \in RecordIds
    PROVE  /\ Request(i).record \in Records
           /\ \A c \in Collections, r \in Records :
                 <<c, r>> = Id(Request(i)) <=>
                     c = Request(i).collection /\ r = Request(i).record
  BY DEF Id, RecordIds

LEMMA FiniteParts ==
    /\ IsFiniteSet(CollectionsIn) /\ Cardinality(CollectionsIn) \in Nat
    /\ \A c \in Collections : IsFiniteSet(RecordsIn(c)) /\ Cardinality(RecordsIn(c)) \in Nat
  <1>1. IsFiniteSet(CollectionsIn)
    BY FiniteIds, FS_Subset DEF CollectionsIn
  <1>2. \A c \in Collections : IsFiniteSet(RecordsIn(c))
    BY FiniteIds, FS_Subset DEF RecordsIn
  <1> QED
    BY <1>1, <1>2, FS_CardinalityType

Counts == CountersExact /\ RecordsHaveCollections

\* Nothing is created and no counter moves.
LEMMA CountsKept ==
    ASSUME Counts,
           CollectionCount(space)' = CollectionCount(space),
           \A c \in Collections :
              /\ schema'[c] = Absent <=> schema[c] = Absent
              /\ schema[c] # Absent => schema'[c].recordCount = schema[c].recordCount,
           \A id \in RecordIds : record'[id] = Absent <=> record[id] = Absent
    PROVE  Counts'
  <1>1. CollectionsIn' = CollectionsIn
    BY DEF CollectionsIn
  <1>2. \A c \in Collections : RecordsIn(c)' = RecordsIn(c)
    BY DEF RecordsIn, RecordIds
  <1>3. CountersExact'
    BY <1>1, <1>2 DEF Counts, CountersExact, CollectionsIn
  <1>4. RecordsHaveCollections'
    BY DEF Counts, RecordsHaveCollections, RecordIds
  <1> QED
    BY <1>3, <1>4 DEF Counts

LEMMA CountsStayExact ==
    ASSUME TypeInv, TypeInv', SnapshotsTrue, Counts,
           NEW i \in Invocations, Transaction(i)
    PROVE  Counts'
  <1> USE DEF TypeInv, TypeOK
  <1> SUFFICES ASSUME NEW here \in Collections, here = Request(i).collection
               PROVE  Counts'
    BY TransactionFacts
  <1>a. /\ Conditions(i)
        /\ Request(i) \in Requests
        /\ Request(i).action # "createCollection" => seenSchema[i] \in CollectionItem
    BY TransactionFacts
  <1>b. \A c \in Collections : schema[c] # Absent => schema[c].recordCount \in Nat
    BY DEF ItemsTypeOK, OrAbsent, CollectionItem
  <1>1. CASE CreateCollection(i)
    <2>1. space = seenSpace[i] /\ schema[here] = Absent
      BY <1>1, <1>a
      DEF CreateCollection, Transacts, Conditions, CreateCollectionConditions, SchemaNow
    <2> DEFINE new == [revision |-> 1, recordCount |-> 0, schema |-> Request(i).schema]
    <2>2. new \in CollectionItem
      BY <1>1, <1>a, CollectionRequestFields, FirstRevision
      DEF CreateCollection, Transacts, CollectionItem
    <2>3. /\ schema'[here] = new /\ new # Absent /\ new.recordCount = 0
          /\ \A c \in Collections : c # here => schema'[c] = schema[c]
          /\ record' = record
      BY <1>1, <1>a, <2>2, AbsentAssumption DEF CreateCollection, PutSchema, ItemsTypeOK
    <2>4. CollectionsIn' = CollectionsIn \cup {here} /\ here \notin CollectionsIn
      BY <1>a, <2>1, <2>3 DEF CollectionsIn
    <2>5. Cardinality(CollectionsIn') = Cardinality(CollectionsIn) + 1
      BY <2>4, FiniteParts, FS_AddElement
    <2>6. CollectionCount(space)' = CollectionCount(space) + 1
      <3>1. space' = CollectionCount(space) + 1
        BY <1>1, <2>1 DEF CreateCollection
      <3>2. space' # Absent
        BY <3>1, AbsentAssumption DEF CollectionCount, ItemsTypeOK, OrAbsent
      <3> QED
        BY <3>1, <3>2 DEF CollectionCount
    <2>7. \A c \in Collections : RecordsIn(c)' = RecordsIn(c)
      BY <2>3 DEF RecordsIn
    <2>8. RecordsIn(here) = {}
      BY <1>a, <2>1 DEF Counts, RecordsHaveCollections, RecordsIn
    <2>9. \A c \in CollectionsIn' : schema'[c].recordCount = Cardinality(RecordsIn(c)')
      <3>1. schema'[here].recordCount = Cardinality(RecordsIn(here)')
        BY <1>a, <2>3, <2>7, <2>8, FS_EmptySet
      <3>2. \A c \in CollectionsIn : schema'[c].recordCount = Cardinality(RecordsIn(c)')
        BY <2>3, <2>4, <2>7 DEF Counts, CountersExact, CollectionsIn
      <3> QED
        BY <2>4, <3>1, <3>2
    <2>10. CountersExact'
      BY <2>5, <2>6, <2>9 DEF Counts, CountersExact
    <2>11. RecordsHaveCollections'
      BY <2>1, <2>3 DEF Counts, RecordsHaveCollections
    <2> QED
      BY <2>10, <2>11 DEF Counts
  <1>2. CASE UpdateCollection(i)
    <2>1. /\ schema[here] # Absent
          /\ schema[here].recordCount = seenSchema[i].recordCount
          /\ seenSchema[i] \in CollectionItem
      BY <1>2, <1>a
      DEF UpdateCollection, Transacts, Conditions, UpdateCollectionConditions, SchemaNow,
          NothingCounted
    <2> DEFINE new == [seenSchema[i] EXCEPT !.revision = NextRevision(i),
                                            !.schema = Request(i).schema]
    <2>2. Request(i).schema \in Schemas /\ NextRevision(i) \in Revisions
      BY <1>2, <1>a, CollectionRequestFields, ExpectedRevision
      DEF UpdateCollection, Transacts, NextRevision
    <2>3. new \in CollectionItem /\ new.recordCount = seenSchema[i].recordCount
      BY <2>1, <2>2 DEF CollectionItem
    <2>4. /\ schema'[here] = new /\ new # Absent
          /\ \A c \in Collections : c # here => schema'[c] = schema[c]
          /\ record' = record /\ space' = space
      BY <1>2, <1>a, <2>3, AbsentAssumption DEF UpdateCollection, PutSchema, ItemsTypeOK
    <2> QED
      BY <2>1, <2>3, <2>4, CountsKept DEF CollectionCount
  <1>3. CASE CreateRecord(i)
    <2>1. /\ schema[here] # Absent
          /\ schema[here].recordCount = seenSchema[i].recordCount
          /\ record[Id(Request(i))] = Absent
          /\ seenSchema[i] \in CollectionItem
      BY <1>3, <1>a
      DEF CreateRecord, Transacts, Conditions, CreateRecordConditions, CollectionUnchanged,
          SchemaNow, RecordNow, NothingCounted
    <2> DEFINE counted == [seenSchema[i] EXCEPT !.recordCount = seenSchema[i].recordCount + 1]
    <2>2. /\ Id(Request(i)) \in RecordIds /\ Request(i).record \in Records
          /\ Request(i).data \in Datas
      BY <1>3, <1>a, RecordRequestFields DEF CreateRecord, Transacts
    <2>3. /\ counted \in CollectionItem
          /\ counted.recordCount = seenSchema[i].recordCount + 1
      BY <2>1 DEF CollectionItem
    <2>4. NewRecord(i) \in RecordItem
      BY <2>1, <2>2, FirstRevision, RevisionBound DEF NewRecord, RecordItem, CollectionItem
    <2>5. /\ schema'[here] = counted /\ counted # Absent
          /\ \A c \in Collections : c # here => schema'[c] = schema[c]
          /\ space' = space
      BY <1>3, <1>a, <2>3, AbsentAssumption DEF CreateRecord, ItemsTypeOK
    <2>6. /\ record'[Id(Request(i))] = NewRecord(i) /\ NewRecord(i) # Absent
          /\ \A id \in RecordIds : id # Id(Request(i)) => record'[id] = record[id]
      BY <1>3, <2>2, <2>4, AbsentAssumption DEF CreateRecord, PutRecord, ItemsTypeOK
    <2>7. CollectionsIn' = CollectionsIn
      BY <2>1, <2>5 DEF CollectionsIn
    <2>8. /\ RecordsIn(here)' = RecordsIn(here) \cup {Request(i).record}
          /\ Request(i).record \notin RecordsIn(here)
      <3>1. \A r \in Records :
               r # Request(i).record => record'[here, r] = record[here, r]
        BY <1>a, <2>2, <2>6, RecordKeys DEF RecordIds
      <3>2. record[here, Request(i).record] = Absent /\ record'[here, Request(i).record] # Absent
        BY <2>1, <2>6 DEF Id
      <3> QED
        BY <2>2, <3>1, <3>2 DEF RecordsIn
    <2>9. \A c \in Collections : c # here => RecordsIn(c)' = RecordsIn(c)
      <3>1. \A c \in Collections, r \in Records : c # here => record'[c, r] = record[c, r]
        BY <2>2, <2>6, RecordKeys DEF RecordIds
      <3> QED
        BY <3>1 DEF RecordsIn
    <2>10. Cardinality(RecordsIn(here)') = Cardinality(RecordsIn(here)) + 1
      BY <1>a, <2>8, FiniteParts, FS_AddElement
    <2>11. \A c \in CollectionsIn : schema'[c].recordCount = Cardinality(RecordsIn(c)')
      <3>1. schema'[here].recordCount = Cardinality(RecordsIn(here)')
        BY <1>a, <2>1, <2>3, <2>5, <2>10 DEF Counts, CountersExact, CollectionsIn
      <3>2. \A c \in CollectionsIn : c # here =>
               schema'[c].recordCount = Cardinality(RecordsIn(c)')
        BY <2>5, <2>9 DEF Counts, CountersExact, CollectionsIn
      <3> QED
        BY <3>1, <3>2
    <2>12. CountersExact'
      BY <2>5, <2>7, <2>11 DEF Counts, CountersExact, CollectionCount
    <2>13. RecordsHaveCollections'
      <3>1. \A c \in Collections, r \in Records : c # here => record'[c, r] = record[c, r]
        BY <2>2, <2>6, RecordKeys DEF RecordIds
      <3> QED
        BY <2>5, <3>1 DEF Counts, RecordsHaveCollections
    <2> QED
      BY <2>12, <2>13 DEF Counts
  <1>4. CASE UpdateRecord(i) \/ Publish(i) \/ Unpublish(i)
    <2>1. PICK item \in RecordItem : PutRecord(i, item)
      BY <1>4, EditTypes
    <2>2. /\ Id(Request(i)) \in RecordIds /\ record[Id(Request(i))] # Absent
          /\ schema' = schema /\ space' = space
      BY <1>4, EditTypes DEF RecordNow, UpdateRecord, Publish, Unpublish
    <2>3. \A id \in RecordIds : record'[id] = Absent <=> record[id] = Absent
      BY <2>1, <2>2, AbsentAssumption DEF PutRecord, ItemsTypeOK
    <2> QED
      BY <2>2, <2>3, CountsKept DEF CollectionCount
  <1> QED
    BY <1>1, <1>2, <1>3, <1>4 DEF Transaction

-----------------------------------------------------------------------------
IInv == TypeInv /\ SnapshotsTrue /\ ChecksMade /\ Counts

\* The invariant is inductive.
THEOREM InvariantHolds == Spec => []IInv
  <1>1. Init => IInv
    <2> SUFFICES ASSUME Init PROVE IInv
      OBVIOUS
    <2>1. SnapshotsTrue /\ ChecksMade /\ RecordsHaveCollections
      BY DEF Init, SnapshotsTrue, SnapshotTrue, ChecksMade, RecordsHaveCollections, RecordIds
    <2>2. CollectionsIn = {} /\ CollectionCount(space) = 0
      BY DEF Init, CollectionsIn, CollectionCount
    <2>3. CountersExact
      BY <2>2, FS_EmptySet DEF CountersExact
    <2> QED
      BY <2>1, <2>3, TypeInit DEF IInv, Counts
  <1>2. IInv /\ [Next]_vars => IInv'
    <2> SUFFICES ASSUME IInv, [Next]_vars PROVE IInv'
      OBVIOUS
    <2> USE DEF IInv
    <2>1. TypeInv'
      BY TypeStep
    <2>2. ASSUME NEW i \in Invocations, Invoke(i)
          PROVE  SnapshotsTrue' /\ ChecksMade' /\ Counts'
      <3>1. SnapshotsTrue' /\ ChecksMade'
        BY <2>1, <2>2, SnapshotsStayTrue, ChecksStayMade
      <3>2. CASE Transaction(i)
        BY <2>1, <3>1, <3>2, CountsStayExact
      <3>3. CASE ~Transaction(i)
        <4>1. UNCHANGED items
          BY <2>2, <3>3, ReadIsLocal
        <4> QED
          BY <3>1, <4>1
          DEF items, Counts, CountersExact, RecordsHaveCollections, CollectionCount,
              CollectionsIn, RecordsIn
      <3> QED
        BY <3>2, <3>3, <3>1
    <2>3. CASE Tick \/ (\E k \in Keys : ExpireReceipt(k)) \/ UNCHANGED vars
      <3>1. UNCHANGED <<items, local>>
        BY <2>3 DEF Tick, ExpireReceipt, vars, table
      <3>2. Counts'
        BY <3>1 DEF items, Counts, CountersExact, RecordsHaveCollections, CollectionCount,
                    CollectionsIn, RecordsIn
      <3>3. \A j \in Invocations : LocalsKept(j)
        BY <3>1 DEF local, snapshots, LocalsKept
      <3>4. ChecksMade'
        BY <3>3, ChecksKept DEF ChecksMade, CheckMade
      <3>5. /\ \A c \in Collections : SchemaGrows(c)
            /\ \A id \in RecordIds : RecordGrows(id)
        BY <3>1, ItemRevisions DEF items, SchemaGrows, RecordGrows, TypeInv, TypeOK
      <3>6. SnapshotsTrue'
        BY <2>1, <3>3, <3>5, SnapshotKept DEF SnapshotsTrue
      <3> QED
        BY <2>1, <3>2, <3>4, <3>6
    <2> QED
      BY <2>1, <2>2, <2>3 DEF Next
  <1> QED
    BY <1>1, <1>2, PTL DEF Spec

\* storage.py puts collectionCount and recordCount back from what it has read:
\* they are nevertheless exact, for any number of concurrent invocations.
THEOREM CountersAreExact == Spec => []CountersExact
  BY InvariantHolds, PTL DEF IInv, Counts

\* What an invocation read at a revision is the content of that revision, as
\* long as the item still has it: no revision ever comes back (no ABA).
THEOREM SnapshotsAreTrue == Spec => []SnapshotsTrue
  BY InvariantHolds, PTL DEF IInv

-----------------------------------------------------------------------------
(* The mapping.                                                            *)

\* The instance of the contract has its own copy of Cardinality.
LEMMA SameCardinality == \A S : Contract!Cardinality(S) = Cardinality(S)
  BY DEF Contract!Cardinality, Cardinality

LEMMA CollectionMapping ==
    ASSUME ItemsTypeOK
    PROVE  \A c \in Collections :
              /\ CollectionsNow[c] = Absent <=> schema[c] = Absent
              /\ schema[c] # Absent =>
                    /\ CollectionsNow[c].revision = schema[c].revision
                    /\ CollectionsNow[c].schema = schema[c].schema
  <1>1. \A c \in Collections : schema[c] # Absent =>
           [revision |-> schema[c].revision, schema |-> schema[c].schema] # Absent
    BY AbsentAssumption DEF ItemsTypeOK, OrAbsent, CollectionItem, CollectionRevisionItem
  <1> QED
    BY <1>1 DEF CollectionsNow

LEMMA PartsMapping ==
    ASSUME ItemsTypeOK
    PROVE  /\ Contract!CollectionsThere = CollectionsIn
           /\ \A c \in Collections : Contract!RecordsOf(c) = RecordsIn(c)
  BY CollectionMapping
  DEF Contract!CollectionsThere, Contract!RecordsOf, CollectionsIn, RecordsIn

\* One schema item changes.
LEMMA MappedStep ==
    ASSUME ItemsTypeOK, NEW c \in Collections, NEW item \in CollectionItem,
           schema' = [schema EXCEPT ![c] = item]
    PROVE  CollectionsNow' = [CollectionsNow EXCEPT ![c] = [revision |-> item.revision,
                                                            schema |-> item.schema]]
  BY AbsentAssumption DEF CollectionsNow, ItemsTypeOK

-----------------------------------------------------------------------------
(* What was read is current when the conditions hold.                      *)

LEMMA CurrentSchema ==
    ASSUME IInv, NEW i \in Invocations, seenSchema[i] \in CollectionItem,
           SchemaNow(i) # Absent, SchemaNow(i).revision = seenSchema[i].revision
    PROVE  SchemaNow(i).schema = seenSchema[i].schema
  BY AbsentAssumption DEF IInv, SnapshotsTrue, SnapshotTrue

LEMMA CurrentRecord ==
    ASSUME IInv, NEW i \in Invocations, seenRecord[i] \in RecordItem,
           RecordNow(i) # Absent, RecordNow(i).revision = seenRecord[i].revision
    PROVE  RecordNow(i) = seenRecord[i]
  BY AbsentAssumption DEF IInv, SnapshotsTrue, SnapshotTrue

-----------------------------------------------------------------------------
(* Each transaction is the mutation of the contract.                       *)

LEMMA CreateCollectionImplements ==
    ASSUME IInv, NEW i \in Invocations, CreateCollection(i)
    PROVE  Contract!CreateCollection(Request(i), Policy(i))
  <1> USE DEF IInv, TypeInv, TypeOK
  <1> DEFINE c == Request(i).collection
             new == [revision |-> 1, recordCount |-> 0, schema |-> Request(i).schema]
  <1>1. /\ Transaction(i) /\ pc[i] = "transact" /\ Conditions(i)
        /\ Request(i).action = "createCollection"
        /\ Request(i) \in Requests /\ c \in Collections
    BY TransactionFacts DEF Transaction, CreateCollection, Transacts
  <1>2. space = seenSpace[i] /\ schema[c] = Absent
    BY <1>1 DEF Conditions, CreateCollectionConditions, SchemaNow
  <1>3. AcceptsSchema(i) /\ CollectionCount(seenSpace[i]) < Policy(i).maxCollections
    BY <1>1 DEF ChecksMade, Checked
  <1>4. Contract!Cardinality(Contract!CollectionsThere) < Policy(i).maxCollections
    BY <1>2, <1>3, PartsMapping, SameCardinality DEF Counts, CountersExact
  <1>5. Contract!ValidSchema(Request(i).schema, Policy(i).maxFields, Policy(i).allowed)
    <2>1. "schema" \in DOMAIN Request(i)
      BY <1>1, RequestKinds DEF CreateCollectionRequests
    <2> QED
      BY <1>3, <2>1, SameCardinality DEF AcceptsSchema, ValidSchema, Contract!ValidSchema
  <1>6. new \in CollectionItem
    BY <1>1, CollectionRequestFields, FirstRevision DEF CollectionItem
  <1>7. CollectionsNow' = [CollectionsNow EXCEPT ![c] = [revision |-> 1,
                                                          schema |-> Request(i).schema]]
    <2>1. schema' = [schema EXCEPT ![c] = new]
      BY DEF CreateCollection, PutSchema
    <2>2. CollectionsNow' = [CollectionsNow EXCEPT ![c] = [revision |-> new.revision,
                                                           schema |-> new.schema]]
      BY <1>1, <1>6, <2>1, MappedStep
    <2> QED
      BY <2>2
  <1>8. CollectionsNow[c] = Absent
    BY <1>1, <1>2, CollectionMapping
  <1> QED
    BY <1>4, <1>5, <1>7, <1>8 DEF CreateCollection, Contract!CreateCollection

LEMMA UpdateCollectionImplements ==
    ASSUME IInv, NEW i \in Invocations, UpdateCollection(i)
    PROVE  Contract!UpdateCollection(Request(i), Policy(i))
  <1> USE DEF IInv, TypeInv, TypeOK
  <1> DEFINE c == Request(i).collection
             new == [seenSchema[i] EXCEPT !.revision = NextRevision(i),
                                          !.schema = Request(i).schema]
  <1>1. /\ Transaction(i) /\ pc[i] = "transact" /\ Conditions(i)
        /\ Request(i).action = "updateCollection"
        /\ Request(i) \in Requests /\ c \in Collections
        /\ seenSchema[i] \in CollectionItem
    BY TransactionFacts DEF Transaction, UpdateCollection, Transacts
  <1>2. /\ SchemaNow(i) = schema[c] /\ schema[c] # Absent
        /\ schema[c].revision = Request(i).expected
        /\ schema[c].recordCount = seenSchema[i].recordCount
    BY <1>1 DEF Conditions, UpdateCollectionConditions, SchemaNow, NothingCounted
  <1>3. /\ AcceptsSchema(i)
        /\ seenSchema[i].revision = Request(i).expected
        /\ ~Restructures(i, seenSchema[i])
    BY <1>1 DEF ChecksMade, Checked, IsStale
  <1>4. schema[c].schema = seenSchema[i].schema
    BY <1>1, <1>2, <1>3, CurrentSchema
  <1>5. Contract!ValidSchema(Request(i).schema, Policy(i).maxFields, Policy(i).allowed)
    <2>1. "schema" \in DOMAIN Request(i)
      BY <1>1, RequestKinds DEF UpdateCollectionRequests
    <2> QED
      BY <1>3, <2>1, SameCardinality DEF AcceptsSchema, ValidSchema, Contract!ValidSchema
  <1>6. Contract!RecordsOf(c) # {} =>
           Contract!Preserves(CollectionsNow[c].schema, Request(i).schema)
    <2> SUFFICES ASSUME Contract!RecordsOf(c) # {}
                 PROVE  Contract!Preserves(CollectionsNow[c].schema, Request(i).schema)
      OBVIOUS
    <2>1. Cardinality(RecordsIn(c)) # 0 /\ Cardinality(RecordsIn(c)) \in Nat
      BY <1>1, PartsMapping, FiniteParts, FS_EmptySet
    <2>2. seenSchema[i].recordCount > 0
      BY <1>1, <1>2, <2>1 DEF Counts, CountersExact, CollectionsIn
    <2>3. Preserves(seenSchema[i].schema, Request(i).schema)
      BY <1>3, <2>2 DEF Restructures
    <2>4. CollectionsNow[c].schema = seenSchema[i].schema
      BY <1>1, <1>2, <1>4, CollectionMapping
    <2> QED
      BY <2>3, <2>4 DEF Preserves, Contract!Preserves
  <1>7. /\ new \in CollectionItem /\ new.revision = Request(i).expected + 1
        /\ new.schema = Request(i).schema
    <2>1. Request(i).schema \in Schemas /\ NextRevision(i) \in Revisions
      BY <1>1, CollectionRequestFields, ExpectedRevision DEF NextRevision
    <2> QED
      BY <1>1, <2>1 DEF CollectionItem, NextRevision
  <1>8. CollectionsNow' = [CollectionsNow EXCEPT ![c] = [revision |-> Request(i).expected + 1,
                                                          schema |-> Request(i).schema]]
    <2>1. schema' = [schema EXCEPT ![c] = new]
      BY DEF UpdateCollection, PutSchema
    <2>2. CollectionsNow' = [CollectionsNow EXCEPT ![c] = [revision |-> new.revision,
                                                           schema |-> new.schema]]
      BY <1>1, <1>7, <2>1, MappedStep
    <2> QED
      BY <1>7, <2>2
  <1>9. CollectionsNow[c] # Absent /\ CollectionsNow[c].revision = Request(i).expected
    BY <1>1, <1>2, CollectionMapping
  <1> QED
    BY <1>5, <1>6, <1>8, <1>9 DEF UpdateCollection, Contract!UpdateCollection

LEMMA CreateRecordImplements ==
    ASSUME IInv, NEW i \in Invocations, CreateRecord(i)
    PROVE  Contract!CreateRecord(Request(i), Policy(i))
  <1> USE DEF IInv, TypeInv, TypeOK
  <1> DEFINE c == Request(i).collection
             counted == [seenSchema[i] EXCEPT !.recordCount = seenSchema[i].recordCount + 1]
  <1>1. /\ Transaction(i) /\ pc[i] = "transact" /\ Conditions(i)
        /\ Request(i).action = "createRecord"
        /\ Request(i) \in Requests /\ c \in Collections
        /\ seenSchema[i] \in CollectionItem
    BY TransactionFacts DEF Transaction, CreateRecord, Transacts
  <1>2. /\ SchemaNow(i) = schema[c] /\ schema[c] # Absent
        /\ schema[c].revision = seenSchema[i].revision
        /\ schema[c].recordCount = seenSchema[i].recordCount
        /\ record[Id(Request(i))] = Absent
    BY <1>1
    DEF Conditions, CreateRecordConditions, CollectionUnchanged, SchemaNow, RecordNow,
        NothingCounted
  <1>3. /\ AcceptsData(i, seenSchema[i])
        /\ seenSchema[i].recordCount < Policy(i).maxRecords
    BY <1>1 DEF ChecksMade, Checked
  <1>4. schema[c].schema = seenSchema[i].schema
    BY <1>1, <1>2, CurrentSchema
  <1>5. /\ CollectionsNow[c] # Absent
        /\ CollectionsNow[c].revision = seenSchema[i].revision
        /\ CollectionsNow[c].schema = seenSchema[i].schema
    BY <1>1, <1>2, <1>4, CollectionMapping
  <1>6. Contract!ValidRecord(CollectionsNow[c].schema, Request(i).data, Policy(i).maxBytes)
    BY <1>3, <1>5, SameCardinality
    DEF AcceptsData, ValidRecord, Conforms, Size, Contract!ValidRecord, Contract!Conforms,
        Contract!Size
  <1>7. Contract!Cardinality(Contract!RecordsOf(c)) < Policy(i).maxRecords
    BY <1>1, <1>2, <1>3, PartsMapping, SameCardinality DEF Counts, CountersExact, CollectionsIn
  <1>8. UNCHANGED CollectionsNow
    <2>1. /\ counted \in CollectionItem
          /\ counted.revision = CollectionsNow[c].revision
          /\ counted.schema = CollectionsNow[c].schema
      BY <1>1, <1>5 DEF CollectionItem
    <2>2. CollectionsNow' = [CollectionsNow EXCEPT ![c] = [revision |-> counted.revision,
                                                           schema |-> counted.schema]]
      BY <1>1, <2>1, MappedStep DEF CreateRecord
    <2>3. CollectionsNow[c] = [revision |-> counted.revision, schema |-> counted.schema]
      BY <1>1, <1>2, <1>5, <2>1 DEF CollectionsNow
    <2> QED
      BY <1>1, <2>2, <2>3 DEF CollectionsNow
  <1> QED
    BY <1>2, <1>5, <1>6, <1>7, <1>8
    DEF CreateRecord, PutRecord, NewRecord, Contract!CreateRecord, Contract!Id, Id

\* What the three mutations of a record have in common.
LEMMA EditFacts ==
    ASSUME IInv, NEW i \in Invocations, UpdateRecord(i) \/ Publish(i) \/ Unpublish(i)
    PROVE  /\ pc[i] = "transact"
           /\ Request(i).collection \in Collections /\ Id(Request(i)) \in RecordIds
           /\ seenRecord[i] = record[Id(Request(i))]
           /\ seenRecord[i] \in RecordItem
           /\ record[Id(Request(i))] # Absent
           /\ record[Id(Request(i))].revision = Request(i).expected
           /\ CollectionsNow[Request(i).collection] # Absent
           /\ CollectionsNow[Request(i).collection].revision = seenSchema[i].revision
           /\ CollectionsNow[Request(i).collection].schema = seenSchema[i].schema
           /\ UNCHANGED CollectionsNow
  <1> USE DEF IInv, TypeInv, TypeOK
  <1>1. Request(i).action \in {"updateRecord"} \cup Publications
    BY DEF UpdateRecord, Publish, Unpublish, Transacts, Publications
  <1>2. /\ pc[i] = "transact"
        /\ Request(i).collection \in Collections
        /\ seenSchema[i] \in CollectionItem /\ seenRecord[i] \in RecordItem
    BY <1>1, TransactionFacts DEF Transaction, Publications
  <1>3. /\ Id(Request(i)) \in RecordIds
        /\ RecordNow(i) # Absent /\ RecordNow(i).revision = Request(i).expected
        /\ SchemaNow(i) # Absent /\ SchemaNow(i).revision = seenSchema[i].revision
    BY EditTypes
  <1>4. seenRecord[i].revision = Request(i).expected
    BY <1>1, <1>2 DEF ChecksMade, Checked, IsStale
  <1>5. RecordNow(i) = seenRecord[i] /\ SchemaNow(i).schema = seenSchema[i].schema
    BY <1>2, <1>3, <1>4, CurrentRecord, CurrentSchema
  <1>6. schema' = schema
    BY DEF UpdateRecord, Publish, Unpublish
  <1> QED
    BY <1>2, <1>3, <1>5, <1>6, CollectionMapping DEF RecordNow, SchemaNow, CollectionsNow

LEMMA UpdateRecordImplements ==
    ASSUME IInv, NEW i \in Invocations, UpdateRecord(i)
    PROVE  Contract!UpdateRecord(Request(i), Policy(i))
  <1> DEFINE c == Request(i).collection
  <1>1. AcceptsData(i, seenSchema[i])
    BY EditFacts DEF IInv, ChecksMade, Checked, UpdateRecord, Transacts
  <1>2. Contract!ValidRecord(CollectionsNow[c].schema, Request(i).data, Policy(i).maxBytes)
    BY <1>1, EditFacts, SameCardinality
    DEF AcceptsData, ValidRecord, Conforms, Size, Contract!ValidRecord, Contract!Conforms,
        Contract!Size
  <1>3. record' = [record EXCEPT ![Id(Request(i))].revision = Request(i).expected + 1,
                                 ![Id(Request(i))].schemaRevision = CollectionsNow[c].revision,
                                 ![Id(Request(i))].data = Request(i).data]
    BY EditFacts DEF UpdateRecord, PutRecord, EditedRecord, NextRevision, IInv, TypeInv, TypeOK,
                     ItemsTypeOK, RecordItem
  <1> QED
    BY <1>2, <1>3, EditFacts DEF UpdateRecord, Contract!UpdateRecord, Contract!Id, Id

LEMMA PublishImplements ==
    ASSUME IInv, NEW i \in Invocations, Publish(i)
    PROVE  Contract!Publish(Request(i))
  <1> DEFINE c == Request(i).collection
             data == record[Id(Request(i))].data
  <1>1. StillConforms(i, seenSchema[i]) /\ DOMAIN Projection(i, seenSchema[i]) # {}
    BY EditFacts DEF IInv, ChecksMade, Checked, Publishes, Publish, Transacts
  <1>2. /\ Contract!Conforms(CollectionsNow[c].schema, data)
        /\ Contract!Project(CollectionsNow[c].schema, data) = Projection(i, seenSchema[i])
    BY <1>1, EditFacts
    DEF StillConforms, Projection, Conforms, Project, PublicFields, Contract!Conforms,
        Contract!Project, Contract!PublicFields
  <1>3. record' = [record EXCEPT ![Id(Request(i))].revision = Request(i).expected + 1,
                                 ![Id(Request(i))].status = "published",
                                 ![Id(Request(i))].publishedRevision = Request(i).expected + 1]
    BY EditFacts DEF Publish, PutRecord, PublishedRecord, NextRevision, IInv, TypeInv, TypeOK,
                     ItemsTypeOK, RecordItem
  <1>4. public' = [public EXCEPT ![Id(Request(i))] =
                     [revision |-> Request(i).expected + 1,
                      sourceRevision |-> Request(i).expected,
                      schemaRevision |-> CollectionsNow[c].revision,
                      data |-> Contract!Project(CollectionsNow[c].schema, data)]]
    BY <1>2, EditFacts DEF Publish, PublicEntry, NextRevision
  <1> QED
    BY <1>1, <1>2, <1>3, <1>4, EditFacts DEF Contract!Publish, Contract!Id, Id

LEMMA UnpublishImplements ==
    ASSUME IInv, NEW i \in Invocations, Unpublish(i)
    PROVE  Contract!Unpublish(Request(i))
  <1>1. record' = [record EXCEPT ![Id(Request(i))].revision = Request(i).expected + 1,
                                 ![Id(Request(i))].status = "draft",
                                 ![Id(Request(i))].publishedRevision = 0]
    BY EditFacts DEF Unpublish, PutRecord, UnpublishedRecord, NextRevision, IInv, TypeInv,
                     TypeOK, ItemsTypeOK, RecordItem
  <1> QED
    BY <1>1, EditFacts DEF Unpublish, Withdrawn, Contract!Unpublish, Contract!Id, Id

-----------------------------------------------------------------------------
\* What a transaction does is the mutation of its own call, under the policy of
\* its own call.
LEMMA TransactionPerforms ==
    ASSUME IInv, NEW i \in Invocations, Transaction(i)
    PROVE  Contract!Perform(Request(i), Policy(i))
  BY CreateCollectionImplements, UpdateCollectionImplements, CreateRecordImplements,
     UpdateRecordImplements, PublishImplements, UnpublishImplements
  DEF Transaction, Contract!Perform, Request, Policy, Transacts, CreateCollection,
      UpdateCollection, CreateRecord, UpdateRecord, Publish, Unpublish

\* The store implements the contract: each transaction is a mutation of the
\* contract for a call that a client made, and no other step is visible.
\* Every check of storage.py that precedes its transaction, the limits and the
\* expected revision among them, therefore holds when the mutation takes effect.
THEOREM Implementation == Spec => ImplementsContract
  <1>1. Init => Contract!Init
    BY DEF Init, Contract!Init, CollectionsNow, Contract!RecordIds, RecordIds
  <1>2. IInv /\ [Next]_vars => [Contract!Next]_(Contract!vars)
    <2> SUFFICES ASSUME IInv, [Next]_vars PROVE [Contract!Next]_(Contract!vars)
      OBVIOUS
    <2>1. ASSUME NEW i \in Invocations, Transaction(i)
          PROVE  Contract!Next
      <3>1. call[i] \in Calls
        BY <2>1, TransactionFacts DEF IInv
      <3>2. Contract!Perform(call[i].request, call[i].policy)
        BY <2>1, TransactionPerforms DEF Request, Policy
      <3> QED
        BY <3>1, <3>2 DEF Contract!Next
    <2>2. UNCHANGED items => UNCHANGED Contract!vars
      BY DEF items, Contract!vars, CollectionsNow
    <2>3. ASSUME NEW i \in Invocations, Invoke(i), ~Transaction(i)
          PROVE  UNCHANGED Contract!vars
      BY <2>2, <2>3, ReadIsLocal DEF IInv
    <2>4. CASE Tick \/ (\E k \in Keys : ExpireReceipt(k)) \/ UNCHANGED vars
      BY <2>2, <2>4 DEF Tick, ExpireReceipt, vars, table
    <2> QED
      BY <2>1, <2>3, <2>4 DEF Next
  <1> QED
    BY <1>1, <1>2, InvariantHolds, PTL DEF Spec, ImplementsContract, Contract!Spec
=============================================================================
