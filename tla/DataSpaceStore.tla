--------------------------- MODULE DataSpaceStore ---------------------------
(***************************************************************************)
(* DataSpaceStore of storage.py over one partition of the table, run by    *)
(* concurrent Lambda invocations of the protected action handler.          *)
(*                                                                         *)
(* A mutation is a sequence of separate calls to DynamoDB: the GET of its  *)
(* receipt, one or two consistent GETs of the items it depends on, and one *)
(* conditional transaction.  Other invocations run between any two of      *)
(* them.  An invocation may be killed at any point, a call to DynamoDB may *)
(* fail, and the answer of a transaction that took effect may be lost.     *)
(***************************************************************************)
EXTENDS DataSpaceItems

CONSTANTS
    Invocations,    \* Lambda invocations that may be running at one time
    ReceiptTTL,     \* IDEMPOTENCY_TTL_SECONDS
    Timeout,        \* the longest an invocation runs (template.yaml, Timeout)
    MaxClock        \* bound on the clock

\* A Lambda invocation is over long before a receipt it wrote expires.
ASSUME TimesAssumption ==
    /\ ReceiptTTL \in Nat /\ Timeout \in Nat /\ MaxClock \in Nat
    /\ Timeout < ReceiptTTL

VARIABLES
    \* The table.
    space,          \* collectionCount of the SPACE item, or Absent
    schema,         \* SCHEMA items by collection
    schemaRev,      \* SCHEMA_REV items by collection and revision
    record,         \* RECORD items by record id
    recordRev,      \* RECORD_REV items by record id and revision
    public,         \* PUBLIC items by record id
    receipt,        \* IDEMPOTENCY items by key
    audit,          \* the AUDIT items
    \* The invocations.
    pc,             \* the next call of the invocation to the table
    call,           \* the call it serves
    since,          \* now_epoch: the time at which it started
    seenSpace,      \* the SPACE item it read
    seenSchema,     \* the SCHEMA item it read
    seenRecord,     \* the RECORD item it read
    reply,          \* its answer
    \* The environment.
    clock,          \* the time, in seconds
    applied         \* auxiliary: the mutations whose transaction took effect

items == <<space, schema, schemaRev, record, recordRev, public>>
table == <<items, receipt, audit>>
snapshots == <<seenSpace, seenSchema, seenRecord>>
local == <<pc, call, since, snapshots, reply>>
vars == <<table, local, clock, applied>>

Request(i) == call[i].request
Policy(i) == call[i].policy

Steps == {"idle", "receipt", "space", "schema", "record", "transact", "done"}

\* The steps at which an invocation is running.
Running(i) == pc[i] \notin {"idle", "done"}

\* conflict 409, not_found 404, validation_error 400, internal_error 500.
Refusals == {"conflict", "not_found", "validation_error", "internal_error"}

Receipts == [request : Requests, result : Results, expiresAt : Nat]

\* Absent is told apart from every receipt.
ASSUME AbsentIsNoReceipt == Absent \notin Receipts

Replies ==
    [status : {"ok"}, result : Results] \cup [status : Refusals]

\* What the auxiliary variable applied records of a committed transaction.
Mutations == [key : Keys, request : Requests, at : Nat]

AuditItems == [at : Nat, key : Keys, action : {r.action : r \in Requests}, actor : Actors]

-----------------------------------------------------------------------------
(* Initial state: an empty partition and no invocation.                    *)

Init ==
    /\ space = Absent
    /\ schema = [c \in Collections |-> Absent]
    /\ schemaRev = [c \in Collections |-> [n \in Revisions |-> Absent]]
    /\ record = [id \in RecordIds |-> Absent]
    /\ recordRev = [id \in RecordIds |-> [n \in Revisions |-> Absent]]
    /\ public = [id \in RecordIds |-> Absent]
    /\ receipt = [k \in Keys |-> Absent]
    /\ audit = {}
    /\ pc = [i \in Invocations |-> "idle"]
    /\ call = [i \in Invocations |-> Absent]
    /\ since = [i \in Invocations |-> 0]
    /\ seenSpace = [i \in Invocations |-> Absent]
    /\ seenSchema = [i \in Invocations |-> Absent]
    /\ seenRecord = [i \in Invocations |-> Absent]
    /\ reply = [i \in Invocations |-> Absent]
    /\ clock = 0
    /\ applied = {}

-----------------------------------------------------------------------------
(* The course of an invocation.                                            *)

At(i, step) == pc[i] = step

Goto(i, step) == pc' = [pc EXCEPT ![i] = step]

\* What the invocation read is gone when its answer is decided.
Forget(i) ==
    /\ seenSpace' = [seenSpace EXCEPT ![i] = Absent]
    /\ seenSchema' = [seenSchema EXCEPT ![i] = Absent]
    /\ seenRecord' = [seenRecord EXCEPT ![i] = Absent]

Answer(i, answer) ==
    /\ Goto(i, "done")
    /\ reply' = [reply EXCEPT ![i] = answer]
    /\ Forget(i)
    /\ UNCHANGED <<call, since>>

\* An exception: nothing is written, error_response answers its code.
Refuse(i, code) ==
    /\ Answer(i, [status |-> code])
    /\ UNCHANGED <<table, clock, applied>>

\* Continue with the next call to the table.
Continue(i, step) ==
    /\ Goto(i, step)
    /\ UNCHANGED <<table, call, since, reply, clock, applied>>

\* The handler resolves the policy of the call, reads the time and calls
\* the store.
Begin(i) ==
    /\ At(i, "idle")
    /\ \E m \in Calls : call' = [call EXCEPT ![i] = m]
    /\ since' = [since EXCEPT ![i] = clock]
    /\ Goto(i, "receipt")
    /\ UNCHANGED <<table, snapshots, reply, clock, applied>>

\* The answer reaches the client, or does not: the invocation is over.
Return(i) ==
    /\ At(i, "done")
    /\ Goto(i, "idle")
    /\ call' = [call EXCEPT ![i] = Absent]
    /\ since' = [since EXCEPT ![i] = 0]
    /\ reply' = [reply EXCEPT ![i] = Absent]
    /\ UNCHANGED <<table, snapshots, clock, applied>>

-----------------------------------------------------------------------------
(* _replay, and the schema check that precedes the reads.                  *)

Existing(i) == receipt[call[i].key]

\* A variant of IsReplay that does not compare the request hashes.
AnyReceipt(i) == Existing(i) # Absent

\* The receipt found under the key is that of the same request.
IsReplay(i) == Existing(i) # Absent /\ Existing(i).request = Request(i)

\* The stored result answers a call that was already applied.
Replay(i) ==
    /\ At(i, "receipt")
    /\ IsReplay(i)
    /\ Answer(i, [status |-> "ok", result |-> Existing(i).result])
    /\ UNCHANGED <<table, clock, applied>>

RefuseKeyReuse(i) ==
    /\ At(i, "receipt")
    /\ Existing(i) # Absent
    /\ ~IsReplay(i)
    /\ Refuse(i, "conflict")

\* validate_schema runs before any item is read.
AcceptsSchema(i) ==
    "schema" \in DOMAIN Request(i) =>
        ValidSchema(Request(i).schema, Policy(i).maxFields, Policy(i).allowed)

\* A variant of RefuseSchema: a call is validated before it is replayed.
ValidateFirst(i) ==
    /\ At(i, "receipt")
    /\ ~AcceptsSchema(i)
    /\ Refuse(i, "validation_error")

RefuseSchema(i) ==
    /\ At(i, "receipt")
    /\ Existing(i) = Absent
    /\ ~AcceptsSchema(i)
    /\ Refuse(i, "validation_error")

\* The first item that a request reads.
FirstRead(action) ==
    CASE action = "createCollection" -> "space"
      [] action \in {"updateCollection", "createRecord", "updateRecord"} -> "schema"
      [] OTHER -> "record"

Proceed(i) ==
    /\ At(i, "receipt")
    /\ Existing(i) = Absent
    /\ AcceptsSchema(i)
    /\ Continue(i, FirstRead(Request(i).action))
    /\ UNCHANGED snapshots

-----------------------------------------------------------------------------
(* The reads and the checks each operation makes on what it read.          *)

Reads(i, step, actions) == At(i, step) /\ Request(i).action \in actions

SchemaNow(i) == schema[Request(i).collection]
RecordNow(i) == record[Id(Request(i))]

RememberSpace(i) ==
    /\ seenSpace' = [seenSpace EXCEPT ![i] = space]
    /\ UNCHANGED <<seenSchema, seenRecord>>

RememberSchema(i) ==
    /\ seenSchema' = [seenSchema EXCEPT ![i] = SchemaNow(i)]
    /\ UNCHANGED <<seenSpace, seenRecord>>

RememberRecord(i) ==
    /\ seenRecord' = [seenRecord EXCEPT ![i] = RecordNow(i)]
    /\ UNCHANGED <<seenSpace, seenSchema>>

\* _get: the item is not there.
NotFound(i) ==
    /\ \/ At(i, "schema") /\ SchemaNow(i) = Absent
       \/ At(i, "record") /\ RecordNow(i) = Absent
    /\ Refuse(i, "not_found")

\* space.get("collectionCount", 0) if space else 0.
CollectionCount(item) == IF item = Absent THEN 0 ELSE item

CreateCollectionRead(i) ==
    /\ Reads(i, "space", {"createCollection"})
    /\ \/ /\ CollectionCount(space) >= Policy(i).maxCollections
          /\ Refuse(i, "validation_error")
       \/ /\ CollectionCount(space) < Policy(i).maxCollections
          /\ RememberSpace(i)
          /\ Continue(i, "transact")

\* A variant of IsStale: the last writer wins.
NeverStale(i, item) == FALSE

IsStale(i, item) == item.revision # Request(i).expected

\* The new schema does not preserve the fields that records already use.
Restructures(i, item) ==
    /\ item.recordCount > 0
    /\ ~Preserves(item.schema, Request(i).schema)

UpdateCollectionRead(i) ==
    /\ Reads(i, "schema", {"updateCollection"})
    /\ SchemaNow(i) # Absent
    /\ \/ /\ IsStale(i, SchemaNow(i))
          /\ Refuse(i, "conflict")
       \/ /\ ~IsStale(i, SchemaNow(i))
          /\ Restructures(i, SchemaNow(i))
          /\ Refuse(i, "conflict")
       \/ /\ ~IsStale(i, SchemaNow(i))
          /\ ~Restructures(i, SchemaNow(i))
          /\ RememberSchema(i)
          /\ Continue(i, "transact")

AcceptsData(i, item) == ValidRecord(item.schema, Request(i).data, Policy(i).maxBytes)

\* A variant of HasRoom: the limit itself is still taken for room.
HasRoomAtLimit(i, item) == item.recordCount <= Policy(i).maxRecords

\* The policy that the invocation resolved allows one record more.
HasRoom(i, item) == item.recordCount < Policy(i).maxRecords

CreateRecordRead(i) ==
    /\ Reads(i, "schema", {"createRecord"})
    /\ SchemaNow(i) # Absent
    /\ \/ /\ ~AcceptsData(i, SchemaNow(i))
          /\ Refuse(i, "validation_error")
       \/ /\ AcceptsData(i, SchemaNow(i))
          /\ ~HasRoom(i, SchemaNow(i))
          /\ Refuse(i, "validation_error")
       \/ /\ AcceptsData(i, SchemaNow(i))
          /\ HasRoom(i, SchemaNow(i))
          /\ RememberSchema(i)
          /\ Continue(i, "transact")

UpdateRecordReadSchema(i) ==
    /\ Reads(i, "schema", {"updateRecord"})
    /\ SchemaNow(i) # Absent
    /\ RememberSchema(i)
    /\ Continue(i, "record")

UpdateRecordReadRecord(i) ==
    /\ Reads(i, "record", {"updateRecord"})
    /\ RecordNow(i) # Absent
    /\ \/ /\ ~AcceptsData(i, seenSchema[i])
          /\ Refuse(i, "validation_error")
       \/ /\ AcceptsData(i, seenSchema[i])
          /\ IsStale(i, RecordNow(i))
          /\ Refuse(i, "conflict")
       \/ /\ AcceptsData(i, seenSchema[i])
          /\ ~IsStale(i, RecordNow(i))
          /\ RememberRecord(i)
          /\ Continue(i, "transact")

Publications == {"publishRecord", "unpublishRecord"}

PublicationReadRecord(i) ==
    /\ Reads(i, "record", Publications)
    /\ RecordNow(i) # Absent
    /\ RememberRecord(i)
    /\ Continue(i, "schema")

Publishes(i) == Request(i).action = "publishRecord"

Projection(i, item) == Project(item.schema, seenRecord[i].data)

\* The record still fits the schema, which may have new required fields.
StillConforms(i, item) == Conforms(item.schema, seenRecord[i].data)

PublicationReadSchema(i) ==
    /\ Reads(i, "schema", Publications)
    /\ SchemaNow(i) # Absent
    /\ \/ /\ IsStale(i, seenRecord[i])
          /\ Refuse(i, "conflict")
       \/ /\ ~IsStale(i, seenRecord[i])
          /\ Publishes(i) /\ ~StillConforms(i, SchemaNow(i))
          /\ Refuse(i, "validation_error")
       \/ /\ ~IsStale(i, seenRecord[i])
          /\ Publishes(i) /\ StillConforms(i, SchemaNow(i))
          /\ DOMAIN Projection(i, SchemaNow(i)) = {}
          /\ Refuse(i, "conflict")
       \/ /\ ~IsStale(i, seenRecord[i])
          /\ Publishes(i) => /\ StillConforms(i, SchemaNow(i))
                             /\ DOMAIN Projection(i, SchemaNow(i)) # {}
          /\ RememberSchema(i)
          /\ Continue(i, "transact")

-----------------------------------------------------------------------------
(* The conditions of each transaction, evaluated when it is applied.       *)

\* A variant of Unclaimed: the receipt is put without a condition.
AlwaysUnclaimed(i) == TRUE

\* Every transaction puts its receipt on the condition that none is there.
Unclaimed(i) == Existing(i) = Absent

CollectionUnchanged(i) ==
    /\ SchemaNow(i) # Absent
    /\ SchemaNow(i).revision = seenSchema[i].revision

\* A variant of NothingCounted: only the revision is compared.
AnyRecordCount(i) == TRUE

\* No record was created in the collection since it was read.
NothingCounted(i) == SchemaNow(i).recordCount = seenSchema[i].recordCount

CreateCollectionConditions(i) ==
    /\ space = seenSpace[i]
    /\ SchemaNow(i) = Absent
    /\ schemaRev[Request(i).collection][1] = Absent

NextRevision(i) == Request(i).expected + 1

\* A variant of UpdateCollectionConditions: the last writer wins.
AnyCollection(i) == SchemaNow(i) # Absent

UpdateCollectionConditions(i) ==
    /\ SchemaNow(i) # Absent
    /\ SchemaNow(i).revision = Request(i).expected
    /\ NothingCounted(i)
    /\ schemaRev[Request(i).collection][NextRevision(i)] = Absent

CreateRecordConditions(i) ==
    /\ CollectionUnchanged(i) /\ NothingCounted(i)
    /\ RecordNow(i) = Absent
    /\ recordRev[Id(Request(i))][1] = Absent

\* A variant of SchemaUnchanged: the ConditionCheck is left out.
AnySchema(i) == SchemaNow(i) # Absent

\* The ConditionCheck on the schema that the data was validated against.
SchemaUnchanged(i) == CollectionUnchanged(i)

\* A variant of RecordUnchanged: the record is put without its conditions.
AnyRecord(i) == RecordNow(i) # Absent

\* The record is still at the expected revision, and has no next one.
RecordUnchanged(i) ==
    /\ RecordNow(i) # Absent
    /\ RecordNow(i).revision = Request(i).expected
    /\ recordRev[Id(Request(i))][NextRevision(i)] = Absent

\* The conditions of updateRecord, publishRecord and unpublishRecord.
RevisionConditions(i) == SchemaUnchanged(i) /\ RecordUnchanged(i)

Conditions(i) ==
    /\ Unclaimed(i)
    /\ Request(i).action = "createCollection" => CreateCollectionConditions(i)
    /\ Request(i).action = "updateCollection" => UpdateCollectionConditions(i)
    /\ Request(i).action = "createRecord" => CreateRecordConditions(i)
    /\ Request(i).action \in {"updateRecord"} \cup Publications => RevisionConditions(i)

-----------------------------------------------------------------------------
(* The items each transaction writes, all of them or none.                 *)

Transacts(i, action) ==
    /\ At(i, "transact")
    /\ Request(i).action = action
    /\ Conditions(i)

CollectionResult(i, n) == [collection |-> Request(i).collection, revision |-> n]

RecordResult(i, item) ==
    [collection |-> Request(i).collection, record |-> Request(i).record,
     revision |-> item.revision, status |-> item.status]

\* A variant of Expiry: the receipt expires as soon as it is written.
NoLifetime(i) == since[i]

Expiry(i) == since[i] + ReceiptTTL

\* AUDIT#{timestamp}#{requestId}, put without a condition: an entry of the
\* same second and key would be replaced.
AuditEntry(i) ==
    [at |-> since[i], key |-> call[i].key,
     action |-> Request(i).action, actor |-> Request(i).actor]

PutAudit(i) ==
    audit' = {a \in audit : <<a.at, a.key>> # <<since[i], call[i].key>>}
                 \cup {AuditEntry(i)}

\* The audit entry and the receipt that end every transaction.  When the
\* acknowledgement is lost the client is told that the service failed.
Settle(i, result) ==
    /\ PutAudit(i)
    /\ receipt' = [receipt EXCEPT ![call[i].key] =
                     [request |-> Request(i), result |-> result, expiresAt |-> Expiry(i)]]
    /\ applied' = applied \cup
                    {[key |-> call[i].key, request |-> Request(i), at |-> since[i]]}
    /\ \/ Answer(i, [status |-> "ok", result |-> result])
       \/ Answer(i, [status |-> "internal_error"])
    /\ UNCHANGED clock

PutSchema(i, item) ==
    /\ schema' = [schema EXCEPT ![Request(i).collection] = item]
    /\ schemaRev' = [schemaRev EXCEPT ![Request(i).collection][item.revision] =
                       [revision |-> item.revision, schema |-> item.schema]]

PutRecord(i, item) ==
    /\ record' = [record EXCEPT ![Id(Request(i))] = item]
    /\ recordRev' = [recordRev EXCEPT ![Id(Request(i))][item.revision] = item]

CreateCollection(i) ==
    /\ Transacts(i, "createCollection")
    /\ space' = CollectionCount(seenSpace[i]) + 1
    /\ PutSchema(i, [revision |-> 1, recordCount |-> 0, schema |-> Request(i).schema])
    /\ Settle(i, CollectionResult(i, 1))
    /\ UNCHANGED <<record, recordRev, public>>

UpdateCollection(i) ==
    /\ Transacts(i, "updateCollection")
    /\ PutSchema(i, [seenSchema[i] EXCEPT !.revision = NextRevision(i),
                                          !.schema = Request(i).schema])
    /\ Settle(i, CollectionResult(i, NextRevision(i)))
    /\ UNCHANGED <<space, record, recordRev, public>>

\* A variant of NewRecord: the schema revision is taken from the wrong attribute.
MisnumberedRecord(i) ==
    [revision |-> 1, schemaRevision |-> seenSchema[i].recordCount,
     status |-> "draft", publishedRevision |-> 0, data |-> Request(i).data]

NewRecord(i) ==
    [revision |-> 1, schemaRevision |-> seenSchema[i].revision,
     status |-> "draft", publishedRevision |-> 0, data |-> Request(i).data]

\* The whole collection item that was read is put back, with one record more.
CreateRecord(i) ==
    /\ Transacts(i, "createRecord")
    /\ schema' = [schema EXCEPT ![Request(i).collection] =
                    [seenSchema[i] EXCEPT !.recordCount = seenSchema[i].recordCount + 1]]
    /\ PutRecord(i, NewRecord(i))
    /\ Settle(i, RecordResult(i, NewRecord(i)))
    /\ UNCHANGED <<space, schemaRev, public>>

\* A variant of EditedRecord: the schema revision of the record as it was read.
EditedInPlace(i) ==
    [seenRecord[i] EXCEPT !.revision = NextRevision(i), !.data = Request(i).data]

\* The record that was read with the new data; status, publishedRevision and
\* the public item stay as they are.
EditedRecord(i) ==
    [seenRecord[i] EXCEPT !.revision = NextRevision(i),
                          !.schemaRevision = seenSchema[i].revision,
                          !.data = Request(i).data]

UpdateRecord(i) ==
    /\ Transacts(i, "updateRecord")
    /\ PutRecord(i, EditedRecord(i))
    /\ Settle(i, RecordResult(i, EditedRecord(i)))
    /\ UNCHANGED <<space, schema, schemaRev, public>>

PublishedRecord(i) ==
    [seenRecord[i] EXCEPT !.revision = NextRevision(i),
                          !.status = "published",
                          !.publishedRevision = NextRevision(i)]

PublicEntry(i) ==
    [revision |-> NextRevision(i), sourceRevision |-> Request(i).expected,
     schemaRevision |-> seenSchema[i].revision,
     data |-> Projection(i, seenSchema[i])]

Publish(i) ==
    /\ Transacts(i, "publishRecord")
    /\ PutRecord(i, PublishedRecord(i))
    /\ public' = [public EXCEPT ![Id(Request(i))] = PublicEntry(i)]
    /\ Settle(i, RecordResult(i, PublishedRecord(i)))
    /\ UNCHANGED <<space, schema, schemaRev>>

UnpublishedRecord(i) ==
    [seenRecord[i] EXCEPT !.revision = NextRevision(i),
                          !.status = "draft",
                          !.publishedRevision = 0]

Withdrawn(i) == [public EXCEPT ![Id(Request(i))] = Absent]

Unpublish(i) ==
    /\ Transacts(i, "unpublishRecord")
    /\ PutRecord(i, UnpublishedRecord(i))
    /\ public' = Withdrawn(i)
    /\ Settle(i, RecordResult(i, UnpublishedRecord(i)))
    /\ UNCHANGED <<space, schema, schemaRev>>

\* ConditionalWriteFailed, raised again as StorageConflict.
ConditionFailed(i) ==
    /\ At(i, "transact")
    /\ ~Conditions(i)
    /\ Refuse(i, "conflict")

-----------------------------------------------------------------------------
(* Failures and time.                                                      *)

\* A call to DynamoDB fails without effect: throttling, a timeout, or a
\* transaction cancelled because another one touches the same items.
BackendError(i) ==
    /\ Running(i)
    /\ Refuse(i, "internal_error")

\* Lambda kills the invocation; the client gets no answer of this service.
Crash(i) ==
    /\ Running(i)
    /\ Goto(i, "idle")
    /\ call' = [call EXCEPT ![i] = Absent]
    /\ since' = [since EXCEPT ![i] = 0]
    /\ Forget(i)
    /\ UNCHANGED <<table, reply, clock, applied>>

\* Time passes; no invocation runs for longer than the Lambda timeout.
Tick ==
    /\ clock < MaxClock
    /\ \A i \in Invocations : Running(i) => clock < since[i] + Timeout
    /\ clock' = clock + 1
    /\ UNCHANGED <<table, local, applied>>

\* DynamoDB deletes an expired receipt, sooner or later.
ExpireReceipt(k) ==
    /\ receipt[k] # Absent
    /\ receipt[k].expiresAt < clock
    /\ receipt' = [receipt EXCEPT ![k] = Absent]
    /\ UNCHANGED <<items, audit, local, clock, applied>>

-----------------------------------------------------------------------------
Invoke(i) ==
    \/ Begin(i) \/ Return(i)
    \/ Replay(i) \/ RefuseKeyReuse(i) \/ RefuseSchema(i) \/ Proceed(i)
    \/ NotFound(i)
    \/ CreateCollectionRead(i) \/ CreateCollection(i)
    \/ UpdateCollectionRead(i) \/ UpdateCollection(i)
    \/ CreateRecordRead(i) \/ CreateRecord(i)
    \/ UpdateRecordReadSchema(i) \/ UpdateRecordReadRecord(i) \/ UpdateRecord(i)
    \/ PublicationReadRecord(i) \/ PublicationReadSchema(i)
    \/ Publish(i) \/ Unpublish(i)
    \/ ConditionFailed(i) \/ BackendError(i) \/ Crash(i)

Next ==
    \/ \E i \in Invocations : Invoke(i)
    \/ Tick
    \/ \E k \in Keys : ExpireReceipt(k)

Spec == Init /\ [][Next]_vars

-----------------------------------------------------------------------------
(* Properties.                                                             *)

OrAbsent(S) == S \cup {Absent}

ItemsTypeOK ==
    /\ space \in OrAbsent(Nat)
    /\ schema \in [Collections -> OrAbsent(CollectionItem)]
    /\ schemaRev \in [Collections -> [Revisions -> OrAbsent(CollectionRevisionItem)]]
    /\ record \in [RecordIds -> OrAbsent(RecordItem)]
    /\ recordRev \in [RecordIds -> [Revisions -> OrAbsent(RecordItem)]]
    /\ public \in [RecordIds -> OrAbsent(PublicItem)]

JournalTypeOK ==
    /\ receipt \in [Keys -> OrAbsent(Receipts)]
    /\ audit \subseteq AuditItems
    /\ applied \subseteq Mutations
    /\ clock \in Nat

InvocationsTypeOK ==
    /\ pc \in [Invocations -> Steps]
    /\ call \in [Invocations -> OrAbsent(Calls)]
    /\ since \in [Invocations -> Nat]
    /\ seenSpace \in [Invocations -> OrAbsent(Nat)]
    /\ seenSchema \in [Invocations -> OrAbsent(CollectionItem)]
    /\ seenRecord \in [Invocations -> OrAbsent(RecordItem)]
    /\ reply \in [Invocations -> OrAbsent(Replies)]

\* Every item and every variable of an invocation has its type; revisions
\* stay within the bound of the requests.
TypeOK == ItemsTypeOK /\ JournalTypeOK /\ InvocationsTypeOK

\* An invocation that is about to use an item has read it: the fact that
\* makes the types inductive.
SnapshotsThere ==
    \A i \in Invocations :
        /\ pc[i] # "idle" => call[i] # Absent
        /\ pc[i] = "transact" /\ Request(i).action # "createCollection" =>
             seenSchema[i] # Absent
        /\ pc[i] \in {"record", "transact"} /\ Request(i).action = "updateRecord" =>
             seenSchema[i] # Absent
        /\ pc[i] = "transact" /\ Request(i).action = "updateRecord" =>
             seenRecord[i] # Absent
        /\ pc[i] \in {"schema", "transact"} /\ Request(i).action \in Publications =>
             seenRecord[i] # Absent

CollectionsIn == {c \in Collections : schema[c] # Absent}

RecordsIn(c) == {r \in Records : record[c, r] # Absent}

\* The counters that stand for the limits are exact, whatever interleaving
\* of creations and schema updates wrote them back from a snapshot.
CountersExact ==
    /\ CollectionCount(space) = Cardinality(CollectionsIn)
    /\ \A c \in CollectionsIn : schema[c].recordCount = Cardinality(RecordsIn(c))

\* A collection is never removed, so that a record always has one.
RecordsHaveCollections ==
    \A c \in Collections, r \in Records : record[c, r] # Absent => schema[c] # Absent

\* An item whose revision is the one that was read has the content that was
\* read; an invocation that is over remembers nothing.
SnapshotTrue(i) ==
    /\ pc[i] \in {"idle", "done"} => seenSchema[i] = Absent /\ seenRecord[i] = Absent
    /\ seenSchema[i] # Absent =>
         /\ SchemaNow(i) # Absent
         /\ seenSchema[i].revision <= SchemaNow(i).revision
         /\ seenSchema[i].revision = SchemaNow(i).revision =>
              seenSchema[i].schema = SchemaNow(i).schema
    /\ seenRecord[i] # Absent =>
         /\ Request(i).action \in {"updateRecord"} \cup Publications
         /\ RecordNow(i) # Absent
         /\ seenRecord[i].revision <= RecordNow(i).revision
         /\ seenRecord[i].revision = RecordNow(i).revision => seenRecord[i] = RecordNow(i)

\* The conditions compare revisions only: what was validated is nevertheless
\* what is there, for no revision is ever given to two contents (no ABA).
SnapshotsTrue == \A i \in Invocations : SnapshotTrue(i)

\* A transaction is sent only after the checks of its operation have passed,
\* on what was read.
Checked(i) ==
    /\ Request(i).action = "createCollection" =>
         CollectionCount(seenSpace[i]) < Policy(i).maxCollections
    /\ Request(i).action = "updateCollection" =>
         ~IsStale(i, seenSchema[i]) /\ ~Restructures(i, seenSchema[i])
    /\ Request(i).action = "createRecord" =>
         /\ AcceptsData(i, seenSchema[i])
         /\ seenSchema[i].recordCount < Policy(i).maxRecords
    /\ Request(i).action = "updateRecord" =>
         AcceptsData(i, seenSchema[i]) /\ ~IsStale(i, seenRecord[i])
    /\ Request(i).action \in Publications => ~IsStale(i, seenRecord[i])
    /\ Publishes(i) => /\ StillConforms(i, seenSchema[i])
                       /\ DOMAIN Projection(i, seenSchema[i]) # {}

ChecksMade ==
    \A i \in Invocations :
        /\ pc[i] \in {"space", "schema", "record", "transact"} => AcceptsSchema(i)
        /\ pc[i] = "transact" => Checked(i)

\* README, "schema evolution is additive": no public item retains a field
\* that the current schema no longer defines, or classifies internal, or
\* a value that its type no longer accepts.
PublicFieldsStillPublic ==
    \A c \in Collections, r \in Records :
        public[c, r] # Absent =>
            /\ schema[c] # Absent
            /\ \A f \in DOMAIN public[c, r].data :
                  /\ f \in DOMAIN schema[c].schema
                  /\ schema[c].schema[f].classification = "public"
                  /\ public[c, r].data[f] \in schema[c].schema[f].accepts

\* A record has a public item exactly while its status is published; that
\* item is the projection, by the schema revision it names, of the record
\* revision it names, and the record names it as its published revision.
PublicationMatchesRecord ==
    \A c \in Collections, r \in Records :
        LET item == record[c, r]
            pub  == public[c, r]
        IN  /\ pub # Absent <=> item # Absent /\ item.status = "published"
            /\ pub # Absent =>
                 /\ item.publishedRevision = pub.revision
                 /\ pub.revision = pub.sourceRevision + 1
                 /\ pub.revision <= item.revision
                 /\ pub.data = Project(schemaRev[c][pub.schemaRevision].schema,
                                       recordRev[c, r][pub.sourceRevision].data)

\* SCHEMA_REV and RECORD_REV hold every revision up to the current one and no
\* other, the last of them equal to the current item.
HistoryComplete ==
    /\ \A c \in Collections, n \in Revisions :
          /\ schemaRev[c][n] # Absent <=> schema[c] # Absent /\ n <= schema[c].revision
          /\ schema[c] # Absent /\ n = schema[c].revision =>
               schemaRev[c][n] = [revision |-> n, schema |-> schema[c].schema]
    /\ \A id \in RecordIds, n \in Revisions :
          /\ recordRev[id][n] # Absent <=> record[id] # Absent /\ n <= record[id].revision
          /\ record[id] # Absent /\ n = record[id].revision => recordRev[id][n] = record[id]

\* Every record revision fits the schema revision that it names.
RevisionsConform ==
    \A c \in Collections, r \in Records, n \in Revisions :
        recordRev[c, r][n] # Absent =>
            LET schemaThen == schemaRev[c][recordRev[c, r][n].schemaRevision]
            IN  schemaThen # Absent /\ Conforms(schemaThen.schema, recordRev[c, r][n].data)

\* The mutations applied to a collection's schema, and to a record.
AppliedToSchema(c) ==
    {m \in applied : m.request.action \in {"createCollection", "updateCollection"}
                        /\ m.request.collection = c}

AppliedToRecord(id) ==
    {m \in applied : m.request.action \notin {"createCollection", "updateCollection"}
                        /\ Id(m.request) = id}

\* No update is lost: each revision of a schema or a record is the effect of
\* one mutation of its own.
NoLostUpdate ==
    /\ \A c \in CollectionsIn : schema[c].revision = Cardinality(AppliedToSchema(c))
    /\ \A id \in RecordIds :
          record[id] # Absent => record[id].revision = Cardinality(AppliedToRecord(id))

\* A revision that was written is never written again, nor removed.
HistoryImmutable ==
    [][/\ \A c \in Collections, n \in Revisions :
             schemaRev[c][n] # Absent => schemaRev'[c][n] = schemaRev[c][n]
       /\ \A id \in RecordIds, n \in Revisions :
             recordRev[id][n] # Absent => recordRev'[id][n] = recordRev[id][n]]_vars

\* A request takes effect at most once, under whatever key, retried before
\* or after its receipt has expired.
AppliedAtMostOnce ==
    [][\A k \in Keys :
          receipt[k] = Absent /\ receipt'[k] # Absent =>
              \A m \in applied : m.request # receipt'[k].request]_vars

\* One idempotency key stands for one mutation, until its receipt may have
\* expired when an invocation that uses the key again commits.
KeyNamesOneMutation ==
    \A a, b \in applied :
        a.key = b.key /\ a # b =>
            \/ a.at + ReceiptTTL < b.at + Timeout
            \/ b.at + ReceiptTTL < a.at + Timeout

\* Every mutation that took effect has an audit entry of its own: the
\* unconditional put of an entry never replaces another one.
EveryMutationAudited ==
    /\ Cardinality(audit) = Cardinality(applied)
    /\ \A m \in applied : [at |-> m.at, key |-> m.key, action |-> m.request.action,
                            actor |-> m.request.actor] \in audit

\* The revision that an answer names is in the history, with the content that
\* the request asked for.
Delivered(request, result) ==
    IF "record" \in DOMAIN result
    THEN LET item == recordRev[Id(result)][result.revision]
         IN  /\ item # Absent
             /\ item.status = result.status
             /\ "data" \in DOMAIN request => item.data = request.data
    ELSE LET item == schemaRev[result.collection][result.revision]
         IN  item # Absent /\ item.schema = request.schema

\* A client that is told of success, by the invocation that committed or by a
\* replay, finds its own request applied, under its key, as the answer says.
AnswersAreTrue ==
    \A i \in Invocations :
        pc[i] = "done" /\ reply[i].status = "ok" =>
            /\ \E m \in applied : m.key = call[i].key /\ m.request = Request(i)
            /\ Delivered(Request(i), reply[i].result)

\* What took effect can be asked about: as long as its receipt lives, an attempt
\* that comes to the replay check is answered with the result of its own call,
\* whatever its client was told or not told before.  Nobody who shares the key
\* takes its receipt.
OutcomesAreKept ==
    \A a \in applied :
        clock <= a.at + ReceiptTTL =>
            /\ receipt[a.key] # Absent
            /\ receipt[a.key].request = a.request
            /\ Delivered(a.request, receipt[a.key].result)

\* README, "IDEMPOTENCY#{action}#{requestHash}": the receipt found at the
\* address of a call is that of the same action and request.
ReceiptAddressNamesRequest ==
    \A i \in Invocations :
        pc[i] = "receipt" /\ Existing(i) # Absent => Existing(i).request = Request(i)

-----------------------------------------------------------------------------
(* The store implements the contract of DataSpace.tla: a mutation takes    *)
(* effect when its transaction does.                                       *)

CollectionsNow ==
    [c \in Collections |->
        IF schema[c] = Absent THEN Absent
        ELSE [revision |-> schema[c].revision, schema |-> schema[c].schema]]

Contract == INSTANCE DataSpace
    WITH collections <- CollectionsNow, records <- record, published <- public

\* Whatever was checked on a snapshot is true when the transaction is
\* applied: each one is a step of the contract, and no other step is visible.
ImplementsContract == Contract!Spec

\* The transaction of the invocation takes effect in this step.
Commits(i) == pc[i] = "transact" /\ pc'[i] = "done" /\ applied' # applied

\* A mutation keeps to the limits and classifications of the policy that its
\* own invocation resolved, counted when it takes effect: not those of another
\* invocation, and not as they were counted when it read.
ActsUnderItsPolicy ==
    [][\A i \in Invocations :
          Commits(i) => Contract!Perform(Request(i), Policy(i))]_vars
=============================================================================
