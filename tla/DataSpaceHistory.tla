-------------------------- MODULE DataSpaceHistory --------------------------
(***************************************************************************)
(* The revision items: nothing is missing from the history, nothing in it  *)
(* changes, and what is public is found in it.  Then the journal: what is  *)
(* applied is applied once, receipts, audit entries and revisions against  *)
(* the mutations whose transaction took effect.  Then what is answered:    *)
(* what the store keeps fits the schemas it names, and what it tells is    *)
(* found in the history.                                                   *)
(***************************************************************************)
EXTENDS DataSpaceStoreProofs

-----------------------------------------------------------------------------
(* The history of one collection and of one record.                        *)

SchemaHistory(c) ==
    \A n \in Revisions :
        /\ schemaRev[c][n] # Absent <=> schema[c] # Absent /\ n <= schema[c].revision
        /\ schema[c] # Absent /\ n = schema[c].revision =>
             schemaRev[c][n] = [revision |-> n, schema |-> schema[c].schema]

RecordHistory(id) ==
    \A n \in Revisions :
        /\ recordRev[id][n] # Absent <=> record[id] # Absent /\ n <= record[id].revision
        /\ record[id] # Absent /\ n = record[id].revision => recordRev[id][n] = record[id]

LEMMA HistoryParts ==
    HistoryComplete <=> /\ \A c \in Collections : SchemaHistory(c)
                        /\ \A id \in RecordIds : RecordHistory(id)
  BY DEF HistoryComplete, SchemaHistory, RecordHistory

\* The next revision is put, or the first.
LEMMA SchemaHistoryGrows ==
    ASSUME ItemsTypeOK, NEW c \in Collections, SchemaHistory(c), NEW item \in CollectionItem,
           schema' = [schema EXCEPT ![c] = item],
           schemaRev' = [schemaRev EXCEPT ![c][item.revision] =
                           [revision |-> item.revision, schema |-> item.schema]],
           schema[c] = Absent => item.revision = 1,
           schema[c] # Absent => item.revision = schema[c].revision + 1
    PROVE  SchemaHistory(c)'
  <1>0. [revision |-> item.revision, schema |-> item.schema] \in CollectionRevisionItem
    BY DEF CollectionItem, CollectionRevisionItem
  <1>1. /\ schema'[c] = item /\ item # Absent /\ item.revision \in Revisions
        /\ schemaRev[c] \in [Revisions -> OrAbsent(CollectionRevisionItem)]
        /\ [revision |-> item.revision, schema |-> item.schema] # Absent
    <2>1. item.revision \in Revisions
      BY DEF CollectionItem
    <2> QED
      BY <1>0, <2>1, AbsentAssumption DEF ItemsTypeOK
  <1>2. schemaRev'[c] = [schemaRev[c] EXCEPT ![item.revision] =
                           [revision |-> item.revision, schema |-> item.schema]]
    BY DEF ItemsTypeOK
  <1>3. schema[c] # Absent => schema[c].revision \in Revisions
    BY DEF ItemsTypeOK, OrAbsent, CollectionItem
  <1> SUFFICES ASSUME NEW n \in Revisions
               PROVE  /\ schemaRev'[c][n] # Absent <=> n <= item.revision
                      /\ n = item.revision =>
                           schemaRev'[c][n] = [revision |-> n, schema |-> item.schema]
    BY <1>1 DEF SchemaHistory
  <1>4. n \in Nat /\ n >= 1 /\ item.revision \in Nat
    BY <1>1, RevisionBound DEF Revisions
  <1>5. CASE n = item.revision
    BY <1>1, <1>2, <1>4, <1>5
  <1>6. CASE n # item.revision
    <2>1. schemaRev'[c][n] = schemaRev[c][n]
      BY <1>1, <1>2, <1>6
    <2>2. CASE schema[c] = Absent
      <3>1. schemaRev[c][n] = Absent /\ item.revision = 1
        BY <2>2 DEF SchemaHistory
      <3> QED
        BY <1>4, <1>6, <2>1, <3>1
    <2>3. CASE schema[c] # Absent
      <3>1. /\ schemaRev[c][n] # Absent <=> n <= schema[c].revision
            /\ item.revision = schema[c].revision + 1
        BY <2>3 DEF SchemaHistory
      <3>2. schema[c].revision \in Nat
        BY <1>3, <2>3, RevisionBound DEF Revisions
      <3> QED
        BY <1>4, <1>6, <2>1, <3>1, <3>2
    <2> QED
      BY <2>2, <2>3
  <1> QED
    BY <1>5, <1>6

LEMMA RecordHistoryGrows ==
    ASSUME ItemsTypeOK, NEW id \in RecordIds, RecordHistory(id), NEW item \in RecordItem,
           record' = [record EXCEPT ![id] = item],
           recordRev' = [recordRev EXCEPT ![id][item.revision] = item],
           record[id] = Absent => item.revision = 1,
           record[id] # Absent => item.revision = record[id].revision + 1
    PROVE  RecordHistory(id)'
  <1>1. /\ record'[id] = item /\ item # Absent /\ item.revision \in Revisions
        /\ recordRev[id] \in [Revisions -> OrAbsent(RecordItem)]
    BY AbsentAssumption DEF ItemsTypeOK, RecordItem
  <1>2. recordRev'[id] = [recordRev[id] EXCEPT ![item.revision] = item]
    BY DEF ItemsTypeOK
  <1>3. record[id] # Absent => record[id].revision \in Revisions
    BY DEF ItemsTypeOK, OrAbsent, RecordItem
  <1> SUFFICES ASSUME NEW n \in Revisions
               PROVE  /\ recordRev'[id][n] # Absent <=> n <= item.revision
                      /\ n = item.revision => recordRev'[id][n] = item
    BY <1>1 DEF RecordHistory
  <1>4. n \in Nat /\ n >= 1 /\ item.revision \in Nat
    BY <1>1, RevisionBound DEF Revisions
  <1>5. CASE n = item.revision
    BY <1>1, <1>2, <1>4, <1>5
  <1>6. CASE n # item.revision
    <2>1. recordRev'[id][n] = recordRev[id][n]
      BY <1>1, <1>2, <1>6
    <2>2. CASE record[id] = Absent
      BY <1>4, <1>6, <2>1, <2>2 DEF RecordHistory
    <2>3. CASE record[id] # Absent
      BY <1>3, <1>4, <1>6, <2>1, <2>3, RevisionBound DEF RecordHistory, Revisions
    <2> QED
      BY <2>2, <2>3
  <1> QED
    BY <1>5, <1>6

LEMMA SchemaHistoryKept ==
    ASSUME NEW c \in Collections, SchemaHistory(c), schemaRev'[c] = schemaRev[c],
           schema'[c] = Absent <=> schema[c] = Absent,
           schema[c] # Absent => /\ schema'[c].revision = schema[c].revision
                                 /\ schema'[c].schema = schema[c].schema
    PROVE  SchemaHistory(c)'
  BY DEF SchemaHistory

LEMMA RecordHistoryKept ==
    ASSUME NEW id \in RecordIds, RecordHistory(id),
           recordRev'[id] = recordRev[id], record'[id] = record[id]
    PROVE  RecordHistory(id)'
  BY DEF RecordHistory

\* A mutation of a collection's schema puts its next revision.
LEMMA SchemaPut ==
    ASSUME IInv, NEW i \in Invocations, CreateCollection(i) \/ UpdateCollection(i)
    PROVE  \E c \in Collections, item \in CollectionItem :
              /\ schema' = [schema EXCEPT ![c] = item]
              /\ schemaRev' = [schemaRev EXCEPT ![c][item.revision] =
                                 [revision |-> item.revision, schema |-> item.schema]]
              /\ schemaRev[c][item.revision] = Absent
              /\ schema[c] = Absent => item.revision = 1
              /\ schema[c] # Absent => item.revision = schema[c].revision + 1
              /\ UNCHANGED <<record, recordRev, public>>
  <1> USE DEF IInv, TypeInv, TypeOK
  <1>1. /\ Conditions(i)
        /\ Request(i) \in Requests /\ Request(i).collection \in Collections
        /\ Request(i).action = "updateCollection" => seenSchema[i] \in CollectionItem
    BY TransactionFacts DEF Transaction
  <1>2. CASE CreateCollection(i)
    <2> DEFINE new == [revision |-> 1, recordCount |-> 0, schema |-> Request(i).schema]
    <2>1. new \in CollectionItem /\ new.revision = 1
      BY <1>1, <1>2, CollectionRequestFields, FirstRevision
      DEF CreateCollection, Transacts, CollectionItem
    <2>2. /\ schema[Request(i).collection] = Absent
          /\ schemaRev[Request(i).collection][1] = Absent
      BY <1>1, <1>2
      DEF CreateCollection, Transacts, Conditions, CreateCollectionConditions, SchemaNow
    <2>3. PutSchema(i, new) /\ UNCHANGED <<record, recordRev, public>>
      BY <1>2 DEF CreateCollection
    <2> QED
      BY <1>1, <2>1, <2>2, <2>3 DEF PutSchema
  <1>3. CASE UpdateCollection(i)
    <2> DEFINE new == [seenSchema[i] EXCEPT !.revision = NextRevision(i),
                                            !.schema = Request(i).schema]
    <2>1. Request(i).action = "updateCollection"
      BY <1>3 DEF UpdateCollection, Transacts
    <2>2. NextRevision(i) \in Revisions /\ Request(i).schema \in Schemas
      BY <1>1, <2>1, CollectionRequestFields, ExpectedRevision DEF NextRevision
    <2>3. new \in CollectionItem /\ new.revision = NextRevision(i)
      BY <1>1, <2>1, <2>2 DEF CollectionItem
    <2>4. /\ schema[Request(i).collection] # Absent
          /\ schema[Request(i).collection].revision = Request(i).expected
          /\ schemaRev[Request(i).collection][NextRevision(i)] = Absent
      BY <1>1, <2>1 DEF Conditions, UpdateCollectionConditions, SchemaNow
    <2>5. PutSchema(i, new) /\ UNCHANGED <<record, recordRev, public>>
      BY <1>3 DEF UpdateCollection
    <2> QED
      BY <1>1, <2>3, <2>4, <2>5 DEF PutSchema, NextRevision
  <1> QED
    BY <1>2, <1>3

\* A mutation of a record puts its next revision, and changes no schema.
LEMMA RecordPut ==
    ASSUME IInv, NEW i \in Invocations,
           CreateRecord(i) \/ UpdateRecord(i) \/ Publish(i) \/ Unpublish(i)
    PROVE  /\ \E item \in RecordItem :
                 /\ PutRecord(i, item)
                 /\ recordRev[Id(Request(i))][item.revision] = Absent
                 /\ record[Id(Request(i))] = Absent => item.revision = 1
                 /\ record[Id(Request(i))] # Absent =>
                       item.revision = record[Id(Request(i))].revision + 1
           /\ Id(Request(i)) \in RecordIds
           /\ schemaRev' = schemaRev
           /\ UNCHANGED CollectionsNow
  <1> USE DEF IInv, TypeInv, TypeOK
  <1>1. CASE CreateRecord(i)
    <2>1. /\ Conditions(i) /\ Request(i) \in Requests
          /\ Request(i).action = "createRecord"
          /\ seenSchema[i] \in CollectionItem
      BY <1>1, TransactionFacts DEF Transaction, CreateRecord, Transacts
    <2>2. Id(Request(i)) \in RecordIds /\ Request(i).data \in Datas
      BY <2>1, RecordRequestFields
    <2>3. NewRecord(i) \in RecordItem /\ NewRecord(i).revision = 1
      BY <2>1, <2>2, FirstRevision, RevisionBound DEF NewRecord, RecordItem, CollectionItem
    <2>4. record[Id(Request(i))] = Absent /\ recordRev[Id(Request(i))][1] = Absent
      BY <2>1 DEF Conditions, CreateRecordConditions, RecordNow
    <2>5. UNCHANGED CollectionsNow
      BY <1>1, CreateRecordImplements DEF Contract!CreateRecord
    <2> QED
      BY <1>1, <2>2, <2>3, <2>4, <2>5 DEF CreateRecord
  <1>2. CASE UpdateRecord(i) \/ Publish(i) \/ Unpublish(i)
    <2>1. /\ Conditions(i)
          /\ Request(i).action \in {"updateRecord"} \cup Publications
      BY <1>2 DEF UpdateRecord, Publish, Unpublish, Transacts, Publications
    <2>2. recordRev[Id(Request(i))][NextRevision(i)] = Absent
      BY <2>1 DEF Conditions, RevisionConditions, RecordUnchanged
    <2>3. schemaRev' = schemaRev
      BY <1>2 DEF UpdateRecord, Publish, Unpublish
    <2> QED
      BY <1>2, <2>2, <2>3, EditTypes, EditFacts DEF NextRevision
  <1> QED
    BY <1>1, <1>2

-----------------------------------------------------------------------------
(* History is complete and immutable.                                      *)

\* A record mutation may count in the collection's item, no more.
LEMMA SchemaContentKept ==
    ASSUME IInv, NEW i \in Invocations,
           CreateRecord(i) \/ UpdateRecord(i) \/ Publish(i) \/ Unpublish(i),
           NEW c \in Collections
    PROVE  /\ schema'[c] = Absent <=> schema[c] = Absent
           /\ schema[c] # Absent => /\ schema'[c].revision = schema[c].revision
                                    /\ schema'[c].schema = schema[c].schema
  <1> USE DEF IInv, TypeInv, TypeOK
  <1>1. CASE CreateRecord(i)
    <2>1. /\ Conditions(i) /\ Request(i).action = "createRecord"
          /\ Request(i).collection \in Collections
          /\ seenSchema[i] \in CollectionItem
      BY <1>1, TransactionFacts DEF Transaction, CreateRecord, Transacts
    <2>2. SchemaNow(i) # Absent /\ SchemaNow(i).revision = seenSchema[i].revision
      BY <2>1 DEF Conditions, CreateRecordConditions, CollectionUnchanged
    <2>3. SchemaNow(i).schema = seenSchema[i].schema
      BY <2>1, <2>2, CurrentSchema
    <2> DEFINE counted == [seenSchema[i] EXCEPT !.recordCount = seenSchema[i].recordCount + 1]
    <2>4. /\ counted \in CollectionItem /\ counted # Absent
          /\ counted.revision = seenSchema[i].revision
          /\ counted.schema = seenSchema[i].schema
      BY <2>1, AbsentAssumption DEF CollectionItem
    <2>5. schema' = [schema EXCEPT ![Request(i).collection] = counted]
      BY <1>1 DEF CreateRecord
    <2> QED
      BY <2>2, <2>3, <2>4, <2>5 DEF SchemaNow, ItemsTypeOK
  <1>2. CASE UpdateRecord(i) \/ Publish(i) \/ Unpublish(i)
    BY <1>2 DEF UpdateRecord, Publish, Unpublish
  <1> QED
    BY <1>1, <1>2

\* What HistoryImmutable says of one step.
HistoryKept ==
    /\ \A c \in Collections, n \in Revisions :
          schemaRev[c][n] # Absent => schemaRev'[c][n] = schemaRev[c][n]
    /\ \A id \in RecordIds, n \in Revisions :
          recordRev[id][n] # Absent => recordRev'[id][n] = recordRev[id][n]

LEMMA HistoryStep ==
    ASSUME IInv, HistoryComplete, NEW i \in Invocations, Transaction(i)
    PROVE  HistoryComplete' /\ HistoryKept
  <1> USE DEF IInv, TypeInv, TypeOK
  <1>a. /\ \A c \in Collections : SchemaHistory(c)
        /\ \A id \in RecordIds : RecordHistory(id)
    BY HistoryParts
  <1>b. SUFFICES /\ \A c \in Collections : SchemaHistory(c)'
                 /\ \A id \in RecordIds : RecordHistory(id)'
                 /\ HistoryKept
    BY DEF HistoryComplete, SchemaHistory, RecordHistory
  <1>1. CASE CreateCollection(i) \/ UpdateCollection(i)
    <2>1. PICK c \in Collections, item \in CollectionItem :
              /\ schema' = [schema EXCEPT ![c] = item]
              /\ schemaRev' = [schemaRev EXCEPT ![c][item.revision] =
                                 [revision |-> item.revision, schema |-> item.schema]]
              /\ schemaRev[c][item.revision] = Absent
              /\ schema[c] = Absent => item.revision = 1
              /\ schema[c] # Absent => item.revision = schema[c].revision + 1
              /\ UNCHANGED <<record, recordRev, public>>
      BY <1>1, SchemaPut
    <2>2. SchemaHistory(c)'
      BY <1>a, <2>1, SchemaHistoryGrows
    <2>3. \A d \in Collections : d # c => schema'[d] = schema[d] /\ schemaRev'[d] = schemaRev[d]
      BY <2>1 DEF ItemsTypeOK
    <2>4. \A d \in Collections : d # c => SchemaHistory(d)'
      BY <1>a, <2>3, SchemaHistoryKept
    <2>5. \A id \in RecordIds : RecordHistory(id)'
      BY <1>a, <2>1, RecordHistoryKept
    <2>6. \A n \in Revisions : schemaRev[c][n] # Absent => schemaRev'[c][n] = schemaRev[c][n]
      BY <2>1 DEF ItemsTypeOK
    <2> QED
      BY <2>1, <2>2, <2>3, <2>4, <2>5, <2>6 DEF HistoryKept
  <1>2. CASE CreateRecord(i) \/ UpdateRecord(i) \/ Publish(i) \/ Unpublish(i)
    <2>0. PICK own \in RecordIds : own = Id(Request(i))
      BY <1>2, RecordPut
    <2>1. PICK item \in RecordItem :
                 /\ PutRecord(i, item)
                 /\ recordRev[own][item.revision] = Absent
                 /\ record[own] = Absent => item.revision = 1
                 /\ record[own] # Absent => item.revision = record[own].revision + 1
      BY <1>2, <2>0, RecordPut
    <2>2. schemaRev' = schemaRev /\ CollectionsNow' = CollectionsNow
      BY <1>2, RecordPut
    <2>3. RecordHistory(own)'
      BY <1>a, <2>0, <2>1, RecordHistoryGrows DEF PutRecord
    <2>4. \A id \in RecordIds :
             id # own => record'[id] = record[id] /\ recordRev'[id] = recordRev[id]
      BY <2>0, <2>1 DEF PutRecord, ItemsTypeOK
    <2>5. \A id \in RecordIds : id # own => RecordHistory(id)'
      BY <1>a, <2>4, RecordHistoryKept
    <2>6. \A c \in Collections :
             /\ schema'[c] = Absent <=> schema[c] = Absent
             /\ schema[c] # Absent => /\ schema'[c].revision = schema[c].revision
                                      /\ schema'[c].schema = schema[c].schema
      BY <1>2, <2>2, SchemaContentKept
    <2>7. \A c \in Collections : SchemaHistory(c)'
      BY <1>a, <2>2, <2>6, SchemaHistoryKept
    <2>8. \A n \in Revisions : recordRev[own][n] # Absent => recordRev'[own][n] = recordRev[own][n]
      BY <2>0, <2>1 DEF PutRecord, ItemsTypeOK
    <2> QED
      BY <2>2, <2>3, <2>4, <2>5, <2>7, <2>8 DEF HistoryKept
  <1> QED
    BY <1>1, <1>2 DEF Transaction

\* Other steps leave the items alone.
LEMMA OtherSteps ==
    ASSUME IInv, [Next]_vars, \A i \in Invocations : ~Transaction(i)
    PROVE  UNCHANGED items
  <1>1. ASSUME NEW i \in Invocations, Invoke(i) PROVE UNCHANGED items
    BY <1>1, ReadIsLocal DEF IInv
  <1>2. CASE Tick \/ (\E k \in Keys : ExpireReceipt(k)) \/ UNCHANGED vars
    BY <1>2 DEF Tick, ExpireReceipt, vars, table
  <1> QED
    BY <1>1, <1>2 DEF Next

LEMMA HistoryInductive ==
    IInv /\ HistoryComplete /\ [Next]_vars => HistoryComplete' /\ HistoryKept
  <1> SUFFICES ASSUME IInv, HistoryComplete, [Next]_vars
               PROVE  HistoryComplete' /\ HistoryKept
    OBVIOUS
  <1>1. CASE \E i \in Invocations : Transaction(i)
    BY <1>1, HistoryStep
  <1>2. CASE \A i \in Invocations : ~Transaction(i)
    <2>1. UNCHANGED items
      BY <1>2, OtherSteps
    <2> QED
      BY <2>1 DEF items, HistoryComplete, HistoryKept
  <1> QED
    BY <1>1, <1>2

LEMMA HistoryInit == Init => HistoryComplete
  BY DEF Init, HistoryComplete

\* SCHEMA_REV and RECORD_REV hold every revision up to the current one and no
\* other, the last of them equal to the current item.
THEOREM HistoryIsComplete == Spec => []HistoryComplete
  BY HistoryInit, HistoryInductive, InvariantHolds, PTL DEF Spec

\* A revision item that is there is never written again, nor removed.
THEOREM HistoryIsImmutable == Spec => HistoryImmutable
  <1>1. IInv /\ HistoryComplete /\ [Next]_vars => [HistoryKept]_vars
    BY HistoryInductive
  <1>2. Spec => [][HistoryKept]_vars
    BY <1>1, HistoryIsComplete, InvariantHolds, PTL DEF Spec
  <1> QED
    BY <1>2 DEF HistoryImmutable, HistoryKept

-----------------------------------------------------------------------------
(* What is public.                                                         *)

\* The invariants about the public item of one record.
PublicationMatches(c, id) ==
    /\ public[id] # Absent <=> record[id] # Absent /\ record[id].status = "published"
    /\ public[id] # Absent =>
         /\ record[id].publishedRevision = public[id].revision
         /\ public[id].revision = public[id].sourceRevision + 1
         /\ public[id].revision <= record[id].revision
         /\ public[id].data = Project(schemaRev[c][public[id].schemaRevision].schema,
                                    recordRev[id][public[id].sourceRevision].data)

FieldsStillPublic(c, id) ==
    public[id] # Absent =>
        /\ schema[c] # Absent
        /\ \A f \in DOMAIN public[id].data :
              /\ f \in DOMAIN schema[c].schema
              /\ schema[c].schema[f].classification = "public"
              /\ public[id].data[f] \in schema[c].schema[f].accepts

LEMMA PublicParts ==
    /\ PublicationMatchesRecord <=>
          \A c \in Collections, r \in Records : PublicationMatches(c, <<c, r>>)
    /\ PublicFieldsStillPublic <=>
          \A c \in Collections, r \in Records : FieldsStillPublic(c, <<c, r>>)
  BY DEF PublicationMatchesRecord, PublicationMatches, PublicFieldsStillPublic,
         FieldsStillPublic

\* The schema revision that a public item names is in the history: without it
\* the history could still be given another content there.
PublicSchemaThere ==
    \A c \in Collections, r \in Records :
        public[<<c, r>>] # Absent =>
            schemaRev[c][public[<<c, r>>].schemaRevision] # Absent

PublicInv ==
    /\ IInv /\ HistoryComplete
    /\ PublicationMatchesRecord /\ PublicSchemaThere /\ PublicFieldsStillPublic

LEMMA RevisionsAreNumbers == \A n \in Revisions : n \in Nat
  BY RevisionBound DEF Revisions

\* The revisions that a public item and its record name.
LEMMA PublicRevisions ==
    ASSUME ItemsTypeOK, NEW c \in Collections, NEW r \in Records, NEW id, id = <<c, r>>,
           PublicationMatches(c, id), public[id] # Absent
    PROVE  /\ public[id].schemaRevision \in Revisions
           /\ public[id].sourceRevision \in Revisions
           /\ public[id].revision \in Nat /\ record[id].revision \in Nat
           /\ public[id].sourceRevision <= record[id].revision
  <1>1. id \in RecordIds
    BY DEF RecordIds
  <1>2. public[id] \in PublicItem /\ record[id] \in RecordItem
    BY <1>1 DEF PublicationMatches, ItemsTypeOK, OrAbsent
  <1>3. /\ public[id].schemaRevision \in Revisions
        /\ public[id].sourceRevision \in Revisions
        /\ public[id].revision \in Revisions /\ record[id].revision \in Revisions
    BY <1>2 DEF PublicItem, RecordItem
  <1>4. /\ public[id].sourceRevision \in Nat
        /\ public[id].revision \in Nat /\ record[id].revision \in Nat
    BY <1>3, RevisionsAreNumbers
  <1>5. /\ public[id].revision = public[id].sourceRevision + 1
        /\ public[id].revision <= record[id].revision
    BY DEF PublicationMatches
  <1>6. public[id].sourceRevision <= record[id].revision
    BY <1>4, <1>5
  <1> QED
    BY <1>3, <1>4, <1>6

\* A record that no step touches keeps its public item and the history of it.
LEMMA PublicationKept ==
    ASSUME PublicInv, HistoryKept, NEW c \in Collections, NEW r \in Records, NEW id, id = <<c, r>>,
           record'[id] = record[id], public'[id] = public[id]
    PROVE  /\ PublicationMatches(c, id)'
           /\ public'[id] # Absent => schemaRev'[c][public'[id].schemaRevision] # Absent
  <1> USE DEF PublicInv, IInv, TypeInv, TypeOK
  <1>1. PublicationMatches(c, id) /\ id \in RecordIds
    BY PublicParts DEF RecordIds
  <1>2. CASE public[id] = Absent
    BY <1>1, <1>2 DEF PublicationMatches
  <1>3. CASE public[id] # Absent
    <2> DEFINE pub == public[id]
    <2>1. record[id] # Absent
      BY <1>1, <1>3 DEF PublicationMatches
    <2>2. /\ pub.schemaRevision \in Revisions /\ pub.sourceRevision \in Revisions
          /\ pub.sourceRevision <= record[id].revision
      BY <1>1, <1>3, PublicRevisions
    <2>3. schemaRev'[c][pub.schemaRevision] = schemaRev[c][pub.schemaRevision]
      BY <1>3, <2>2 DEF PublicSchemaThere, HistoryKept
    <2>4. recordRev[id][pub.sourceRevision] # Absent
      BY <1>1, <2>1, <2>2 DEF HistoryComplete
    <2>5. recordRev'[id][pub.sourceRevision] = recordRev[id][pub.sourceRevision]
      BY <1>1, <2>2, <2>4 DEF HistoryKept
    <2>6. schemaRev'[c][pub.schemaRevision] # Absent
      BY <1>3, <2>3 DEF PublicSchemaThere
    <2> QED
      BY <1>1, <2>3, <2>5, <2>6 DEF PublicationMatches
  <1> QED
    BY <1>2, <1>3

\* The public item is kept by an edit, which only raises the revision.
LEMMA PublicationEdited ==
    ASSUME PublicInv, HistoryKept, NEW i \in Invocations, UpdateRecord(i),
           NEW c \in Collections, NEW r \in Records, NEW id, id = <<c, r>>,
           id = Id(Request(i))
    PROVE  /\ PublicationMatches(c, id)'
           /\ public'[id] # Absent => schemaRev'[c][public'[id].schemaRevision] # Absent
  <1> USE DEF PublicInv, IInv, TypeInv, TypeOK
  <1>1. PublicationMatches(c, id) /\ id \in RecordIds
    BY PublicParts DEF RecordIds
  <1>2. /\ record[id] \in RecordItem /\ record[id] # Absent
        /\ record[id] = seenRecord[i] /\ record[id].revision = Request(i).expected
    BY EditFacts
  <1>3. /\ record'[id] = EditedRecord(i) /\ EditedRecord(i) \in RecordItem
        /\ public' = public /\ schemaRev' = schemaRev
    BY <1>1, EditTypes DEF UpdateRecord, PutRecord, ItemsTypeOK
  <1>4. /\ EditedRecord(i).status = record[id].status
        /\ EditedRecord(i).publishedRevision = record[id].publishedRevision
        /\ EditedRecord(i).revision = record[id].revision + 1
        /\ EditedRecord(i) # Absent
    BY <1>2, <1>3, AbsentAssumption DEF EditedRecord, RecordItem, NextRevision
  <1>5. public[id] # Absent =>
           /\ public[id].sourceRevision \in Revisions
           /\ public[id].sourceRevision <= record[id].revision
           /\ public[id].revision \in Nat /\ record[id].revision \in Nat
    BY <1>1, PublicRevisions
  <1>6. public[id] # Absent =>
           recordRev'[id][public[id].sourceRevision] =
              recordRev[id][public[id].sourceRevision]
    BY <1>1, <1>2, <1>5 DEF HistoryKept, HistoryComplete
  <1>7. public[id] # Absent => public[id].revision <= record'[id].revision
    <2>1. public[id] # Absent => public[id].revision <= record[id].revision
      BY <1>1 DEF PublicationMatches
    <2>2. record'[id].revision = record[id].revision + 1
      BY <1>3, <1>4
    <2> QED
      BY <1>5, <2>1, <2>2
  <1> QED
    BY <1>1, <1>2, <1>3, <1>4, <1>6, <1>7 DEF PublicationMatches, PublicSchemaThere

\* A publication makes the projection of the record by the schema of the moment.
LEMMA PublicationMade ==
    ASSUME PublicInv, HistoryKept, NEW i \in Invocations, Publish(i),
           NEW c \in Collections, NEW r \in Records, NEW id, id = <<c, r>>,
           id = Id(Request(i))
    PROVE  /\ PublicationMatches(c, id)'
           /\ public'[id] # Absent => schemaRev'[c][public'[id].schemaRevision] # Absent
  <1> USE DEF PublicInv, IInv, TypeInv, TypeOK
  <1>1. id \in RecordIds /\ c = Request(i).collection
    BY DEF RecordIds, Id
  <1>2. /\ record[id] \in RecordItem /\ record[id] # Absent
        /\ record[id] = seenRecord[i] /\ record[id].revision = Request(i).expected
        /\ CollectionsNow[c] # Absent
        /\ CollectionsNow[c].revision = seenSchema[i].revision
        /\ CollectionsNow[c].schema = seenSchema[i].schema
    BY <1>1, EditFacts
  <1>3. /\ schema[c] # Absent /\ schema[c] \in CollectionItem
        /\ schema[c].revision = seenSchema[i].revision
        /\ schema[c].schema = seenSchema[i].schema
    BY <1>2, CollectionMapping DEF ItemsTypeOK, OrAbsent
  <1>4. /\ record'[id] = PublishedRecord(i) /\ PublishedRecord(i) \in RecordItem
        /\ public'[id] = PublicEntry(i) /\ schemaRev' = schemaRev
    BY <1>1, EditTypes DEF Publish, PutRecord, ItemsTypeOK
  <1>5. /\ PublishedRecord(i).status = "published"
        /\ PublishedRecord(i).publishedRevision = NextRevision(i)
        /\ PublishedRecord(i).revision = NextRevision(i)
        /\ PublishedRecord(i) # Absent
    BY <1>2, <1>4, AbsentAssumption DEF PublishedRecord, RecordItem
  <1>6. /\ schema[c].revision \in Revisions /\ schema[c].revision \in Nat
        /\ record[id].revision \in Revisions /\ record[id].revision \in Nat
    BY <1>2, <1>3, RevisionsAreNumbers DEF CollectionItem, RecordItem
  <1>7. /\ schemaRev[c][schema[c].revision] # Absent
        /\ schemaRev[c][schema[c].revision].schema = schema[c].schema
    <2>1. SchemaHistory(c)
      BY HistoryParts
    <2>2. schema[c].revision <= schema[c].revision
      BY <1>6
    <2>3. schemaRev[c][schema[c].revision] =
             [revision |-> schema[c].revision, schema |-> schema[c].schema]
      BY <1>3, <1>6, <2>1 DEF SchemaHistory
    <2>4. schemaRev[c][schema[c].revision] # Absent
      BY <1>3, <1>6, <2>1, <2>2 DEF SchemaHistory
    <2> QED
      BY <2>3, <2>4
  <1>8. recordRev[id][record[id].revision] = record[id]
    BY <1>1, <1>2, <1>6 DEF HistoryComplete
  <1>9. recordRev'[id][record[id].revision] = record[id]
    BY <1>1, <1>2, <1>6, <1>8 DEF HistoryKept
  <1>10. /\ PublicEntry(i).revision = NextRevision(i)
         /\ PublicEntry(i).sourceRevision = record[id].revision
         /\ PublicEntry(i).schemaRevision = schema[c].revision
         /\ PublicEntry(i).data = Project(schema[c].schema, record[id].data)
    BY <1>2, <1>3 DEF PublicEntry, Projection
  <1>11. PublicEntry(i) # Absent
    <2>1. PublicEntry(i) \in PublicItem
      <3>1. Projection(i, seenSchema[i]) \in Datas
        BY <1>2, ProjectionType DEF Projection, RecordItem
      <3>2. NextRevision(i) \in Revisions
        BY <1>4, <1>5 DEF RecordItem
      <3> QED
        BY <1>2, <1>3, <1>6, <3>1, <3>2 DEF PublicEntry, PublicItem
    <2> QED
      BY <2>1, AbsentAssumption
  <1>12. NextRevision(i) = record[id].revision + 1 /\ NextRevision(i) \in Nat
    BY <1>2, <1>6 DEF NextRevision
  <1> QED
    BY <1>4, <1>5, <1>7, <1>9, <1>10, <1>11, <1>12 DEF PublicationMatches

LEMMA PublicationStep ==
    ASSUME PublicInv, HistoryKept, NEW i \in Invocations, Transaction(i)
    PROVE  PublicationMatchesRecord' /\ PublicSchemaThere'
  <1> USE DEF PublicInv, IInv, TypeInv, TypeOK
  <1> DEFINE Good(c, id) ==
               /\ PublicationMatches(c, id)
               /\ public[id] # Absent => schemaRev[c][public[id].schemaRevision] # Absent
  <1> SUFFICES ASSUME NEW c \in Collections, NEW r \in Records, NEW id, id = <<c, r>>
               PROVE  Good(c, id)'
    <2>1. ASSUME \A c \in Collections, r \in Records : Good(c, <<c, r>>)'
          PROVE  PublicationMatchesRecord'
      BY <2>1 DEF PublicationMatchesRecord, PublicationMatches
    <2>2. ASSUME \A c \in Collections, r \in Records : Good(c, <<c, r>>)'
          PROVE  PublicSchemaThere'
      BY <2>2 DEF PublicSchemaThere
    <2> QED
      BY <2>1, <2>2
  <1>1. id \in RecordIds /\ PublicationMatches(c, id)
    BY PublicParts DEF RecordIds
  <1>2. CASE record'[id] = record[id] /\ public'[id] = public[id]
    BY <1>2, PublicationKept
  <1>3. CASE CreateCollection(i) \/ UpdateCollection(i)
    <2>1. record' = record /\ public' = public
      BY <1>3 DEF CreateCollection, UpdateCollection
    <2> QED
      BY <1>2, <2>1
  <1>4. CASE CreateRecord(i) \/ UpdateRecord(i) \/ Publish(i) \/ Unpublish(i)
    <2>1. CASE id # Id(Request(i))
      <3>1. public'[id] = public[id]
        BY <1>1, <1>4, <2>1
        DEF CreateRecord, UpdateRecord, Publish, Unpublish, Withdrawn, ItemsTypeOK
      <3>2. PICK item : PutRecord(i, item)
        BY <1>4, RecordPut
      <3>3. record'[id] = record[id]
        BY <1>1, <2>1, <3>2 DEF PutRecord, ItemsTypeOK
      <3> QED
        BY <1>2, <3>1, <3>3
    <2>2. CASE id = Id(Request(i)) /\ CreateRecord(i)
      <3>1. Conditions(i) /\ record[id] = Absent
        BY <2>2 DEF CreateRecord, Transacts, Conditions, CreateRecordConditions, RecordNow
      <3>2. public[id] = Absent
        BY <1>1, <3>1 DEF PublicationMatches
      <3>3. public' = public /\ record'[id] = NewRecord(i)
        BY <1>1, <2>2 DEF CreateRecord, PutRecord, ItemsTypeOK
      <3>4. NewRecord(i).status # "published"
        BY DEF NewRecord
      <3> QED
        BY <3>2, <3>3, <3>4 DEF PublicationMatches
    <2>3. CASE id = Id(Request(i)) /\ UpdateRecord(i)
      BY <2>3, PublicationEdited
    <2>4. CASE id = Id(Request(i)) /\ Publish(i)
      BY <2>4, PublicationMade
    <2>5. CASE id = Id(Request(i)) /\ Unpublish(i)
      <3>1. record'[id] = UnpublishedRecord(i) /\ public'[id] = Absent
        BY <1>1, <2>5 DEF Unpublish, Withdrawn, PutRecord, ItemsTypeOK
      <3>2. UnpublishedRecord(i).status # "published"
        BY <2>5, EditFacts DEF UnpublishedRecord, RecordItem
      <3> QED
        BY <3>1, <3>2 DEF PublicationMatches
    <2> QED
      BY <1>4, <2>1, <2>2, <2>3, <2>4, <2>5
  <1> QED
    BY <1>3, <1>4 DEF Transaction

\* No schema update takes away a field that is published, and no publication
\* publishes a field that is not public.
LEMMA FieldsStep ==
    ASSUME PublicInv, NEW i \in Invocations, Transaction(i)
    PROVE  PublicFieldsStillPublic'
  <1> USE DEF PublicInv, IInv, TypeInv, TypeOK
  <1> SUFFICES ASSUME NEW c \in Collections, NEW r \in Records, NEW id, id = <<c, r>>
               PROVE  FieldsStillPublic(c, id)'
    BY DEF PublicFieldsStillPublic, FieldsStillPublic
  <1>1. id \in RecordIds /\ PublicationMatches(c, id) /\ FieldsStillPublic(c, id)
    BY PublicParts DEF RecordIds
  <1>2. ASSUME public'[id] = public[id],
               schema'[c] = Absent <=> schema[c] = Absent,
               schema[c] # Absent => schema'[c].schema = schema[c].schema
        PROVE  FieldsStillPublic(c, id)'
    BY <1>1, <1>2 DEF FieldsStillPublic
  <1>3. CASE CreateCollection(i)
    <2>1. /\ Conditions(i) /\ Request(i).action = "createCollection"
          /\ Request(i).collection \in Collections
      BY <1>3, TransactionFacts DEF Transaction, CreateCollection, Transacts
    <2>2. schema[Request(i).collection] = Absent /\ public' = public
      BY <1>3, <2>1 DEF Conditions, CreateCollectionConditions, SchemaNow, CreateCollection
    <2>3. CASE c = Request(i).collection
      <3>1. record[id] = Absent
        BY <2>2, <2>3 DEF Counts, RecordsHaveCollections
      <3> QED
        BY <1>1, <2>2, <3>1 DEF PublicationMatches, FieldsStillPublic
    <2>4. CASE c # Request(i).collection
      <3>1. schema'[c] = schema[c]
        BY <1>3, <2>1, <2>4 DEF CreateCollection, PutSchema, ItemsTypeOK
      <3> QED
        BY <1>2, <2>2, <3>1
    <2> QED
      BY <2>3, <2>4
  <1>4. CASE UpdateCollection(i)
    <2>1. /\ Request(i).collection \in Collections /\ Request(i) \in Requests
          /\ Request(i).action = "updateCollection" /\ seenSchema[i] \in CollectionItem
          /\ public' = public
      BY <1>4, TransactionFacts DEF Transaction, UpdateCollection, Transacts
    <2>2. CASE c = Request(i).collection
      <3> SUFFICES ASSUME public[id] # Absent PROVE FieldsStillPublic(c, id)'
        BY <2>1 DEF FieldsStillPublic
      <3>1. /\ CollectionsNow[c] # Absent
            /\ Contract!RecordsOf(c) # {} =>
                  Contract!Preserves(CollectionsNow[c].schema, Request(i).schema)
        BY <1>4, <2>2, UpdateCollectionImplements DEF Contract!UpdateCollection
      <3>2. r \in RecordsIn(c)
        BY <1>1 DEF PublicationMatches, RecordsIn
      <3>3. Contract!Preserves(schema[c].schema, Request(i).schema) /\ schema[c] # Absent
        BY <3>1, <3>2, PartsMapping, CollectionMapping
      <3> DEFINE new == [seenSchema[i] EXCEPT !.revision = NextRevision(i),
                                              !.schema = Request(i).schema]
      <3>4. schema'[c] = new
        BY <1>4, <2>2 DEF UpdateCollection, PutSchema, ItemsTypeOK
      <3>5. new \in CollectionItem /\ new.schema = Request(i).schema
        <4>1. NextRevision(i) \in Revisions /\ Request(i).schema \in Schemas
          BY <2>1, CollectionRequestFields, ExpectedRevision DEF NextRevision
        <4> QED
          BY <2>1, <4>1 DEF CollectionItem
      <3>6. schema'[c] # Absent /\ schema'[c].schema = Request(i).schema
        BY <3>4, <3>5, AbsentAssumption
      <3>7. \A f \in DOMAIN public[id].data :
               /\ f \in DOMAIN Request(i).schema
               /\ Request(i).schema[f].classification = "public"
               /\ public[id].data[f] \in Request(i).schema[f].accepts
        BY <1>1, <3>3 DEF FieldsStillPublic, Contract!Preserves
      <3> QED
        BY <2>1, <3>6, <3>7 DEF FieldsStillPublic
    <2>3. CASE c # Request(i).collection
      <3>1. schema'[c] = schema[c]
        BY <1>4, <2>1, <2>3 DEF UpdateCollection, PutSchema, ItemsTypeOK
      <3> QED
        BY <1>2, <2>1, <3>1
    <2> QED
      BY <2>2, <2>3
  <1>5. CASE CreateRecord(i) \/ UpdateRecord(i) \/ Publish(i) \/ Unpublish(i)
    <2>1. /\ schema'[c] = Absent <=> schema[c] = Absent
          /\ schema[c] # Absent => schema'[c].schema = schema[c].schema
      BY <1>5, SchemaContentKept
    <2>2. CASE public'[id] = public[id]
      BY <1>2, <2>1, <2>2
    <2>3. CASE public'[id] = Absent
      BY <2>3 DEF FieldsStillPublic
    <2>4. CASE Publish(i) /\ id = Id(Request(i))
      <3>1. c = Request(i).collection
        BY <2>4 DEF Id
      <3>2. /\ public'[id] = PublicEntry(i)
            /\ schema[c] # Absent /\ schema[c].schema = seenSchema[i].schema
        BY <1>1, <2>4, <3>1, EditFacts, CollectionMapping DEF Publish, ItemsTypeOK
      <3>3. StillConforms(i, seenSchema[i])
        BY <2>4, EditFacts DEF ChecksMade, Checked, Publishes, Publish, Transacts
      <3>4. \A f \in DOMAIN Projection(i, seenSchema[i]) :
               /\ f \in DOMAIN seenSchema[i].schema
               /\ seenSchema[i].schema[f].classification = "public"
               /\ Projection(i, seenSchema[i])[f] \in seenSchema[i].schema[f].accepts
        BY <3>3 DEF Projection, Project, PublicFields, StillConforms, Conforms
      <3>5. PublicEntry(i).data = Projection(i, seenSchema[i])
        BY DEF PublicEntry
      <3> QED
        BY <2>1, <3>2, <3>4, <3>5 DEF FieldsStillPublic
    <2>5. \/ public'[id] = public[id] \/ public'[id] = Absent
          \/ Publish(i) /\ id = Id(Request(i))
      BY <1>1, <1>5
      DEF CreateRecord, UpdateRecord, Publish, Unpublish, Withdrawn, ItemsTypeOK
    <2> QED
      BY <2>2, <2>3, <2>4, <2>5
  <1> QED
    BY <1>3, <1>4, <1>5 DEF Transaction

THEOREM PublicInvariantHolds == Spec => []PublicInv
  <1> DEFINE Rest == PublicationMatchesRecord /\ PublicSchemaThere /\ PublicFieldsStillPublic
  <1>1. Init => Rest
    BY DEF Init, PublicationMatchesRecord, PublicSchemaThere, PublicFieldsStillPublic, RecordIds
  <1>2. IInv /\ HistoryComplete /\ Rest /\ [Next]_vars => Rest'
    <2> SUFFICES ASSUME PublicInv, [Next]_vars PROVE Rest'
      BY DEF PublicInv
    <2>1. HistoryKept
      BY HistoryInductive DEF PublicInv
    <2>2. CASE \E i \in Invocations : Transaction(i)
      BY <2>1, <2>2, PublicationStep, FieldsStep
    <2>3. CASE \A i \in Invocations : ~Transaction(i)
      <3>1. UNCHANGED items
        BY <2>3, OtherSteps DEF PublicInv
      <3> QED
        BY <3>1
        DEF PublicInv, items, PublicationMatchesRecord, PublicSchemaThere,
            PublicFieldsStillPublic
    <2> QED
      BY <2>2, <2>3
  <1> QED
    BY <1>1, <1>2, InvariantHolds, HistoryIsComplete, PTL DEF Spec, PublicInv

\* A record has a public item exactly while it is published, and that item is
\* the projection of the record revision it names by the schema revision it names.
THEOREM PublicationIsTrue == Spec => []PublicationMatchesRecord
  BY PublicInvariantHolds, PTL DEF PublicInv

\* README, "schema evolution is additive": what is published stays a public
\* field of the current schema, and a value that its type accepts.
THEOREM PublishedFieldsArePublic == Spec => []PublicFieldsStillPublic
  BY PublicInvariantHolds, PTL DEF PublicInv

-----------------------------------------------------------------------------
(* The journal.                                                            *)

CollectionActions == {"createCollection", "updateCollection"}

-----------------------------------------------------------------------------
(* What a transaction adds to the journal, and what other steps leave.     *)

\* The mutation that takes effect with the transaction of an invocation.
Mutation(i) == [key |-> call[i].key, request |-> Request(i), at |-> since[i]]

\* Each transaction settles with a result.
LEMMA TransactionSettles ==
    ASSUME TypeInv, NEW i \in Invocations, Transaction(i)
    PROVE  \E result \in Results : Settle(i, result)
  <1> USE DEF TypeInv, TypeOK
  <1>1. /\ Request(i) \in Requests /\ Request(i).collection \in Collections
        /\ Request(i).action # "createCollection" => seenSchema[i] \in CollectionItem
    BY TransactionFacts
  <1>2. CASE CreateCollection(i)
    <2>1. CollectionResult(i, 1) \in Results
      BY <1>1, FirstRevision DEF CollectionResult, Results
    <2> QED
      BY <1>2, <2>1 DEF CreateCollection
  <1>3. CASE UpdateCollection(i)
    <2>1. NextRevision(i) \in Revisions
      BY <1>1, <1>3, CollectionRequestFields, ExpectedRevision
      DEF UpdateCollection, Transacts, NextRevision
    <2>2. CollectionResult(i, NextRevision(i)) \in Results
      BY <1>1, <2>1 DEF CollectionResult, Results
    <2> QED
      BY <1>3, <2>2 DEF UpdateCollection
  <1>4. ASSUME Request(i).action \notin CollectionActions, NEW item \in RecordItem
        PROVE  RecordResult(i, item) \in Results
    BY <1>1, <1>4, RecordRequestFields
    DEF CollectionActions, RecordResult, Results, RecordItem
  <1>5. CASE CreateRecord(i)
    <2>1. Request(i).action = "createRecord"
      BY <1>5 DEF CreateRecord, Transacts
    <2>2. NewRecord(i) \in RecordItem
      BY <1>1, <2>1, RecordRequestFields, FirstRevision, RevisionBound
      DEF NewRecord, RecordItem, CollectionItem
    <2> QED
      BY <1>4, <1>5, <2>1, <2>2 DEF CreateRecord, CollectionActions
  <1>6. CASE UpdateRecord(i) \/ Publish(i) \/ Unpublish(i)
    <2>1. Request(i).action \notin CollectionActions
      BY <1>6 DEF UpdateRecord, Publish, Unpublish, Transacts, CollectionActions
    <2> QED
      BY <1>4, <1>6, <2>1, EditTypes DEF UpdateRecord, Publish, Unpublish
  <1> QED
    BY <1>2, <1>3, <1>5, <1>6 DEF Transaction

LEMMA SettledStep ==
    ASSUME TypeInv, NEW i \in Invocations, Transaction(i)
    PROVE  /\ call[i].key \in Keys /\ Request(i) \in Requests /\ since[i] \in Nat
           /\ Mutation(i) \in Mutations
           /\ receipt[call[i].key] = Absent
           /\ applied' = applied \cup {Mutation(i)}
           /\ receipt'[call[i].key] # Absent
           /\ receipt'[call[i].key].request = Request(i)
           /\ receipt'[call[i].key].expiresAt = since[i] + ReceiptTTL
           /\ \A k \in Keys \ {call[i].key} : receipt'[k] = receipt[k]
           /\ PutAudit(i) /\ clock' = clock /\ since' = since
           /\ pc'[i] = "done" /\ \A j \in Invocations \ {i} : pc'[j] = pc[j]
  <1> USE DEF TypeInv, TypeOK
  <1>1. PICK result \in Results : Settle(i, result)
    BY TransactionSettles
  <1>2. pc[i] = "transact" /\ Conditions(i) /\ Request(i) \in Requests /\ call[i] # Absent
    BY TransactionFacts DEF SnapshotsThere
  <1>3. call[i].key \in Keys /\ since[i] \in Nat
    BY <1>2, CallTypes DEF InvocationsTypeOK
  <1> DEFINE written == [request |-> Request(i), result |-> result, expiresAt |-> Expiry(i)]
  <1>4. written \in Receipts /\ written # Absent
    BY <1>2, <1>3, TimesAssumption, AbsentIsNoReceipt DEF Receipts, Expiry
  <1>5. receipt' = [receipt EXCEPT ![call[i].key] = written]
    BY <1>1 DEF Settle
  <1>6. receipt'[call[i].key] = written /\ \A k \in Keys \ {call[i].key} : receipt'[k] = receipt[k]
    BY <1>3, <1>5 DEF JournalTypeOK
  <1>7. receipt[call[i].key] = Absent
    BY <1>2 DEF Conditions, Unclaimed, Existing
  <1>8. Mutation(i) \in Mutations /\ applied' = applied \cup {Mutation(i)}
    BY <1>1, <1>2, <1>3 DEF Settle, Mutation, Mutations
  <1>9. PutAudit(i) /\ clock' = clock /\ since' = since
    BY <1>1 DEF Settle, Answer
  <1>10. pc'[i] = "done" /\ \A j \in Invocations \ {i} : pc'[j] = pc[j]
    BY TransactionIsLocal DEF LocalsKept
  <1> QED
    BY <1>2, <1>3, <1>4, <1>6, <1>7, <1>8, <1>9, <1>10 DEF Expiry

\* Every other step of an invocation leaves the table and the clock alone;
\* an invocation that runs afterwards ran before, or begins now.
LEMMA OtherStepsSettleNothing ==
    ASSUME TypeInv, NEW i \in Invocations, Invoke(i), ~Transaction(i)
    PROVE  /\ UNCHANGED <<receipt, audit, applied, clock>>
           /\ \A j \in Invocations :
                 Running(j)' => (Running(j) /\ since'[j] = since[j]) \/ since'[j] = clock
  <1> USE DEF TypeInv, TypeOK, InvocationsTypeOK
  <1>a. ASSUME NEW code, Refuse(i, code)
        PROVE  /\ UNCHANGED <<receipt, audit, applied, clock, since>>
               /\ \A j \in Invocations : Running(j)' => Running(j)
    BY <1>a DEF Refuse, Answer, Goto, table, Running
  <1>b. ASSUME NEW step, Continue(i, step), Running(i)
        PROVE  /\ UNCHANGED <<receipt, audit, applied, clock, since>>
               /\ \A j \in Invocations : Running(j)' => Running(j)
    BY <1>b DEF Continue, Goto, table, Running
  <1>1. CASE Begin(i)
    BY <1>1 DEF Begin, At, Goto, Running, table
  <1>2. CASE Return(i)
    BY <1>2 DEF Return, At, Goto, Running, table
  <1>3. CASE Crash(i)
    BY <1>3 DEF Crash, Goto, Running, table
  <1>4. CASE Replay(i)
    BY <1>4 DEF Replay, Answer, Goto, Running, table
  <1>5. CASE Proceed(i)
    BY <1>5, <1>b DEF Proceed, At, Running
  <1>6. CASE RefuseKeyReuse(i) \/ RefuseSchema(i) \/ NotFound(i) \/ ConditionFailed(i)
              \/ BackendError(i)
    BY <1>6, <1>a DEF RefuseKeyReuse, RefuseSchema, NotFound, ConditionFailed, BackendError
  <1>7. CASE CreateCollectionRead(i)
    BY <1>7, <1>a, <1>b DEF CreateCollectionRead, Reads, At, Running
  <1>8. CASE UpdateCollectionRead(i)
    BY <1>8, <1>a, <1>b DEF UpdateCollectionRead, Reads, At, Running
  <1>9. CASE CreateRecordRead(i)
    BY <1>9, <1>a, <1>b DEF CreateRecordRead, Reads, At, Running
  <1>10. CASE UpdateRecordReadSchema(i)
    BY <1>10, <1>b DEF UpdateRecordReadSchema, Reads, At, Running
  <1>11. CASE UpdateRecordReadRecord(i)
    BY <1>11, <1>a, <1>b DEF UpdateRecordReadRecord, Reads, At, Running
  <1>12. CASE PublicationReadRecord(i)
    BY <1>12, <1>b DEF PublicationReadRecord, Reads, At, Running
  <1>13. CASE PublicationReadSchema(i)
    BY <1>13, <1>a, <1>b DEF PublicationReadSchema, Reads, At, Running
  <1> QED
    BY <1>1, <1>2, <1>3, <1>4, <1>5, <1>6, <1>7, <1>8, <1>9, <1>10, <1>11, <1>12, <1>13
    DEF Invoke, Transaction

\* No other step puts a receipt, an audit entry or a mutation.
LEMMA NothingSettled ==
    ASSUME TypeInv, [Next]_vars, \A i \in Invocations : ~Transaction(i)
    PROVE  /\ UNCHANGED <<audit, applied>>
           /\ \A k \in Keys : receipt'[k] \in {receipt[k], Absent}
  <1>1. ASSUME NEW i \in Invocations, Invoke(i) PROVE UNCHANGED <<receipt, audit, applied>>
    BY <1>1, OtherStepsSettleNothing
  <1>2. ASSUME NEW k \in Keys, ExpireReceipt(k)
        PROVE  /\ UNCHANGED <<audit, applied>>
               /\ \A l \in Keys : receipt'[l] \in {receipt[l], Absent}
    BY <1>2 DEF ExpireReceipt, TypeInv, TypeOK, JournalTypeOK
  <1>3. CASE Tick \/ UNCHANGED vars
    BY <1>3 DEF Tick, vars, table
  <1> QED
    BY <1>1, <1>2, <1>3 DEF Next

\* The limits and the allowed classifications that a mutation keeps to, when it
\* takes effect, are those of the policy that its own invocation resolved,
\* however other invocations were bound.
THEOREM EachUnderItsPolicy == Spec => ActsUnderItsPolicy
  <1>1. ASSUME IInv, [Next]_vars, NEW i \in Invocations, Commits(i)
        PROVE  Contract!Perform(Request(i), Policy(i))
    <2>1. PICK j \in Invocations : Transaction(j)
      BY <1>1, NothingSettled DEF Commits, IInv
    <2>2. i = j
      BY <1>1, <2>1, SettledStep DEF Commits, IInv
    <2> QED  BY <1>1, <2>1, <2>2, TransactionPerforms
  <1>2. IInv /\ [Next]_vars =>
           [\A i \in Invocations : Commits(i) => Contract!Perform(Request(i), Policy(i))]_vars
    BY <1>1
  <1> QED
    BY <1>2, InvariantHolds, PTL DEF ActsUnderItsPolicy, Spec

-----------------------------------------------------------------------------
(* A request that took effect is spent: what it created is there, what it  *)
(* expected is past.                                                       *)

Spent(request) ==
    /\ request.action \in CollectionActions => schema[request.collection] # Absent
    /\ request.action = "updateCollection" =>
         request.expected < schema[request.collection].revision
    /\ request.action \notin CollectionActions => record[Id(request)] # Absent
    /\ request.action \in {"updateRecord"} \cup Publications =>
         request.expected < record[Id(request)].revision

RequestsSpent == \A m \in applied : Spent(m.request)

\* The items of a request that is spent never go back.
LEMMA StaysSpent ==
    ASSUME IInv, TypeInv', NEW i \in Invocations, Transaction(i),
           NEW request \in Requests, Spent(request)
    PROVE  Spent(request)'
  <1> USE DEF IInv, TypeInv, TypeOK
  <1>1. /\ \A c \in Collections : SchemaGrows(c)
        /\ \A id \in RecordIds : RecordGrows(id)
    BY ItemsGrow
  <1>2. /\ request.collection \in Collections
        /\ request.action = "updateCollection" => request.expected \in Nat
        /\ request.action \notin CollectionActions => Id(request) \in RecordIds
        /\ request.action \in {"updateRecord"} \cup Publications => request.expected \in Nat
    BY RequestKinds, CollectionRequestFields, RecordRequestFields, ExpectedRevision,
       RevisionsAreNumbers DEF CollectionActions, Publications
  <1>3. /\ \A c \in Collections : schema[c] # Absent => schema[c].revision \in Nat
        /\ \A id \in RecordIds : record[id] # Absent => record[id].revision \in Nat
    BY ItemRevisions
  <1>4. /\ \A c \in Collections : schema'[c] # Absent => schema'[c].revision \in Nat
        /\ \A id \in RecordIds : record'[id] # Absent => record'[id].revision \in Nat
    BY RevisionBound DEF ItemsTypeOK, OrAbsent, CollectionItem, RecordItem, Revisions
  <1>5. CASE request.action \in CollectionActions
    <2>1. PICK c \in Collections : c = request.collection
      BY <1>2
    <2>2. SchemaGrows(c) /\ schema[c] # Absent
      BY <1>1, <1>5, <2>1 DEF Spent
    <2>3. request.action = "updateCollection" => request.expected < schema'[c].revision
      BY <1>2, <1>3, <1>4, <2>1, <2>2 DEF SchemaGrows, Spent
    <2>4. request.action \notin {"updateRecord"} \cup Publications
      BY <1>5 DEF CollectionActions, Publications
    <2> QED
      BY <1>5, <2>1, <2>2, <2>3, <2>4 DEF SchemaGrows, Spent
  <1>6. CASE request.action \notin CollectionActions
    <2>1. PICK id \in RecordIds : id = Id(request)
      BY <1>2, <1>6
    <2>2. RecordGrows(id) /\ record[id] # Absent
      BY <1>1, <1>6, <2>1 DEF Spent
    <2>3. request.action \in {"updateRecord"} \cup Publications =>
             request.expected < record'[id].revision
      BY <1>2, <1>3, <1>4, <2>1, <2>2 DEF RecordGrows, Spent
    <2> QED
      BY <1>6, <2>1, <2>2, <2>3 DEF RecordGrows, Spent, CollectionActions
  <1> QED
    BY <1>5, <1>6

\* The transaction of a request finds it not spent.
LEMMA NotSpentYet ==
    ASSUME IInv, NEW i \in Invocations, Transaction(i)
    PROVE  ~Spent(Request(i))
  <1> USE DEF IInv, TypeInv, TypeOK
  <1>1. Conditions(i) /\ Request(i) \in Requests
    BY TransactionFacts
  <1>2. CASE Request(i).action = "createCollection"
    BY <1>1, <1>2 DEF Conditions, CreateCollectionConditions, SchemaNow, Spent, CollectionActions
  <1>3. CASE Request(i).action = "updateCollection"
    <2>1. Request(i).expected \in Nat
      BY <1>1, <1>3, CollectionRequestFields, ExpectedRevision, RevisionsAreNumbers
    <2> QED
      BY <1>1, <1>3, <2>1 DEF Conditions, UpdateCollectionConditions, SchemaNow, Spent
  <1>4. CASE Request(i).action = "createRecord"
    BY <1>1, <1>4 DEF Conditions, CreateRecordConditions, RecordNow, Spent, CollectionActions
  <1>5. CASE Request(i).action \in {"updateRecord"} \cup Publications
    <2>1. Request(i).expected \in Nat
      BY <1>1, <1>5, RecordRequestFields, ExpectedRevision, RevisionsAreNumbers
      DEF Publications
    <2> QED
      BY <1>1, <1>5, <2>1
      DEF Conditions, RevisionConditions, RecordUnchanged, RecordNow, Spent
  <1> QED
    BY <1>1, <1>2, <1>3, <1>4, <1>5, RequestKinds DEF Publications

\* One schema mutation, by its own collection.
LEMMA SchemaMutation ==
    ASSUME IInv, NEW i \in Invocations, CreateCollection(i) \/ UpdateCollection(i),
           NEW c \in Collections, c = Request(i).collection
    PROVE  /\ schema'[c] # Absent
           /\ \A d \in Collections \ {c} : schema'[d] = schema[d]
           /\ schema[c] = Absent => schema'[c].revision = 1
           /\ schema[c] # Absent => schema'[c].revision = schema[c].revision + 1
           /\ Request(i).action \in CollectionActions
           /\ Request(i).action = "updateCollection" =>
                 /\ schema[c] # Absent /\ schema[c].revision = Request(i).expected
           /\ UNCHANGED record
  <1> USE DEF IInv, TypeInv, TypeOK
  <1>1. /\ Conditions(i) /\ Request(i) \in Requests
        /\ Request(i).action = "updateCollection" => seenSchema[i] \in CollectionItem
    BY TransactionFacts DEF Transaction
  <1>2. CASE CreateCollection(i)
    <2> DEFINE new == [revision |-> 1, recordCount |-> 0, schema |-> Request(i).schema]
    <2>1. Request(i).action = "createCollection" /\ schema[c] = Absent
      BY <1>1, <1>2
      DEF CreateCollection, Transacts, Conditions, CreateCollectionConditions, SchemaNow
    <2>2. new \in CollectionItem
      BY <1>1, <2>1, CollectionRequestFields, FirstRevision DEF CollectionItem
    <2>3. new # Absent /\ new.revision = 1
      BY <2>2, AbsentAssumption
    <2>4. schema' = [schema EXCEPT ![c] = new] /\ UNCHANGED record
      BY <1>2 DEF CreateCollection, PutSchema
    <2>5. schema'[c] = new /\ \A d \in Collections \ {c} : schema'[d] = schema[d]
      BY <2>4 DEF ItemsTypeOK
    <2> QED
      BY <2>1, <2>3, <2>4, <2>5 DEF CollectionActions
  <1>3. CASE UpdateCollection(i)
    <2> DEFINE new == [seenSchema[i] EXCEPT !.revision = NextRevision(i),
                                            !.schema = Request(i).schema]
    <2>1. /\ Request(i).action = "updateCollection"
          /\ schema[c] # Absent /\ schema[c].revision = Request(i).expected
      BY <1>1, <1>3
      DEF UpdateCollection, Transacts, Conditions, UpdateCollectionConditions, SchemaNow
    <2>2. NextRevision(i) \in Revisions /\ Request(i).schema \in Schemas
      BY <1>1, <2>1, CollectionRequestFields, ExpectedRevision DEF NextRevision
    <2>3. new \in CollectionItem /\ new.revision = schema[c].revision + 1
      BY <1>1, <2>1, <2>2 DEF CollectionItem, NextRevision
    <2>4. new # Absent
      BY <2>3, AbsentAssumption
    <2>5. schema' = [schema EXCEPT ![c] = new] /\ UNCHANGED record
      BY <1>3 DEF UpdateCollection, PutSchema
    <2>6. schema'[c] = new /\ \A d \in Collections \ {c} : schema'[d] = schema[d]
      BY <2>5 DEF ItemsTypeOK
    <2> QED
      BY <2>1, <2>3, <2>4, <2>5, <2>6 DEF CollectionActions
  <1> QED
    BY <1>2, <1>3

\* One record mutation, by its own record.
LEMMA RecordMutation ==
    ASSUME IInv, NEW i \in Invocations,
           CreateRecord(i) \/ UpdateRecord(i) \/ Publish(i) \/ Unpublish(i),
           NEW id \in RecordIds, id = Id(Request(i))
    PROVE  /\ record'[id] # Absent
           /\ \A other \in RecordIds \ {id} : record'[other] = record[other]
           /\ record[id] = Absent => record'[id].revision = 1
           /\ record[id] # Absent => record'[id].revision = record[id].revision + 1
           /\ Request(i).action \notin CollectionActions
           /\ Request(i).action # "createRecord" =>
                 record[id] # Absent /\ record[id].revision = Request(i).expected
  <1> USE DEF IInv, TypeInv, TypeOK
  <1>1. PICK item \in RecordItem :
           /\ PutRecord(i, item)
           /\ record[id] = Absent => item.revision = 1
           /\ record[id] # Absent => item.revision = record[id].revision + 1
    BY RecordPut
  <1>2. /\ record'[id] = item /\ item # Absent
        /\ \A other \in RecordIds \ {id} : record'[other] = record[other]
    BY <1>1, AbsentAssumption DEF PutRecord, ItemsTypeOK
  <1>3. Request(i).action \notin CollectionActions
    BY DEF CreateRecord, UpdateRecord, Publish, Unpublish, Transacts, CollectionActions
  <1>4. CASE Request(i).action # "createRecord"
    <2>1. UpdateRecord(i) \/ Publish(i) \/ Unpublish(i)
      BY <1>4 DEF CreateRecord, Transacts
    <2> QED
      BY <1>1, <1>2, <1>3, <2>1, EditTypes DEF RecordNow
  <1> QED
    BY <1>1, <1>2, <1>3, <1>4

\* The transaction of a request spends it.
LEMMA SpentNow ==
    ASSUME IInv, NEW i \in Invocations, Transaction(i), NEW request, request = Request(i)
    PROVE  Spent(request)'
  <1> USE DEF IInv, TypeInv, TypeOK
  <1>1. request \in Requests /\ request.collection \in Collections
    BY TransactionFacts
  <1>2. CASE CreateCollection(i) \/ UpdateCollection(i)
    <2>1. PICK c \in Collections : c = request.collection
      BY <1>1
    <2>2. /\ schema'[c] # Absent /\ request.action \in CollectionActions
          /\ request.action = "updateCollection" =>
                schema'[c].revision = request.expected + 1
      BY <1>2, <2>1, SchemaMutation
    <2>3. request.action = "updateCollection" => request.expected \in Nat
      BY <1>1, CollectionRequestFields, ExpectedRevision, RevisionsAreNumbers
    <2> QED
      BY <2>1, <2>2, <2>3 DEF Spent, CollectionActions, Publications
  <1>3. CASE CreateRecord(i) \/ UpdateRecord(i) \/ Publish(i) \/ Unpublish(i)
    <2>1. PICK id \in RecordIds : id = Id(request)
      BY <1>3, RecordPut
    <2>2. /\ record'[id] # Absent /\ request.action \notin CollectionActions
          /\ request.action # "createRecord" => record'[id].revision = request.expected + 1
      BY <1>3, <2>1, RecordMutation
    <2>3. request.action # "createRecord" => request.expected \in Nat
      BY <1>1, <2>2, RecordRequestFields, ExpectedRevision, RevisionsAreNumbers
      DEF CollectionActions
    <2> QED
      BY <2>1, <2>2, <2>3 DEF Spent, CollectionActions, Publications
  <1> QED
    BY <1>2, <1>3 DEF Transaction

LEMMA SpentInductive == IInv /\ RequestsSpent /\ [Next]_vars => RequestsSpent'
  <1> SUFFICES ASSUME IInv, RequestsSpent, [Next]_vars, TypeInv'
               PROVE  RequestsSpent'
    BY TypeStep DEF IInv
  <1>1. ASSUME NEW i \in Invocations, Transaction(i) PROVE RequestsSpent'
    <2>1. /\ applied' = applied \cup {Mutation(i)}
          /\ applied \subseteq Mutations
      BY <1>1, SettledStep DEF IInv, TypeInv, TypeOK, JournalTypeOK
    <2> SUFFICES ASSUME NEW m \in applied' PROVE Spent(m.request)'
      BY DEF RequestsSpent
    <2>2. CASE m \in applied
      <3>1. m.request \in Requests /\ Spent(m.request)
        BY <2>1, <2>2 DEF Mutations, RequestsSpent
      <3> QED
        BY <1>1, <3>1, StaysSpent
    <2>3. CASE m = Mutation(i)
      BY <1>1, <2>3, SpentNow DEF Mutation
    <2> QED
      BY <2>1, <2>2, <2>3
  <1>2. CASE \A i \in Invocations : ~Transaction(i)
    <2>1. UNCHANGED <<schema, record>> /\ applied' = applied
      BY <1>2, OtherSteps, NothingSettled DEF items, IInv
    <2> QED
      BY <2>1 DEF RequestsSpent, Spent
  <1> QED
    BY <1>1, <1>2

\* A request that took effect is spent: what it creates is there, or the item
\* has gone past the revision it expects.
THEOREM SpentHolds == Spec => []RequestsSpent
  <1>1. Init => RequestsSpent
    BY DEF Init, RequestsSpent
  <1> QED
    BY <1>1, SpentInductive, InvariantHolds, PTL DEF Spec

\* The request of a transaction has not taken effect before.
LEMMA NotAppliedYet ==
    ASSUME IInv, RequestsSpent, NEW i \in Invocations, Transaction(i)
    PROVE  \A m \in applied : m.request # Request(i)
  BY NotSpentYet DEF RequestsSpent

\* What AppliedAtMostOnce says of one step.
NewReceiptsAreNew ==
    \A k \in Keys :
        receipt[k] = Absent /\ receipt'[k] # Absent =>
            \A m \in applied : m.request # receipt'[k].request

\* A request takes effect at most once, under whatever key, retried before
\* or after its receipt has expired.
THEOREM EachRequestAppliedOnce == Spec => AppliedAtMostOnce
  <1>1. IInv /\ RequestsSpent /\ [Next]_vars => [NewReceiptsAreNew]_vars
    <2> SUFFICES ASSUME IInv, RequestsSpent, [Next]_vars,
                        NEW k \in Keys, receipt[k] = Absent, receipt'[k] # Absent
                 PROVE  \A m \in applied : m.request # receipt'[k].request
      BY DEF NewReceiptsAreNew
    <2>1. PICK i \in Invocations : Transaction(i)
      BY NothingSettled DEF IInv
    <2>2. k = call[i].key /\ receipt'[k].request = Request(i)
      BY <2>1, SettledStep DEF IInv
    <2> QED
      BY <2>1, <2>2, NotAppliedYet
  <1>2. Spec => [][NewReceiptsAreNew]_vars
    BY <1>1, SpentHolds, InvariantHolds, PTL DEF Spec
  <1> QED
    BY <1>2 DEF AppliedAtMostOnce, NewReceiptsAreNew

-----------------------------------------------------------------------------
(* Revisions count mutations.                                              *)

SchemaCounted(c) ==
    IF schema[c] = Absent THEN AppliedToSchema(c) = {}
    ELSE schema[c].revision = Cardinality(AppliedToSchema(c))

RecordCounted(id) ==
    IF record[id] = Absent THEN AppliedToRecord(id) = {}
    ELSE record[id].revision = Cardinality(AppliedToRecord(id))

RevisionsCount ==
    /\ IsFiniteSet(applied)
    /\ \A c \in Collections : SchemaCounted(c)
    /\ \A id \in RecordIds : RecordCounted(id)

\* A set of mutations grows by one.
LEMMA OneMore ==
    ASSUME NEW S, IsFiniteSet(S), NEW m, m \notin S, NEW T, T = S \cup {m}
    PROVE  Cardinality(T) = Cardinality(S) + 1 /\ (S = {} => Cardinality(T) = 1)
  BY FS_AddElement, FS_EmptySet

LEMMA FiniteMutations ==
    ASSUME IsFiniteSet(applied)
    PROVE  /\ \A c : IsFiniteSet(AppliedToSchema(c))
           /\ \A id : IsFiniteSet(AppliedToRecord(id))
  BY FS_Subset DEF AppliedToSchema, AppliedToRecord

LEMMA RevisionsCountStep ==
    ASSUME IInv, RequestsSpent, RevisionsCount, NEW i \in Invocations, Transaction(i)
    PROVE  RevisionsCount'
  <1> USE DEF IInv, TypeInv, TypeOK
  <1>1. /\ applied' = applied \cup {Mutation(i)} /\ Mutation(i) \notin applied
        /\ Mutation(i).request = Request(i)
    BY SettledStep, NotAppliedYet DEF Mutation
  <1>2. IsFiniteSet(applied)'
    BY <1>1, FS_AddElement DEF RevisionsCount
  <1>3. PICK m : m = Mutation(i)
    OBVIOUS
  <1>4. CASE CreateCollection(i) \/ UpdateCollection(i)
    <2>1. PICK c \in Collections : c = Request(i).collection
      BY TransactionFacts
    <2>2. Request(i).action \in CollectionActions
      BY <1>4, <2>1, SchemaMutation
    <2>3. /\ AppliedToSchema(c)' = AppliedToSchema(c) \cup {m} /\ m \notin AppliedToSchema(c)
          /\ \A d \in Collections \ {c} : AppliedToSchema(d)' = AppliedToSchema(d)
          /\ \A id \in RecordIds : AppliedToRecord(id)' = AppliedToRecord(id)
      BY <1>1, <1>3, <2>1, <2>2 DEF AppliedToSchema, AppliedToRecord, CollectionActions
    <2>4. SchemaCounted(c)'
      <3>1. /\ Cardinality(AppliedToSchema(c)') = Cardinality(AppliedToSchema(c)) + 1
            /\ AppliedToSchema(c) = {} => Cardinality(AppliedToSchema(c)') = 1
        BY <2>3, FiniteMutations, OneMore DEF RevisionsCount
      <3> QED
        BY <1>4, <2>1, <3>1, SchemaMutation DEF RevisionsCount, SchemaCounted
    <2>5. \A d \in Collections \ {c} : SchemaCounted(d)'
      BY <1>4, <2>1, <2>3, SchemaMutation DEF RevisionsCount, SchemaCounted
    <2>6. \A id \in RecordIds : RecordCounted(id)'
      BY <1>4, <2>1, <2>3, SchemaMutation DEF RevisionsCount, RecordCounted
    <2> QED
      BY <1>2, <2>4, <2>5, <2>6 DEF RevisionsCount
  <1>5. CASE CreateRecord(i) \/ UpdateRecord(i) \/ Publish(i) \/ Unpublish(i)
    <2>1. PICK id \in RecordIds : id = Id(Request(i))
      BY <1>5, RecordPut
    <2>2. Request(i).action \notin CollectionActions
      BY <1>5, <2>1, RecordMutation
    <2>3. /\ AppliedToRecord(id)' = AppliedToRecord(id) \cup {m} /\ m \notin AppliedToRecord(id)
          /\ \A other \in RecordIds \ {id} : AppliedToRecord(other)' = AppliedToRecord(other)
          /\ \A c \in Collections : AppliedToSchema(c)' = AppliedToSchema(c)
      BY <1>1, <1>3, <2>1, <2>2 DEF AppliedToSchema, AppliedToRecord, CollectionActions
    <2>4. RecordCounted(id)'
      <3>1. /\ Cardinality(AppliedToRecord(id)') = Cardinality(AppliedToRecord(id)) + 1
            /\ AppliedToRecord(id) = {} => Cardinality(AppliedToRecord(id)') = 1
        BY <2>3, FiniteMutations, OneMore DEF RevisionsCount
      <3> QED
        BY <1>5, <2>1, <3>1, RecordMutation DEF RevisionsCount, RecordCounted
    <2>5. \A other \in RecordIds \ {id} : RecordCounted(other)'
      BY <1>5, <2>1, <2>3, RecordMutation DEF RevisionsCount, RecordCounted
    <2>6. \A c \in Collections : SchemaCounted(c)'
      BY <1>5, <2>3, SchemaContentKept DEF RevisionsCount, SchemaCounted
    <2> QED
      BY <1>2, <2>4, <2>5, <2>6 DEF RevisionsCount
  <1> QED
    BY <1>4, <1>5 DEF Transaction

\* No update is lost: each revision of a schema or a record is the effect of
\* one mutation of its own.
THEOREM NoUpdateIsLost == Spec => []NoLostUpdate
  <1>1. Init => RevisionsCount
    BY FS_EmptySet
    DEF Init, RevisionsCount, SchemaCounted, RecordCounted, AppliedToSchema, AppliedToRecord
  <1>2. IInv /\ RequestsSpent /\ RevisionsCount /\ [Next]_vars => RevisionsCount'
    <2> SUFFICES ASSUME IInv, RequestsSpent, RevisionsCount, [Next]_vars,
                        \A i \in Invocations : ~Transaction(i)
                 PROVE  RevisionsCount'
      BY RevisionsCountStep
    <2>1. UNCHANGED <<schema, record>> /\ applied' = applied
      BY OtherSteps, NothingSettled DEF items, IInv
    <2> QED
      BY <2>1 DEF RevisionsCount, SchemaCounted, RecordCounted, AppliedToSchema, AppliedToRecord
  <1>3. RevisionsCount => NoLostUpdate
    BY DEF RevisionsCount, SchemaCounted, RecordCounted, NoLostUpdate, CollectionsIn
  <1> QED
    BY <1>1, <1>2, <1>3, SpentHolds, InvariantHolds, PTL DEF Spec

-----------------------------------------------------------------------------
(* Receipts outlive the invocations that could apply their call again.     *)

RunningInTime ==
    \A i \in Invocations :
        Running(i) => since[i] <= clock /\ clock <= since[i] + Timeout

\* The receipt of a mutation is there until it has expired.
ReceiptsInTime ==
    \A m \in applied :
        \/ m.at + ReceiptTTL < clock
        \/ receipt[m.key] # Absent /\ receipt[m.key].expiresAt = m.at + ReceiptTTL

\* What an audit entry keeps of a mutation.
Entry(m) == [at |-> m.at, key |-> m.key, action |-> m.request.action, actor |-> m.request.actor]

\* One entry for each mutation, and one mutation for each entry.
AuditKept ==
    /\ IsFiniteSet(applied) /\ IsFiniteSet(audit)
    /\ EveryMutationAudited
    /\ \A e \in audit : \E m \in applied : m.at = e.at /\ m.key = e.key

JournalInv == RunningInTime /\ ReceiptsInTime /\ KeyNamesOneMutation /\ AuditKept

\* A call that commits finds the mutations of its key so old that the receipt
\* they left has expired.
LEMMA KeyIsFree ==
    ASSUME TypeInv, RunningInTime, ReceiptsInTime, NEW i \in Invocations, Transaction(i),
           NEW m \in applied, m.key = call[i].key
    PROVE  m.at + ReceiptTTL < since[i] + Timeout /\ m.at < since[i]
  <1>1. receipt[call[i].key] = Absent /\ since[i] \in Nat
    BY SettledStep
  <1>2. m.at + ReceiptTTL < clock
    BY <1>1 DEF ReceiptsInTime
  <1>3. clock <= since[i] + Timeout
    BY TransactionFacts DEF RunningInTime, Running
  <1>4. m.at \in Nat /\ clock \in Nat
    BY DEF TypeInv, TypeOK, JournalTypeOK, Mutations
  <1> QED
    BY <1>1, <1>2, <1>3, <1>4, TimesAssumption

LEMMA TransactionInTime ==
    ASSUME TypeInv, RunningInTime, ReceiptsInTime, NEW i \in Invocations, Transaction(i)
    PROVE  RunningInTime' /\ ReceiptsInTime'
  <1> USE DEF TypeInv, TypeOK
  <1>1. RunningInTime'
    BY SettledStep DEF RunningInTime, Running
  <1>2. ReceiptsInTime'
    <2> SUFFICES ASSUME NEW m \in applied'
                 PROVE  \/ m.at + ReceiptTTL < clock'
                        \/ receipt'[m.key] # Absent /\ receipt'[m.key].expiresAt = m.at + ReceiptTTL
      BY DEF ReceiptsInTime
    <2>1. clock' = clock /\ applied' = applied \cup {Mutation(i)} /\ applied \subseteq Mutations
      BY SettledStep DEF JournalTypeOK
    <2>2. CASE m \in applied /\ m.key = call[i].key
      BY <2>1, <2>2, SettledStep DEF ReceiptsInTime
    <2>3. CASE m \in applied /\ m.key # call[i].key
      <3>1. m.key \in Keys /\ receipt'[m.key] = receipt[m.key]
        BY <2>1, <2>3, SettledStep DEF Mutations
      <3> QED
        BY <2>1, <2>3, <3>1 DEF ReceiptsInTime
    <2>4. CASE m = Mutation(i)
      BY <2>4, SettledStep DEF Mutation
    <2> QED
      BY <2>1, <2>2, <2>3, <2>4
  <1> QED
    BY <1>1, <1>2

LEMMA TransactionNamesKey ==
    ASSUME TypeInv, RunningInTime, ReceiptsInTime, KeyNamesOneMutation,
           NEW i \in Invocations, Transaction(i)
    PROVE  KeyNamesOneMutation'
  <1>1. applied' = applied \cup {Mutation(i)}
    BY SettledStep
  <1>2. \A m \in applied :
           m.key = Mutation(i).key => m.at + ReceiptTTL < Mutation(i).at + Timeout
    BY KeyIsFree DEF Mutation
  <1> QED
    BY <1>1, <1>2 DEF KeyNamesOneMutation

LEMMA TransactionAudited ==
    ASSUME TypeInv, RunningInTime, ReceiptsInTime, AuditKept,
           NEW i \in Invocations, Transaction(i)
    PROVE  AuditKept'
  <1>1. /\ applied' = applied \cup {Mutation(i)} /\ PutAudit(i)
        /\ since[i] \in Nat /\ applied \subseteq Mutations
    BY SettledStep DEF TypeInv, TypeOK, JournalTypeOK
  <1>2. \A m \in applied : m.key = call[i].key => m.at # since[i]
    <2> SUFFICES ASSUME NEW m \in applied, m.key = call[i].key PROVE m.at # since[i]
      OBVIOUS
    <2>1. m.at < since[i] /\ m.at \in Nat
      BY <1>1, KeyIsFree DEF Mutations
    <2> QED
      BY <1>1, <2>1
  <1>3. \A e \in audit : <<e.at, e.key>> # <<since[i], call[i].key>>
    BY <1>2 DEF AuditKept
  <1>4. audit' = audit \cup {AuditEntry(i)} /\ AuditEntry(i) \notin audit
    BY <1>1, <1>3 DEF PutAudit, AuditEntry
  <1>5. Mutation(i) \notin applied /\ Entry(Mutation(i)) = AuditEntry(i)
    BY <1>2 DEF Mutation, Entry, AuditEntry
  <1>6. /\ IsFiniteSet(applied') /\ Cardinality(applied') = Cardinality(applied) + 1
        /\ IsFiniteSet(audit') /\ Cardinality(audit') = Cardinality(audit) + 1
    BY <1>1, <1>4, <1>5, FS_AddElement DEF AuditKept
  <1>7. \A m \in applied' : Entry(m) \in audit'
    BY <1>1, <1>4, <1>5 DEF AuditKept, EveryMutationAudited, Entry
  <1>8. \A e \in audit' : \E m \in applied' : m.at = e.at /\ m.key = e.key
    <2>1. Mutation(i).at = AuditEntry(i).at /\ Mutation(i).key = AuditEntry(i).key
      BY DEF Mutation, AuditEntry
    <2> QED
      BY <1>1, <1>4, <2>1 DEF AuditKept
  <1> QED
    BY <1>6, <1>7, <1>8 DEF AuditKept, EveryMutationAudited, Entry

\* Time passes, receipts expire and invocations come and go.
LEMMA OthersInTime ==
    ASSUME TypeInv, TypeInv', JournalInv, [Next]_vars, \A i \in Invocations : ~Transaction(i)
    PROVE  JournalInv'
  <1> USE DEF TypeInv, TypeOK
  <1>1. applied' = applied /\ audit' = audit
    BY NothingSettled
  <1>2. KeyNamesOneMutation' /\ AuditKept'
    BY <1>1 DEF JournalInv, KeyNamesOneMutation, AuditKept, EveryMutationAudited
  <1>3. clock \in Nat /\ applied \subseteq Mutations
    BY DEF JournalTypeOK
  <1>4. ASSUME NEW i \in Invocations, Invoke(i)
        PROVE  RunningInTime' /\ ReceiptsInTime'
    <2>1. /\ UNCHANGED <<receipt, applied, clock>>
          /\ \A j \in Invocations :
                Running(j)' => (Running(j) /\ since'[j] = since[j]) \/ since'[j] = clock
      BY <1>4, OtherStepsSettleNothing
    <2>2. RunningInTime'
      <3> SUFFICES ASSUME NEW j \in Invocations, Running(j)'
                   PROVE  since'[j] <= clock /\ clock <= since'[j] + Timeout
        BY <2>1 DEF RunningInTime
      <3> QED
        BY <1>3, <2>1, TimesAssumption DEF JournalInv, RunningInTime
    <2> QED
      BY <2>1, <2>2 DEF JournalInv, ReceiptsInTime
  <1>5. CASE Tick
    <2>1. /\ clock' = clock + 1 /\ UNCHANGED <<pc, since, receipt, applied>>
          /\ \A i \in Invocations : Running(i) => clock < since[i] + Timeout
      BY <1>5 DEF Tick, table, local
    <2>2. RunningInTime'
      BY <1>3, <2>1, TimesAssumption
      DEF JournalInv, RunningInTime, Running, InvocationsTypeOK
    <2>3. ReceiptsInTime'
      BY <1>3, <2>1, TimesAssumption DEF JournalInv, ReceiptsInTime, Mutations
    <2> QED
      BY <1>2, <2>2, <2>3 DEF JournalInv
  <1>6. ASSUME NEW k \in Keys, ExpireReceipt(k)
        PROVE  RunningInTime' /\ ReceiptsInTime'
    <2>1. /\ UNCHANGED <<pc, since, clock, applied>>
          /\ receipt[k].expiresAt < clock
          /\ \A l \in Keys \ {k} : receipt'[l] = receipt[l]
      BY <1>6 DEF ExpireReceipt, local, JournalTypeOK
    <2>2. RunningInTime'
      BY <2>1 DEF JournalInv, RunningInTime, Running
    <2>3. ReceiptsInTime'
      <3> SUFFICES ASSUME NEW m \in applied
                   PROVE  \/ m.at + ReceiptTTL < clock
                          \/ receipt'[m.key] # Absent /\ receipt'[m.key].expiresAt = m.at + ReceiptTTL
        BY <2>1 DEF ReceiptsInTime
      <3>1. m.key \in Keys
        BY <1>3 DEF Mutations
      <3> QED
        BY <2>1, <3>1 DEF JournalInv, ReceiptsInTime
    <2> QED
      BY <2>2, <2>3
  <1>7. CASE UNCHANGED vars
    BY <1>2, <1>7 DEF vars, table, local, JournalInv, RunningInTime, Running, ReceiptsInTime
  <1> QED
    BY <1>2, <1>4, <1>5, <1>6, <1>7 DEF Next, JournalInv

\* Invocations end in time, receipts stay until they expire, and so neither a
\* key nor an audit entry serves two mutations.
THEOREM JournalHolds == Spec => []JournalInv
  <1>1. Init => JournalInv
    BY FS_EmptySet
    DEF Init, JournalInv, RunningInTime, Running, ReceiptsInTime, KeyNamesOneMutation,
        AuditKept, EveryMutationAudited
  <1>2. TypeInv /\ JournalInv /\ [Next]_vars => JournalInv'
    <2> SUFFICES ASSUME TypeInv, TypeInv', JournalInv, [Next]_vars PROVE JournalInv'
      BY TypeStep
    <2>1. ASSUME NEW i \in Invocations, Transaction(i) PROVE JournalInv'
      BY <2>1, TransactionInTime, TransactionNamesKey, TransactionAudited DEF JournalInv
    <2> QED
      BY <2>1, OthersInTime
  <1>3. IInv => TypeInv
    BY DEF IInv
  <1> QED
    BY <1>1, <1>2, <1>3, InvariantHolds, PTL DEF Spec

\* One idempotency key stands for one mutation, until its receipt may have
\* expired when an invocation that uses the key again commits.
THEOREM OneMutationPerKey == Spec => []KeyNamesOneMutation
  BY JournalHolds, PTL DEF JournalInv

\* Every mutation that took effect has an audit entry of its own: the
\* unconditional put of an entry never replaces another one.
THEOREM MutationsAreAudited == Spec => []EveryMutationAudited
  BY JournalHolds, PTL DEF JournalInv, AuditKept

-----------------------------------------------------------------------------
(* Every record revision fits its schema revision.                         *)

\* An item fits the schema revision that it names.
Fits(c, item) ==
    LET schemaThen == schemaRev[c][item.schemaRevision]
    IN  schemaThen # Absent /\ Conforms(schemaThen.schema, item.data)

RevisionsFit(c, id) ==
    \A n \in Revisions : recordRev[id][n] # Absent => Fits(c, recordRev[id][n])

LEMMA ConformParts ==
    RevisionsConform <=> \A c \in Collections, r \in Records : RevisionsFit(c, <<c, r>>)
  BY DEF RevisionsConform, RevisionsFit, Fits

\* The schema in force is the revision that it names.
LEMMA SchemaInHistory ==
    ASSUME IInv, HistoryComplete, NEW c \in Collections, schema[c] # Absent
    PROVE  /\ schemaRev[c][schema[c].revision] # Absent
           /\ schemaRev[c][schema[c].revision].schema = schema[c].schema
  <1>1. PICK n \in Revisions : n = schema[c].revision
    BY DEF IInv, TypeInv, TypeOK, ItemsTypeOK, OrAbsent, CollectionItem
  <1>2. n <= n
    BY RevisionsAreNumbers
  <1>3. /\ schemaRev[c][n] # Absent
        /\ schemaRev[c][n] = [revision |-> n, schema |-> schema[c].schema]
    BY <1>1, <1>2, HistoryParts DEF SchemaHistory
  <1> QED
    BY <1>1, <1>3

\* What a transaction puts was validated against the schema in force, or
\* keeps the data and the schema revision of the record in force.
LEMMA PutFits ==
    ASSUME IInv, HistoryComplete, RevisionsConform, NEW i \in Invocations,
           CreateRecord(i) \/ UpdateRecord(i) \/ Publish(i) \/ Unpublish(i),
           NEW c \in Collections, c = Request(i).collection
    PROVE  \E item \in RecordItem : PutRecord(i, item) /\ Fits(c, item)
  <1> USE DEF IInv, TypeInv, TypeOK
  <1>1. /\ Conditions(i) /\ Request(i) \in Requests /\ pc[i] = "transact"
        /\ Request(i).action # "createCollection" => seenSchema[i] \in CollectionItem
        /\ Request(i).action \in {"updateRecord"} \cup Publications =>
              seenRecord[i] \in RecordItem
    BY TransactionFacts DEF Transaction
  <1>2. CASE CreateRecord(i)
    <2>1. Request(i).action = "createRecord" /\ seenSchema[i] \in CollectionItem
      BY <1>1, <1>2 DEF CreateRecord, Transacts
    <2>2. SchemaNow(i) # Absent /\ SchemaNow(i).revision = seenSchema[i].revision
      BY <1>1, <2>1 DEF Conditions, CreateRecordConditions, CollectionUnchanged
    <2>3. SchemaNow(i).schema = seenSchema[i].schema
      BY <2>1, <2>2, CurrentSchema
    <2>4. Conforms(seenSchema[i].schema, Request(i).data)
      BY <1>1, <2>1 DEF ChecksMade, Checked, AcceptsData, ValidRecord
    <2>5. NewRecord(i) \in RecordItem
      BY <1>1, <2>1, RecordRequestFields, FirstRevision, RevisionBound
      DEF NewRecord, RecordItem, CollectionItem
    <2>6. /\ NewRecord(i).schemaRevision = seenSchema[i].revision
          /\ NewRecord(i).data = Request(i).data
      BY DEF NewRecord
    <2>7. Fits(c, NewRecord(i))
      BY <2>2, <2>3, <2>4, <2>6, SchemaInHistory DEF SchemaNow, Fits
    <2> QED
      BY <1>2, <2>5, <2>7 DEF CreateRecord
  <1>3. CASE UpdateRecord(i)
    <2>1. /\ Request(i).action = "updateRecord"
          /\ seenSchema[i] \in CollectionItem /\ seenRecord[i] \in RecordItem
      BY <1>1, <1>3 DEF UpdateRecord, Transacts
    <2>2. SchemaNow(i) # Absent /\ SchemaNow(i).revision = seenSchema[i].revision
      BY <1>3, EditTypes
    <2>3. SchemaNow(i).schema = seenSchema[i].schema
      BY <2>1, <2>2, CurrentSchema
    <2>4. Conforms(seenSchema[i].schema, Request(i).data)
      BY <1>1, <2>1 DEF ChecksMade, Checked, AcceptsData, ValidRecord
    <2>5. /\ EditedRecord(i).schemaRevision = seenSchema[i].revision
          /\ EditedRecord(i).data = Request(i).data
      BY <2>1 DEF EditedRecord, RecordItem
    <2>6. Fits(c, EditedRecord(i))
      BY <2>2, <2>3, <2>4, <2>5, SchemaInHistory DEF SchemaNow, Fits
    <2> QED
      BY <1>3, <2>6, EditTypes DEF UpdateRecord
  <1>4. CASE Publish(i) \/ Unpublish(i)
    <2>1. PICK r \in Records : Id(Request(i)) = <<c, r>>
      <3>1. Request(i).action \notin {"createCollection", "updateCollection"}
        BY <1>4 DEF Publish, Unpublish, Transacts
      <3> QED
        BY <1>1, <3>1, RecordRequestFields DEF Id
    <2> DEFINE id == <<c, r>>
    <2>2. /\ id \in RecordIds /\ record[id] # Absent
          /\ seenRecord[i] = record[id] /\ seenRecord[i] \in RecordItem
      BY <1>4, <2>1, EditFacts
    <2>3. record[id].revision \in Revisions /\ record[id].revision <= record[id].revision
      BY <2>2, RevisionsAreNumbers DEF RecordItem
    <2>4. recordRev[id][record[id].revision] = record[id]
      BY <2>2, <2>3 DEF HistoryComplete
    <2>5. Fits(c, seenRecord[i])
      BY <2>2, <2>3, <2>4, ConformParts DEF RevisionsFit
    <2>6. /\ PublishedRecord(i).schemaRevision = seenRecord[i].schemaRevision
          /\ PublishedRecord(i).data = seenRecord[i].data
          /\ UnpublishedRecord(i).schemaRevision = seenRecord[i].schemaRevision
          /\ UnpublishedRecord(i).data = seenRecord[i].data
      BY <2>2 DEF PublishedRecord, UnpublishedRecord, RecordItem
    <2>7. Fits(c, PublishedRecord(i)) /\ Fits(c, UnpublishedRecord(i))
      BY <2>5, <2>6 DEF Fits
    <2> QED
      BY <1>4, <2>7, EditTypes DEF Publish, Unpublish
  <1> QED
    BY <1>2, <1>3, <1>4

\* What fitted fits for ever: neither revision is written again.
LEMMA StillFits ==
    ASSUME HistoryKept, NEW c \in Collections, NEW item \in RecordItem, Fits(c, item)
    PROVE  Fits(c, item)'
  BY DEF HistoryKept, Fits, RecordItem

LEMMA ConformStep ==
    ASSUME IInv, HistoryComplete, HistoryKept, RevisionsConform, [Next]_vars
    PROVE  RevisionsConform'
  <1> USE DEF IInv, TypeInv, TypeOK
  <1> SUFFICES ASSUME NEW c \in Collections, NEW r \in Records, NEW id \in RecordIds,
                      id = <<c, r>>, NEW n \in Revisions, recordRev'[id][n] # Absent
               PROVE  Fits(c, recordRev[id][n])'
    BY DEF RevisionsConform, Fits, RecordIds
  <1>1. CASE recordRev[id][n] # Absent
    <2>1. PICK item \in RecordItem : item = recordRev[id][n]
      BY <1>1 DEF ItemsTypeOK, OrAbsent
    <2>2. recordRev'[id][n] = item
      BY <1>1, <2>1 DEF HistoryKept
    <2>3. Fits(c, item)
      BY <1>1, <2>1, ConformParts DEF RevisionsFit
    <2> QED
      BY <2>2, <2>3, StillFits DEF Fits
  <1>2. CASE recordRev[id][n] = Absent
    <2>1. PICK i \in Invocations : Transaction(i)
      BY <1>2, OtherSteps DEF items
    <2>2. CreateRecord(i) \/ UpdateRecord(i) \/ Publish(i) \/ Unpublish(i)
      BY <1>2, <2>1 DEF Transaction, CreateCollection, UpdateCollection
    <2>3. PICK own \in RecordIds : own = Id(Request(i)) /\ schemaRev' = schemaRev
      BY <2>2, RecordPut
    <2>4. PICK d \in Collections : d = Request(i).collection
      BY <2>1, TransactionFacts
    <2>5. PICK item \in RecordItem : PutRecord(i, item) /\ Fits(d, item)
      BY <2>2, <2>4, PutFits
    <2>6. recordRev' = [recordRev EXCEPT ![own][item.revision] = item]
      BY <2>3, <2>5 DEF PutRecord
    <2>7. own = id /\ recordRev'[id][n] = item
      BY <1>2, <2>6 DEF ItemsTypeOK
    <2>8. d = c
      BY <2>3, <2>4, <2>7 DEF Id
    <2> QED
      BY <2>3, <2>5, <2>7, <2>8 DEF Fits
  <1> QED
    BY <1>1, <1>2

\* Every record revision fits the schema revision that it names.
THEOREM RevisionsDoConform == Spec => []RevisionsConform
  <1>1. Init => RevisionsConform
    <2>1. Init => \A c \in Collections, r \in Records : RevisionsFit(c, <<c, r>>)
      BY DEF Init, RevisionsFit, RecordIds
    <2> QED
      BY <2>1, ConformParts
  <1>2. IInv /\ HistoryComplete /\ RevisionsConform /\ [Next]_vars => RevisionsConform'
    BY HistoryInductive, ConformStep
  <1> QED
    BY <1>1, <1>2, HistoryIsComplete, InvariantHolds, PTL DEF Spec

-----------------------------------------------------------------------------
(* Answers and receipts tell what is in the history.                       *)

\* A result is that of a request which took effect under the key.
Accounted(key, request, result) ==
    /\ \E m \in applied : m.key = key /\ m.request = request
    /\ result \in Results
    /\ Delivered(request, result)

ReceiptsTrue ==
    \A k \in Keys :
        receipt[k] # Absent => Accounted(k, receipt[k].request, receipt[k].result)

RepliesTrue ==
    \A i \in Invocations :
        pc[i] = "done" /\ reply[i].status = "ok" =>
            Accounted(call[i].key, Request(i), reply[i].result)

AnswersInv == ReceiptsTrue /\ RepliesTrue

LEMMA ResultFields ==
    ASSUME NEW result \in Results
    PROVE  /\ result.revision \in Revisions
           /\ "record" \in DOMAIN result => Id(result) \in RecordIds
           /\ "record" \notin DOMAIN result => result.collection \in Collections
  BY DEF Results, Id, RecordIds

\* What is told stays true: the history is immutable.
LEMMA StaysTrue ==
    ASSUME HistoryKept, applied \subseteq applied', NEW key, NEW request, NEW result,
           Accounted(key, request, result)
    PROVE  Accounted(key, request, result)'
  <1>1. \E m \in applied' : m.key = key /\ m.request = request
    BY DEF Accounted
  <1>2. result \in Results /\ Delivered(request, result)
    BY DEF Accounted
  <1>3. CASE "record" \in DOMAIN result
    <2>1. PICK id \in RecordIds, n \in Revisions : id = Id(result) /\ n = result.revision
      BY <1>2, <1>3, ResultFields
    <2>2. recordRev[id][n] # Absent /\ recordRev'[id][n] = recordRev[id][n]
      BY <1>2, <1>3, <2>1 DEF Delivered, HistoryKept
    <2>3. Delivered(request, result)'
      BY <1>2, <1>3, <2>1, <2>2 DEF Delivered
    <2> QED
      BY <1>1, <1>2, <2>3 DEF Accounted
  <1>4. CASE "record" \notin DOMAIN result
    <2>1. PICK c \in Collections, n \in Revisions : c = result.collection /\ n = result.revision
      BY <1>2, <1>4, ResultFields
    <2>2. schemaRev[c][n] # Absent /\ schemaRev'[c][n] = schemaRev[c][n]
      BY <1>2, <1>4, <2>1 DEF Delivered, HistoryKept
    <2>3. Delivered(request, result)'
      BY <1>2, <1>4, <2>1, <2>2 DEF Delivered
    <2> QED
      BY <1>1, <1>2, <2>3 DEF Accounted
  <1> QED
    BY <1>3, <1>4

\* The revision of a record mutation holds what was asked for.
LEMMA RecordDelivered ==
    ASSUME TypeInv, NEW i \in Invocations, NEW request \in Requests, request = Request(i),
           request.action \notin CollectionActions,
           NEW item \in RecordItem, PutRecord(i, item),
           "data" \in DOMAIN request => item.data = request.data,
           NEW result, result = RecordResult(i, item)
    PROVE  Delivered(request, result)'
  <1> USE DEF TypeInv, TypeOK
  <1>1. PICK id \in RecordIds : id = Id(Request(i))
    BY RecordRequestFields DEF CollectionActions
  <1>2. /\ "record" \in DOMAIN result /\ Id(result) = id
        /\ result.revision = item.revision /\ result.status = item.status
    BY <1>1 DEF RecordResult, Id
  <1>3. item.revision \in Revisions /\ item # Absent
    BY AbsentAssumption DEF RecordItem
  <1>4. recordRev' = [recordRev EXCEPT ![id][item.revision] = item]
    BY <1>1 DEF PutRecord
  <1>5. recordRev'[id][item.revision] = item
    BY <1>3, <1>4 DEF ItemsTypeOK
  <1> QED
    BY <1>2, <1>3, <1>5 DEF Delivered

\* The revision of a schema mutation holds the schema that was asked for.
LEMMA SchemaDelivered ==
    ASSUME TypeInv, NEW i \in Invocations, NEW request \in Requests, request = Request(i),
           request.action \in CollectionActions,
           NEW item \in CollectionItem, PutSchema(i, item), item.schema = request.schema,
           NEW result, result = CollectionResult(i, item.revision)
    PROVE  Delivered(request, result)'
  <1> USE DEF TypeInv, TypeOK
  <1> DEFINE c == request.collection
             entry == [revision |-> item.revision, schema |-> item.schema]
  <1>1. c \in Collections /\ item.revision \in Revisions
    BY RequestKinds DEF CollectionItem
  <1>2. /\ "record" \notin DOMAIN result
        /\ result.collection = c /\ result.revision = item.revision
    BY DEF CollectionResult
  <1>3. entry \in CollectionRevisionItem
    BY <1>1 DEF CollectionItem, CollectionRevisionItem
  <1>4. entry # Absent /\ entry.schema = request.schema
    BY <1>3, AbsentAssumption
  <1>5. schemaRev' = [schemaRev EXCEPT ![c][item.revision] = entry]
    BY DEF PutSchema
  <1>6. schemaRev'[c][item.revision] = entry
    BY <1>1, <1>5 DEF ItemsTypeOK
  <1> HIDE DEF entry
  <1> QED
    BY <1>2, <1>4, <1>6 DEF Delivered

\* The result that a transaction settles with is delivered by it.
LEMMA TransactionDelivers ==
    ASSUME IInv, NEW i \in Invocations, Transaction(i), NEW request \in Requests,
           request = Request(i)
    PROVE  \E result \in Results : Settle(i, result) /\ Delivered(request, result)'
  <1> USE DEF IInv, TypeInv, TypeOK
  <1>1. /\ request.collection \in Collections
        /\ request.action # "createCollection" => seenSchema[i] \in CollectionItem
        /\ request.action \in {"updateRecord"} \cup Publications => seenRecord[i] \in RecordItem
    BY TransactionFacts
  <1>2. CASE CreateCollection(i)
    <2> DEFINE new == [revision |-> 1, recordCount |-> 0, schema |-> request.schema]
    <2>1. request.action = "createCollection"
      BY <1>2 DEF CreateCollection, Transacts
    <2>2. new \in CollectionItem /\ new.revision = 1 /\ new.schema = request.schema
      BY <2>1, CollectionRequestFields, FirstRevision DEF CollectionItem
    <2>3. CollectionResult(i, 1) \in Results
      BY <1>1, FirstRevision DEF CollectionResult, Results
    <2>4. PutSchema(i, new) /\ Settle(i, CollectionResult(i, 1))
      BY <1>2 DEF CreateCollection
    <2>5. ASSUME NEW result \in Results, result = CollectionResult(i, 1)
          PROVE  Delivered(request, result)'
      BY <2>1, <2>2, <2>4, <2>5, SchemaDelivered DEF CollectionActions
    <2>6. PICK result \in Results : result = CollectionResult(i, 1)
      BY <2>3
    <2> QED
      BY <2>4, <2>5, <2>6
  <1>3. CASE UpdateCollection(i)
    <2> DEFINE new == [seenSchema[i] EXCEPT !.revision = NextRevision(i),
                                            !.schema = request.schema]
    <2>1. request.action = "updateCollection"
      BY <1>3 DEF UpdateCollection, Transacts
    <2>2. NextRevision(i) \in Revisions /\ request.schema \in Schemas
      BY <2>1, CollectionRequestFields, ExpectedRevision DEF NextRevision
    <2>3. /\ new \in CollectionItem /\ new.revision = NextRevision(i)
          /\ new.schema = request.schema
      BY <1>1, <2>1, <2>2 DEF CollectionItem
    <2>4. CollectionResult(i, NextRevision(i)) \in Results
      BY <1>1, <2>2 DEF CollectionResult, Results
    <2>5. PutSchema(i, new) /\ Settle(i, CollectionResult(i, NextRevision(i)))
      BY <1>3 DEF UpdateCollection
    <2>6. PICK result \in Results : result = CollectionResult(i, NextRevision(i))
      BY <2>4
    <2>7. Delivered(request, result)'
      BY <2>1, <2>3, <2>5, <2>6, SchemaDelivered DEF CollectionActions
    <2> QED
      BY <2>5, <2>6, <2>7
  <1>4. ASSUME NEW item \in RecordItem, PutRecord(i, item), Settle(i, RecordResult(i, item)),
               request.action \notin CollectionActions,
               "data" \in DOMAIN request => item.data = request.data
        PROVE  \E result \in Results : Settle(i, result) /\ Delivered(request, result)'
    <2>1. RecordResult(i, item) \in Results
      BY <1>1, <1>4, RecordRequestFields DEF RecordResult, Results, RecordItem, CollectionActions
    <2>2. PICK result \in Results : result = RecordResult(i, item)
      BY <2>1
    <2>3. Delivered(request, result)'
      BY <1>4, <2>2, RecordDelivered
    <2> QED
      BY <1>4, <2>2, <2>3
  <1>5. CASE CreateRecord(i)
    <2>1. request.action = "createRecord"
      BY <1>5 DEF CreateRecord, Transacts
    <2>2. NewRecord(i) \in RecordItem
      BY <1>1, <2>1, RecordRequestFields, FirstRevision, RevisionBound
      DEF NewRecord, RecordItem, CollectionItem
    <2>3. NewRecord(i).data = request.data
      BY DEF NewRecord
    <2> QED
      BY <1>4, <1>5, <2>1, <2>2, <2>3 DEF CreateRecord, CollectionActions
  <1>6. CASE UpdateRecord(i)
    <2>1. request.action = "updateRecord"
      BY <1>6 DEF UpdateRecord, Transacts
    <2>2. EditedRecord(i) \in RecordItem
      BY <1>6, EditTypes
    <2>3. EditedRecord(i).data = request.data
      BY <1>1, <2>1 DEF EditedRecord, RecordItem
    <2> QED
      BY <1>4, <1>6, <2>1, <2>2, <2>3 DEF UpdateRecord, CollectionActions
  <1>7. CASE Publish(i) \/ Unpublish(i)
    <2>1. request.action \in Publications
      BY <1>7 DEF Publish, Unpublish, Transacts, Publications
    <2>2. request.action \notin CollectionActions /\ "data" \notin DOMAIN request
      BY <2>1, RequestKinds DEF CollectionActions, PublicationRequests, Publications
    <2> QED
      BY <1>4, <1>7, <2>2, EditTypes DEF Publish, Unpublish
  <1> QED
    BY <1>2, <1>3, <1>5, <1>6, <1>7 DEF Transaction

LEMMA TransactionTells ==
    ASSUME IInv, HistoryKept, AnswersInv, NEW i \in Invocations, Transaction(i)
    PROVE  AnswersInv'
  <1> USE DEF IInv, TypeInv, TypeOK
  <1>1. PICK request \in Requests : request = Request(i)
    BY TransactionFacts
  <1>2. PICK result \in Results : Settle(i, result) /\ Delivered(request, result)'
    BY <1>1, TransactionDelivers
  <1>3. PICK key \in Keys : key = call[i].key
    BY SettledStep
  <1>4. /\ applied' = applied \cup {Mutation(i)}
        /\ Mutation(i).key = key /\ Mutation(i).request = request
    BY <1>1, <1>3, SettledStep DEF Mutation
  <1>5. Accounted(key, request, result)'
    BY <1>2, <1>4 DEF Accounted
  <1>6. ReceiptsTrue'
    <2> SUFFICES ASSUME NEW k \in Keys, receipt'[k] # Absent
                 PROVE  Accounted(k, receipt[k].request, receipt[k].result)'
      BY DEF ReceiptsTrue
    <2>1. CASE k = key
      <3>1. receipt' = [receipt EXCEPT ![key] = [request |-> request, result |-> result,
                                                 expiresAt |-> Expiry(i)]]
        BY <1>1, <1>2, <1>3 DEF Settle
      <3>2. receipt'[k].request = request /\ receipt'[k].result = result
        BY <2>1, <3>1 DEF JournalTypeOK
      <3> QED
        BY <1>5, <2>1, <3>2 DEF Accounted, Delivered
    <2>2. CASE k # key
      <3>1. receipt'[k] = receipt[k]
        BY <1>3, <2>2, SettledStep
      <3>2. PICK was, got : was = receipt[k].request /\ got = receipt[k].result
        OBVIOUS
      <3>3. Accounted(k, was, got)
        BY <3>1, <3>2 DEF AnswersInv, ReceiptsTrue
      <3>4. Accounted(k, was, got)'
        BY <1>4, <3>3, StaysTrue
      <3> QED
        BY <3>1, <3>2, <3>4 DEF Accounted, Delivered
    <2> QED
      BY <2>1, <2>2
  <1>7. RepliesTrue'
    <2> SUFFICES ASSUME NEW j \in Invocations, pc'[j] = "done", reply'[j].status = "ok"
                 PROVE  Accounted(call[j].key, Request(j), reply[j].result)'
      BY DEF RepliesTrue
    <2>1. PICK answer \in {[status |-> "ok", result |-> result], [status |-> "internal_error"]} :
             Answer(i, answer)
      BY <1>2 DEF Settle
    <2>2. reply' = [reply EXCEPT ![i] = answer] /\ call' = call
      BY <2>1 DEF Answer
    <2>3. CASE j = i
      <3>1. reply'[j] = answer
        BY <2>2, <2>3 DEF InvocationsTypeOK
      <3>2. reply'[j].result = result
        BY <2>1, <3>1
      <3>3. call'[j].key = key /\ Request(j)' = request
        BY <1>1, <1>3, <2>2, <2>3 DEF Request
      <3> QED
        BY <1>5, <3>2, <3>3 DEF Accounted, Delivered
    <2>4. CASE j # i
      <3>1. reply'[j] = reply[j] /\ call'[j] = call[j] /\ pc[j] = "done"
        BY <2>2, <2>4, SettledStep DEF InvocationsTypeOK
      <3>2. PICK k, was, got : k = call[j].key /\ was = Request(j) /\ got = reply[j].result
        OBVIOUS
      <3>3. Accounted(k, was, got)
        BY <3>1, <3>2 DEF AnswersInv, RepliesTrue
      <3>4. Accounted(k, was, got)'
        BY <1>4, <3>3, StaysTrue
      <3> QED
        BY <3>1, <3>2, <3>4 DEF Accounted, Delivered, Request
    <2> QED
      BY <2>3, <2>4
  <1> QED
    BY <1>6, <1>7 DEF AnswersInv

\* Without a transaction an invocation answers "ok" only from a receipt.
LEMMA OkFromReceipt ==
    ASSUME TypeInv, NEW i \in Invocations, Invoke(i), ~Transaction(i),
           NEW j \in Invocations, pc'[j] = "done", reply'[j].status = "ok"
    PROVE  /\ call'[j] = call[j]
           /\ \/ pc[j] = "done" /\ reply'[j] = reply[j]
              \/ /\ call[j] # Absent
                 /\ receipt[call[j].key] # Absent
                 /\ receipt[call[j].key].request = Request(j)
                 /\ receipt[call[j].key].result = reply'[j].result
  <1> USE DEF TypeInv, TypeOK, InvocationsTypeOK
  <1>a. ASSUME NEW code \in Refusals, Refuse(i, code)
        PROVE  pc[j] = "done" /\ reply'[j] = reply[j] /\ call'[j] = call[j]
    <2>1. i # j
      BY <1>a DEF Refuse, Answer, Refusals
    <2> QED
      BY <1>a, <2>1 DEF Refuse, Answer, Goto
  <1>b. ASSUME NEW step \in {"space", "schema", "record", "transact"}, Continue(i, step)
        PROVE  pc[j] = "done" /\ reply'[j] = reply[j] /\ call'[j] = call[j]
    BY <1>b DEF Continue, Goto
  <1>c. /\ "conflict" \in Refusals /\ "not_found" \in Refusals
        /\ "validation_error" \in Refusals /\ "internal_error" \in Refusals
    BY DEF Refusals
  <1>1. CASE Begin(i)
    BY <1>1 DEF Begin, Goto
  <1>2. CASE Return(i)
    BY <1>2 DEF Return, Goto
  <1>3. CASE Crash(i)
    BY <1>3 DEF Crash, Goto
  <1>4. CASE Replay(i)
    <2>1. CASE j = i
      <3>1. call[i] # Absent
        BY <1>4 DEF Replay, At, SnapshotsThere
      <3> QED
        BY <1>4, <2>1, <3>1 DEF Replay, IsReplay, Existing, Answer
    <2>2. CASE j # i
      BY <1>4, <2>2 DEF Replay, Answer, Goto
    <2> QED
      BY <2>1, <2>2
  <1>5. CASE Proceed(i)
    <2>1. FirstRead(Request(i).action) \in {"space", "schema", "record"}
      BY DEF FirstRead
    <2> QED
      BY <1>5, <1>b, <2>1 DEF Proceed
  <1>6. CASE RefuseKeyReuse(i) \/ RefuseSchema(i) \/ NotFound(i) \/ ConditionFailed(i)
              \/ BackendError(i)
    BY <1>6, <1>a, <1>c
    DEF RefuseKeyReuse, RefuseSchema, NotFound, ConditionFailed, BackendError
  <1>7. CASE CreateCollectionRead(i)
    BY <1>7, <1>a, <1>b, <1>c DEF CreateCollectionRead
  <1>8. CASE UpdateCollectionRead(i)
    BY <1>8, <1>a, <1>b, <1>c DEF UpdateCollectionRead
  <1>9. CASE CreateRecordRead(i)
    BY <1>9, <1>a, <1>b, <1>c DEF CreateRecordRead
  <1>10. CASE UpdateRecordReadSchema(i)
    BY <1>10, <1>b DEF UpdateRecordReadSchema
  <1>11. CASE UpdateRecordReadRecord(i)
    BY <1>11, <1>a, <1>b, <1>c DEF UpdateRecordReadRecord
  <1>12. CASE PublicationReadRecord(i)
    BY <1>12, <1>b DEF PublicationReadRecord
  <1>13. CASE PublicationReadSchema(i)
    BY <1>13, <1>a, <1>b, <1>c DEF PublicationReadSchema
  <1> QED
    BY <1>1, <1>2, <1>3, <1>4, <1>5, <1>6, <1>7, <1>8, <1>9, <1>10, <1>11, <1>12, <1>13
    DEF Invoke, Transaction

LEMMA OthersTell ==
    ASSUME IInv, HistoryKept, AnswersInv, [Next]_vars, \A i \in Invocations : ~Transaction(i)
    PROVE  AnswersInv'
  <1> USE DEF IInv, TypeInv, TypeOK
  <1>1. applied' = applied /\ \A k \in Keys : receipt'[k] \in {receipt[k], Absent}
    BY NothingSettled
  <1>2. ReceiptsTrue'
    <2> SUFFICES ASSUME NEW k \in Keys, receipt'[k] # Absent
                 PROVE  Accounted(k, receipt[k].request, receipt[k].result)'
      BY DEF ReceiptsTrue
    <2>1. receipt'[k] = receipt[k]
      BY <1>1
    <2>2. PICK was, got : was = receipt[k].request /\ got = receipt[k].result
      OBVIOUS
    <2>3. Accounted(k, was, got)
      BY <2>1, <2>2 DEF AnswersInv, ReceiptsTrue
    <2>4. Accounted(k, was, got)'
      BY <1>1, <2>3, StaysTrue
    <2> QED
      BY <2>1, <2>2, <2>4 DEF Accounted, Delivered
  <1>3. RepliesTrue'
    <2> SUFFICES ASSUME NEW j \in Invocations, pc'[j] = "done", reply'[j].status = "ok"
                 PROVE  Accounted(call[j].key, Request(j), reply[j].result)'
      BY DEF RepliesTrue
    <2>1. /\ call'[j] = call[j]
          /\ \/ pc[j] = "done" /\ reply'[j] = reply[j]
             \/ /\ call[j] # Absent
                /\ receipt[call[j].key] # Absent
                /\ receipt[call[j].key].request = Request(j)
                /\ receipt[call[j].key].result = reply'[j].result
      <3>1. CASE \E i \in Invocations : Invoke(i)
        BY <3>1, OkFromReceipt
      <3>2. CASE Tick \/ (\E k \in Keys : ExpireReceipt(k)) \/ UNCHANGED vars
        BY <3>2 DEF Tick, ExpireReceipt, vars, local
      <3> QED
        BY <3>1, <3>2 DEF Next
    <2>2. PICK k, was, got : k = call[j].key /\ was = Request(j) /\ got = reply'[j].result
      OBVIOUS
    <2>3. Accounted(k, was, got)
      <3>1. CASE pc[j] = "done" /\ reply'[j] = reply[j]
        BY <2>2, <3>1 DEF AnswersInv, RepliesTrue
      <3>2. CASE /\ call[j] # Absent
                 /\ receipt[call[j].key] # Absent
                 /\ receipt[call[j].key].request = Request(j)
                 /\ receipt[call[j].key].result = reply'[j].result
        <4>1. k \in Keys
          BY <2>2, <3>2, CallTypes
        <4> QED
          BY <2>2, <3>2, <4>1 DEF AnswersInv, ReceiptsTrue
      <3> QED
        BY <2>1, <3>1, <3>2
    <2>4. Accounted(k, was, got)'
      BY <1>1, <2>3, StaysTrue
    <2> QED
      BY <2>1, <2>2, <2>4 DEF Accounted, Delivered, Request
  <1> QED
    BY <1>2, <1>3 DEF AnswersInv

LEMMA AnswersHold == Spec => []AnswersInv
  <1>1. Init => AnswersInv
    BY DEF Init, AnswersInv, ReceiptsTrue, RepliesTrue
  <1>2. IInv /\ HistoryComplete /\ AnswersInv /\ [Next]_vars => AnswersInv'
    BY HistoryInductive, TransactionTells, OthersTell
  <1> QED
    BY <1>1, <1>2, HistoryIsComplete, InvariantHolds, PTL DEF Spec

\* A client that is told of success, by the invocation that committed or by a
\* replay, finds its own request applied, under its key, as the answer says.
THEOREM ToldIsTrue == Spec => []AnswersAreTrue
  <1>1. AnswersInv => AnswersAreTrue
    BY DEF AnswersInv, RepliesTrue, Accounted, AnswersAreTrue
  <1> QED
    BY <1>1, AnswersHold, PTL
=============================================================================
