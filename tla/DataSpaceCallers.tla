-------------------------- MODULE DataSpaceCallers --------------------------
(***************************************************************************)
(* Those who call the store.  What readers are shown is history, and never *)
(* goes back in time, for every number of concurrent invocations that      *)
(* change what is read.  Then what clients that retry may conclude from an *)
(* answer, for any requests, keys and policies, however many invocations   *)
(* run at once and whatever fails.                                         *)
(***************************************************************************)
EXTENDS RecordReads, RetryingClient, DataSpaceHistory

-----------------------------------------------------------------------------
(* What readers are shown.                                                 *)

\* A read is one of four.
LEMMA ReadKinds ==
    ASSUME Read
    PROVE  \E c \in Collections :
              \/ ReadCollection(c)
              \/ \E r \in Records :
                    \/ ReadRecord(c, r)
                    \/ ReadPublic(c, r)
                    \/ \E n \in Revisions, fields \in SUBSET Fields,
                          identities \in SUBSET Callers, descriptor \in SpaceCases :
                          ReadSnapshot(c, r, n, fields, descriptor, identities)
  BY DEF Read, ReadUnder

LEMMA ReadLeaves == Read => UNCHANGED vars
  <1>1. ASSUME NEW answer, Tell(answer) PROVE UNCHANGED vars
    BY <1>1 DEF Tell
  <1>2. ASSUME NEW c, ReadCollection(c) PROVE UNCHANGED vars
    BY <1>1, <1>2 DEF ReadCollection
  <1>3. ASSUME NEW c, NEW r, ReadRecord(c, r) \/ ReadPublic(c, r) PROVE UNCHANGED vars
    BY <1>1, <1>3 DEF ReadRecord, ReadPublic
  <1>4. ASSUME NEW c, NEW r, NEW n, NEW fields, NEW descriptor, NEW identities,
               ReadSnapshot(c, r, n, fields, descriptor, identities)
        PROVE  UNCHANGED vars
    BY <1>1, <1>4 DEF ReadSnapshot
  <1> QED
    BY <1>2, <1>3, <1>4, ReadKinds

\* Reads leave the store alone: all that is proved of it holds here.
THEOREM ReadsChangeNothing == ReadSpec => Spec
  <1>1. ReadInit => Init
    BY DEF ReadInit
  <1>2. [ReadNext]_readVars => [Next]_vars
    BY ReadLeaves DEF ReadNext, readVars
  <1> QED
    BY <1>1, <1>2, PTL DEF ReadSpec, Spec

-----------------------------------------------------------------------------
(* The public item is in the history: at the revision it shows, which is   *)
(* one later than the revision that was projected.                         *)

PublicHeld(id) ==
    public[id] # Absent =>
        LET source == recordRev[id][public[id].revision] IN
        /\ source # Absent
        /\ \A f \in DOMAIN public[id].data :
              f \in DOMAIN source.data /\ source.data[f] = public[id].data[f]

PublicInHistory == \A id \in RecordIds : PublicHeld(id)

LEMMA PublicHeldStays ==
    ASSUME IInv, HistoryKept, NEW id \in RecordIds, PublicHeld(id),
           public'[id] = public[id] \/ public'[id] = Absent
    PROVE  PublicHeld(id)'
  <1> USE DEF IInv, TypeInv, TypeOK
  <1> SUFFICES ASSUME public[id] # Absent, public'[id] = public[id]
               PROVE  PublicHeld(id)'
    BY DEF PublicHeld
  <1>1. PICK n \in Revisions : n = public[id].revision
    BY DEF ItemsTypeOK, OrAbsent, PublicItem
  <1>2. recordRev'[id][n] = recordRev[id][n]
    BY <1>1 DEF HistoryKept, PublicHeld
  <1> QED
    BY <1>1, <1>2 DEF PublicHeld

\* A publication puts the data it projects under its own revision again.
LEMMA PublishHolds ==
    ASSUME IInv, NEW i \in Invocations, Publish(i), NEW id \in RecordIds, id = Id(Request(i))
    PROVE  PublicHeld(id)' /\ public'[id].revision = record[id].revision + 1
  <1> USE DEF IInv, TypeInv, TypeOK
  <1>1. /\ PublishedRecord(i) \in RecordItem /\ seenRecord[i] \in RecordItem
        /\ record[id].revision = Request(i).expected
    BY EditTypes, EditFacts
  <1>2. PICK item \in RecordItem : item = PublishedRecord(i)
    BY <1>1
  <1>3. /\ item.data = seenRecord[i].data /\ item.revision = NextRevision(i)
        /\ item.revision \in Revisions /\ item # Absent
    BY <1>1, <1>2, AbsentAssumption DEF RecordItem, PublishedRecord
  <1>4. recordRev'[id][NextRevision(i)] = item
    BY <1>2, <1>3 DEF Publish, PutRecord, ItemsTypeOK
  <1>5. public'[id] = PublicEntry(i)
    BY DEF Publish, ItemsTypeOK
  <1>6. /\ PublicEntry(i).revision = NextRevision(i)
        /\ \A f \in DOMAIN PublicEntry(i).data :
              f \in DOMAIN item.data /\ PublicEntry(i).data[f] = item.data[f]
    BY <1>3 DEF PublicEntry, Projection, Project, PublicFields
  <1> QED
    BY <1>1, <1>3, <1>4, <1>5, <1>6 DEF PublicHeld, NextRevision

\* What a step does to the public item of a record.
LEMMA PublicStep ==
    ASSUME IInv, [Next]_vars, NEW id \in RecordIds
    PROVE  \/ public'[id] = public[id] \/ public'[id] = Absent
           \/ \E i \in Invocations : Publish(i) /\ id = Id(Request(i))
  <1>1. CASE \A i \in Invocations : ~Transaction(i)
    BY <1>1, OtherSteps DEF items
  <1>2. ASSUME NEW i \in Invocations, Transaction(i)
        PROVE  \/ public'[id] = public[id] \/ public'[id] = Absent
               \/ Publish(i) /\ id = Id(Request(i))
    BY <1>2
    DEF Transaction, CreateCollection, UpdateCollection, CreateRecord, UpdateRecord, Publish,
        Unpublish, Withdrawn, IInv, TypeInv, TypeOK, ItemsTypeOK
  <1> QED
    BY <1>1, <1>2

LEMMA PublicInHistoryStep ==
    IInv /\ HistoryKept /\ PublicInHistory /\ [Next]_vars => PublicInHistory'
  <1> SUFFICES ASSUME IInv, HistoryKept, PublicInHistory, [Next]_vars,
                      NEW id \in RecordIds
               PROVE  PublicHeld(id)'
    BY DEF PublicInHistory
  <1>1. CASE public'[id] = public[id] \/ public'[id] = Absent
    BY <1>1, PublicHeldStays DEF PublicInHistory
  <1>2. CASE \E i \in Invocations : Publish(i) /\ id = Id(Request(i))
    BY <1>2, PublishHolds
  <1> QED
    BY <1>1, <1>2, PublicStep
-----------------------------------------------------------------------------
(* Answers.                                                                *)

\* What an answer names can be looked up.
WellAddressed(answer) ==
    /\ answer.collection \in Collections
    /\ answer.revision \in Revisions
    /\ OfRecord(answer) => answer.record \in Records

InHistory(answer) ==
    /\ WellAddressed(answer)
    /\ RevisionNamed(answer) # Absent
    /\ Holds(RevisionNamed(answer), answer)

\* A public item is never older than a public answer about it.
NotAhead(answer) ==
    LET id == <<answer.collection, answer.record>>
    IN  answer.kind = "public" =>
            /\ OfRecord(answer)
            /\ public[id] # Absent => answer.revision <= public[id].revision

ToldInv == told # Absent => InHistory(told) /\ NotAhead(told)

\* What is true of an answer when it is given: it is in the history, and, a
\* snapshot apart, it is what is current.
Fresh(answer) ==
    LET id == <<answer.collection, answer.record>> IN
    /\ InHistory(answer)
    /\ answer.kind \in {"collection", "record", "public", "snapshot"}
    /\ OfRecord(answer) <=> answer.kind # "collection"
    /\ answer.kind = "collection" => answer.revision = schema[answer.collection].revision
    /\ answer.kind = "record" => answer.revision = record[id].revision
    /\ answer.kind = "public" => public[id] # Absent /\ answer.revision = public[id].revision

LEMMA CollectionFresh ==
    ASSUME IInv, HistoryComplete, NEW c \in Collections, ReadCollection(c)
    PROVE  \E answer : Tell(answer) /\ Fresh(answer)
  <1> USE DEF IInv, TypeInv, TypeOK
  <1> DEFINE answer == [kind |-> "collection", collection |-> c,
                        revision |-> schema[c].revision, values |-> schema[c].schema]
  <1>1. schema[c] # Absent /\ Tell(answer)
    BY DEF ReadCollection
  <1>2. PICK n \in Revisions : n = schema[c].revision
    BY <1>1 DEF ItemsTypeOK, OrAbsent, CollectionItem
  <1>3. n <= n
    BY RevisionsAreNumbers
  <1>4. /\ schemaRev[c][n] # Absent
        /\ schemaRev[c][n] = [revision |-> n, schema |-> schema[c].schema]
    BY <1>1, <1>2, <1>3, HistoryParts DEF SchemaHistory
  <1>5. ~OfRecord(answer) /\ "schemaRevision" \notin DOMAIN answer
    BY DEF OfRecord
  <1>6. RevisionNamed(answer) = schemaRev[c][n]
    BY <1>2, <1>5 DEF RevisionNamed
  <1>7. InHistory(answer)
    BY <1>2, <1>4, <1>5, <1>6 DEF InHistory, WellAddressed, Holds
  <1> QED
    BY <1>1, <1>5, <1>7 DEF Fresh

\* The two reads of a record and that of the public item.
LEMMA RecordFresh ==
    ASSUME IInv, HistoryComplete, PublicInHistory, NEW c \in Collections, NEW r \in Records,
           ReadRecord(c, r) \/ ReadPublic(c, r)
    PROVE  \E answer : Tell(answer) /\ Fresh(answer)
  <1> USE DEF IInv, TypeInv, TypeOK
  <1>0. PICK id \in RecordIds : id = <<c, r>>
    BY DEF RecordIds
  <1>1. CASE ReadRecord(c, r)
    <2> DEFINE answer == [kind |-> "record", collection |-> c, record |-> r,
                          revision |-> record[id].revision,
                          schemaRevision |-> record[id].schemaRevision,
                          values |-> record[id].data]
    <2>1. record[id] # Absent /\ Tell(answer)
      BY <1>0, <1>1 DEF ReadRecord
    <2>2. PICK n \in Revisions : n = record[id].revision
      BY <2>1 DEF ItemsTypeOK, OrAbsent, RecordItem
    <2>3. n <= n
      BY RevisionsAreNumbers
    <2>4. recordRev[id][n] # Absent /\ recordRev[id][n] = record[id]
      BY <2>1, <2>2, <2>3, HistoryParts DEF RecordHistory
    <2>5. OfRecord(answer)
      BY DEF OfRecord
    <2>6. RevisionNamed(answer) = recordRev[id][n]
      BY <1>0, <2>2, <2>5 DEF RevisionNamed
    <2>7. InHistory(answer)
      BY <2>2, <2>4, <2>5, <2>6 DEF InHistory, WellAddressed, Holds
    <2>8. /\ answer.kind = "record" /\ <<answer.collection, answer.record>> = id
          /\ answer.revision = record[id].revision
      BY <1>0
    <2> HIDE DEF answer
    <2> QED
      BY <2>1, <2>5, <2>7, <2>8 DEF Fresh
  <1>2. CASE ReadPublic(c, r)
    <2> DEFINE answer == [kind |-> "public", collection |-> c, record |-> r,
                          revision |-> public[id].revision, values |-> public[id].data]
    <2>1. public[id] # Absent /\ Tell(answer)
      BY <1>0, <1>2 DEF ReadPublic
    <2>2. PICK n \in Revisions : n = public[id].revision
      BY <2>1 DEF ItemsTypeOK, OrAbsent, PublicItem
    <2>3. PublicHeld(id)
      BY DEF PublicInHistory
    <2>4. OfRecord(answer) /\ "schemaRevision" \notin DOMAIN answer
      BY DEF OfRecord
    <2>5. RevisionNamed(answer) = recordRev[id][n]
      BY <1>0, <2>2, <2>4 DEF RevisionNamed
    <2>6. InHistory(answer)
      BY <2>1, <2>2, <2>3, <2>4, <2>5 DEF InHistory, WellAddressed, Holds, PublicHeld
    <2>7. /\ answer.kind = "public" /\ <<answer.collection, answer.record>> = id
          /\ answer.revision = public[id].revision
      BY <1>0
    <2> HIDE DEF answer
    <2> QED
      BY <2>1, <2>4, <2>6, <2>7 DEF Fresh
  <1> QED
    BY <1>1, <1>2

LEMMA SnapshotFresh ==
    ASSUME NEW c \in Collections, NEW r \in Records, NEW n \in Revisions,
           NEW fields, NEW descriptor, NEW identities,
           ReadSnapshot(c, r, n, fields, descriptor, identities)
    PROVE  \E answer : Tell(answer) /\ Fresh(answer)
  <1> DEFINE item == recordRev[<<c, r>>][n]
             answer == [kind |-> "snapshot", collection |-> c, record |-> r, revision |-> n,
                        schemaRevision |-> item.schemaRevision,
                        values |-> [f \in fields |-> item.data[f]]]
  <1>1. item # Absent /\ fields \subseteq DOMAIN item.data /\ Tell(answer)
    BY DEF ReadSnapshot
  <1>2. OfRecord(answer)
    BY DEF OfRecord
  <1>3. RevisionNamed(answer) = item
    BY <1>2 DEF RevisionNamed
  <1>4. InHistory(answer)
    BY <1>1, <1>2, <1>3 DEF InHistory, WellAddressed, Holds
  <1>5. answer.kind = "snapshot"
    OBVIOUS
  <1> HIDE DEF answer
  <1> QED
    BY <1>1, <1>2, <1>4, <1>5 DEF Fresh

LEMMA ReadsAreFresh ==
    ASSUME IInv, HistoryComplete, PublicInHistory, Read
    PROVE  \E answer : Tell(answer) /\ Fresh(answer)
  BY ReadKinds, CollectionFresh, RecordFresh, SnapshotFresh
-----------------------------------------------------------------------------
(* The invariant.                                                          *)

LEMMA StaysInHistory ==
    ASSUME HistoryKept, told # Absent, InHistory(told), told' = told
    PROVE  InHistory(told)'
  <1>1. PICK n \in Revisions : n = told.revision
    BY DEF InHistory, WellAddressed
  <1>2. CASE OfRecord(told)
    <2>1. PICK id \in RecordIds : id = <<told.collection, told.record>>
      BY <1>2 DEF InHistory, WellAddressed, RecordIds
    <2>2. recordRev[id][n] # Absent /\ RevisionNamed(told) = recordRev[id][n]
      BY <1>1, <1>2, <2>1 DEF InHistory, RevisionNamed
    <2>3. RevisionNamed(told)' = recordRev'[id][n]
      BY <1>1, <1>2, <2>1 DEF RevisionNamed, OfRecord
    <2>4. RevisionNamed(told)' = RevisionNamed(told)
      BY <2>2, <2>3 DEF HistoryKept
    <2> QED
      BY <2>4 DEF InHistory, WellAddressed, Holds, OfRecord
  <1>3. CASE ~OfRecord(told)
    <2>1. PICK c \in Collections : c = told.collection
      BY DEF InHistory, WellAddressed
    <2>2. schemaRev[c][n] # Absent /\ RevisionNamed(told) = schemaRev[c][n]
      BY <1>1, <1>3, <2>1 DEF InHistory, RevisionNamed
    <2>3. RevisionNamed(told)' = schemaRev'[c][n]
      BY <1>1, <1>3, <2>1 DEF RevisionNamed, OfRecord
    <2>4. RevisionNamed(told)' = RevisionNamed(told)
      BY <2>2, <2>3 DEF HistoryKept
    <2> QED
      BY <2>4 DEF InHistory, WellAddressed, Holds, OfRecord
  <1> QED
    BY <1>2, <1>3

\* The current item has every revision of the history, and so is not older
\* than an answer.
LEMMA CurrentIsNewest ==
    ASSUME HistoryComplete, NEW answer, InHistory(answer)
    PROVE  LET id == <<answer.collection, answer.record>> IN
           /\ OfRecord(answer) => record[id] # Absent /\ answer.revision <= record[id].revision
           /\ ~OfRecord(answer) => /\ schema[answer.collection] # Absent
                                   /\ answer.revision <= schema[answer.collection].revision
  <1>1. PICK n \in Revisions : n = answer.revision
    BY DEF InHistory, WellAddressed
  <1>2. CASE OfRecord(answer)
    <2>1. PICK id \in RecordIds : id = <<answer.collection, answer.record>>
      BY <1>2 DEF InHistory, WellAddressed, RecordIds
    <2>2. recordRev[id][n] # Absent
      BY <1>1, <1>2, <2>1 DEF InHistory, RevisionNamed
    <2>3. record[id] # Absent /\ n <= record[id].revision
      BY <2>2, HistoryParts DEF RecordHistory
    <2> QED
      BY <1>1, <1>2, <2>1, <2>3
  <1>3. CASE ~OfRecord(answer)
    <2>1. PICK c \in Collections : c = answer.collection
      BY DEF InHistory, WellAddressed
    <2>2. schemaRev[c][n] # Absent
      BY <1>1, <1>3, <2>1 DEF InHistory, RevisionNamed
    <2>3. schema[c] # Absent /\ n <= schema[c].revision
      BY <2>2, HistoryParts DEF SchemaHistory
    <2> QED
      BY <1>1, <1>3, <2>1, <2>3
  <1> QED
    BY <1>2, <1>3
LEMMA NeverAhead ==
    ASSUME IInv, HistoryComplete, [Next]_vars,
           told # Absent, InHistory(told), NotAhead(told), told' = told
    PROVE  NotAhead(told)'
  <1> USE DEF IInv, TypeInv, TypeOK
  <1> SUFFICES ASSUME told.kind = "public",
                      public'[<<told.collection, told.record>>] # Absent
               PROVE  told.revision <= public'[<<told.collection, told.record>>].revision
    BY DEF NotAhead, OfRecord
  <1>1. PICK id \in RecordIds : id = <<told.collection, told.record>>
    BY DEF InHistory, WellAddressed, NotAhead, RecordIds
  <1>2. CASE public'[id] = public[id]
    BY <1>1, <1>2 DEF NotAhead
  <1>3. ASSUME NEW i \in Invocations, Publish(i), id = Id(Request(i))
        PROVE  told.revision <= public'[id].revision
    <2>1. public'[id].revision = record[id].revision + 1
      BY <1>3, PublishHolds
    <2>2. told.revision \in Nat /\ told.revision <= record[id].revision /\ record[id] # Absent
      BY <1>1, CurrentIsNewest, RevisionsAreNumbers DEF InHistory, WellAddressed, NotAhead
    <2>3. record[id].revision \in Nat
      BY <2>2, ItemRevisions
    <2> QED
      BY <2>1, <2>2, <2>3
  <1> QED
    BY <1>1, <1>2, <1>3, PublicStep

\* A read tells what is true at its time.
LEMMA ReadTells ==
    ASSUME IInv, HistoryComplete, PublicInHistory, Read
    PROVE  told' # Absent => InHistory(told)' /\ NotAhead(told)'
  <1>1. PICK answer : Tell(answer) /\ Fresh(answer)
    BY ReadsAreFresh
  <1>2. told' = answer /\ UNCHANGED <<schema, schemaRev, record, recordRev, public>>
    BY <1>1 DEF Tell, vars, table, items
  <1>3. InHistory(told)'
    BY <1>1, <1>2
    DEF Fresh, InHistory, WellAddressed, RevisionNamed, Holds, OfRecord
  <1>4. answer.revision \in Nat
    BY <1>1, RevisionsAreNumbers DEF Fresh, InHistory, WellAddressed
  <1>5. answer.kind = "public" =>
           /\ OfRecord(answer)
           /\ answer.revision <= public[<<answer.collection, answer.record>>].revision
    BY <1>1, <1>4 DEF Fresh
  <1>6. NotAhead(told)'
    BY <1>2, <1>5 DEF NotAhead, OfRecord
  <1> QED
    BY <1>3, <1>6

LEMMA ToldStep ==
    IInv /\ HistoryComplete /\ PublicInHistory /\ ToldInv /\ [ReadNext]_readVars => ToldInv'
  <1> SUFFICES ASSUME IInv, HistoryComplete, PublicInHistory, ToldInv, [ReadNext]_readVars
               PROVE  ToldInv'
    OBVIOUS
  <1>1. CASE Read
    BY <1>1, ReadTells DEF ToldInv
  <1>2. CASE told' = told /\ [Next]_vars
    <2>1. HistoryKept
      BY <1>2, HistoryInductive
    <2> QED
      BY <1>2, <2>1, StaysInHistory, NeverAhead DEF ToldInv
  <1> QED
    BY <1>1, <1>2 DEF ReadNext, readVars

LEMMA PublicHistoryHolds == Spec => []PublicInHistory
  <1>1. Init => PublicInHistory
    BY DEF Init, PublicInHistory, PublicHeld
  <1>2. IInv /\ HistoryComplete /\ PublicInHistory /\ [Next]_vars => PublicInHistory'
    BY HistoryInductive, PublicInHistoryStep
  <1> QED
    BY <1>1, <1>2, InvariantHolds, HistoryIsComplete, PTL DEF Spec

LEMMA ToldHolds == ReadSpec => []ToldInv
  <1>1. ReadInit => ToldInv
    BY DEF ReadInit, ToldInv
  <1> QED
    BY <1>1, ToldStep, ReadsChangeNothing, InvariantHolds, HistoryIsComplete,
       PublicHistoryHolds, PTL DEF ReadSpec

\* README, "exact immutable revision": whatever was shown, draft, public or
\* snapshot, is and remains what the history has at the revision it names.
THEOREM ShownIsHistory == ReadSpec => []AnswersAreHistory
  <1>1. ToldInv => AnswersAreHistory
    BY DEF ToldInv, InHistory, AnswersAreHistory
  <1> QED
    BY <1>1, ToldHolds, PTL

\* What ReadsMoveForward says of one step.
Forward ==
    told # Absent /\ told' # told /\ SameItem(told, told') =>
        /\ told'.kind \in {"collection", "record"} => told.revision <= told'.revision
        /\ told.kind = "public" /\ told'.kind = "public" => told.revision <= told'.revision

LEMMA ForwardStep ==
    ASSUME IInv, HistoryComplete, PublicInHistory, ToldInv, [ReadNext]_readVars
    PROVE  Forward
  <1> SUFFICES ASSUME told # Absent, told' # told, SameItem(told, told')
               PROVE  /\ told'.kind \in {"collection", "record"} =>
                            told.revision <= told'.revision
                      /\ told.kind = "public" /\ told'.kind = "public" =>
                            told.revision <= told'.revision
    BY DEF Forward
  <1>1. Read
    BY DEF ReadNext, readVars
  <1>2. PICK answer : told' = answer /\ Fresh(answer) /\ Tell(answer)
    BY <1>1, ReadsAreFresh DEF Tell
  <1>3. InHistory(told) /\ NotAhead(told)
    BY DEF ToldInv
  <1>4. CASE answer.kind = "collection"
    BY <1>2, <1>3, <1>4, CurrentIsNewest DEF Fresh, SameItem
  <1>5. CASE answer.kind = "record"
    BY <1>2, <1>3, <1>5, CurrentIsNewest DEF Fresh, SameItem
  <1>6. CASE answer.kind = "public" /\ told.kind = "public"
    BY <1>2, <1>3, <1>6 DEF Fresh, SameItem, NotAhead
  <1> QED
    BY <1>2, <1>4, <1>5, <1>6

\* No read of an item that is current goes back behind an answer given before,
\* and no public answer behind a public one, although the record is withdrawn
\* and published again in between.
THEOREM ReadersMoveForward == ReadSpec => ReadsMoveForward
  <1>1. IInv /\ HistoryComplete /\ PublicInHistory /\ ToldInv /\ [ReadNext]_readVars
          => [Forward]_readVars
    BY ForwardStep
  <1>2. ReadSpec => [][Forward]_readVars
    BY <1>1, ReadsChangeNothing, InvariantHolds, HistoryIsComplete, PublicHistoryHolds,
       ToldHolds, PTL DEF ReadSpec
  <1> QED
    BY <1>2 DEF ReadsMoveForward, Forward

-----------------------------------------------------------------------------
(* What clients may conclude: the inductive invariant.                     *)

\* Nothing of the client has taken effect that its next attempt would not find.
Untouched(m) == ~TookEffect(m) \/ ReceiptMayBeGone(m)

\* An attempt beyond the replay check: it goes on to its transaction.
Beyond(i) == Running(i) /\ pc[i] # "receipt"

\* A receipt is the one of the mutation that its lifetime began with.
ReceiptsHaveOrigin ==
    \A k \in Keys : receipt[k] # Absent =>
        \E a \in applied : /\ a.key = k /\ a.request = receipt[k].request
                           /\ receipt[k].expiresAt = a.at + ReceiptTTL

\* A client waits for an attempt of its own.
WaitsForOwn ==
    /\ waits \in [Clients -> Invocations \cup {Absent}]
    /\ DOMAIN verdict = Clients
    /\ \A m \in Clients : waits[m] # Absent => Attempts(waits[m], m) /\ pc[waits[m]] # "idle"

\* The attempt that a client waits for is the only one that runs, until the
\* client does not wait for the end of one; none runs after the final answer.
OneAttempt(m) ==
    /\ \A i, j \in Invocations :
          Attempts(i, m) /\ Attempts(j, m) /\ Running(i) /\ Running(j) => i = j
    /\ \A i \in Invocations :
          Attempts(i, m) /\ Running(i) => waits[m] \in {i, Absent} /\ verdict[m] = Absent

\* The attempt that goes on has found nothing, and neither has the one that
\* answers with a refusal, nor one that did.
Refusable(m) ==
    /\ \A i \in Invocations : Attempts(i, m) /\ Beyond(i) => Untouched(m)
    /\ waits[m] # Absent /\ At(waits[m], "done") /\ reply[waits[m]].status \in BehindReplay =>
          Untouched(m)
    /\ verdict[m] \in BehindReplay => Untouched(m)

Trusted(m) == m \notin overlapped => OneAttempt(m) /\ Refusable(m)

ClientInv ==
    /\ ReceiptsHaveOrigin
    /\ WaitsForOwn
    /\ \A m \in Clients : Trusted(m)

-----------------------------------------------------------------------------
(* What the steps of the store do to an attempt.                           *)

Kept(j) == pc'[j] = pc[j] /\ call'[j] = call[j] /\ reply'[j] = reply[j]

\* The steps of an attempt between its beginning and its end, in which
\* nothing takes effect.
Unsettled(i) == (Work(i) \/ BackendError(i)) /\ ~Transaction(i)

\* The replay check decides what follows: beyond it, or refused by a final
\* answer, is only what was no replay.
LEMMA AttemptStep ==
    ASSUME TypeInv, NEW i \in Invocations, Unsettled(i)
    PROVE  /\ UNCHANGED <<receipt, applied, clock>>
           /\ \A j \in Invocations \ {i} : Kept(j)
           /\ call'[i] = call[i] /\ Running(i)
           /\ pc'[i] \notin {"idle", "receipt"}
           /\ Beyond(i)' \/ (pc'[i] = "done" /\ reply'[i].status \in BehindReplay) =>
                 Beyond(i) \/ ~IsReplay(i)
  <1> USE DEF TypeInv, TypeOK, InvocationsTypeOK
  <1>a. ASSUME NEW code, Refuse(i, code)
        PROVE  /\ UNCHANGED <<receipt, applied, clock>>
               /\ \A j \in Invocations \ {i} : Kept(j)
               /\ call'[i] = call[i] /\ pc'[i] = "done" /\ reply'[i].status = code
    BY <1>a DEF Refuse, Answer, Goto, table, Kept
  <1>b. ASSUME NEW step \in {"space", "schema", "record", "transact"}, Continue(i, step)
        PROVE  /\ UNCHANGED <<receipt, applied, clock>>
               /\ \A j \in Invocations \ {i} : Kept(j)
               /\ call'[i] = call[i] /\ pc'[i] = step
    BY <1>b DEF Continue, Goto, table, Kept
  <1>c. ASSUME pc[i] \in {"space", "schema", "record", "transact"}
        PROVE  Beyond(i) /\ Running(i)
    BY <1>c DEF Beyond, Running
  <1>1. CASE Replay(i)
    <2>1. reply'[i].status = "ok" /\ pc'[i] = "done" /\ pc[i] = "receipt"
      BY <1>1 DEF Replay, Answer, Goto, At
    <2> QED
      BY <1>1, <2>1
      DEF Replay, Answer, Goto, At, table, Kept, Running, Beyond, BehindReplay
  <1>2. CASE BackendError(i)
    <2>1. Refuse(i, "internal_error") /\ Running(i)
      BY <1>2 DEF BackendError
    <2> QED
      BY <1>a, <2>1 DEF Running, Beyond, BehindReplay
  <1>3. CASE Proceed(i)
    <2>1. FirstRead(Request(i).action) \in {"space", "schema", "record"}
      BY DEF FirstRead
    <2> QED
      BY <1>3, <1>b, <2>1 DEF Proceed, At, Running, IsReplay
  <1>4. CASE RefuseKeyReuse(i) \/ RefuseSchema(i)
    BY <1>4, <1>a DEF RefuseKeyReuse, RefuseSchema, At, Running, Beyond, IsReplay
  <1>5. CASE NotFound(i) \/ ConditionFailed(i)
    BY <1>5, <1>a, <1>c DEF NotFound, ConditionFailed, Reads, At
  <1>6. CASE CreateCollectionRead(i)
    BY <1>6, <1>a, <1>b, <1>c DEF CreateCollectionRead, Reads, At
  <1>7. CASE UpdateCollectionRead(i)
    BY <1>7, <1>a, <1>b, <1>c DEF UpdateCollectionRead, Reads, At
  <1>8. CASE CreateRecordRead(i)
    BY <1>8, <1>a, <1>b, <1>c DEF CreateRecordRead, Reads, At
  <1>9. CASE UpdateRecordReadSchema(i)
    BY <1>9, <1>b, <1>c DEF UpdateRecordReadSchema, Reads, At
  <1>10. CASE UpdateRecordReadRecord(i)
    BY <1>10, <1>a, <1>b, <1>c DEF UpdateRecordReadRecord, Reads, At
  <1>11. CASE PublicationReadRecord(i)
    BY <1>11, <1>b, <1>c DEF PublicationReadRecord, Reads, At
  <1>12. CASE PublicationReadSchema(i)
    BY <1>12, <1>a, <1>b, <1>c DEF PublicationReadSchema, Reads, At
  <1> QED
    BY <1>1, <1>2, <1>3, <1>4, <1>5, <1>6, <1>7, <1>8, <1>9, <1>10, <1>11, <1>12
    DEF Unsettled, Work, Transaction

\* A transaction answers "ok", or that the service failed.
LEMMA TransactionStep ==
    ASSUME TypeInv, NEW i \in Invocations, Transaction(i)
    PROVE  /\ \A j \in Invocations \ {i} : Kept(j)
           /\ call'[i] = call[i] /\ pc'[i] = "done" /\ Running(i)
           /\ reply'[i].status \notin BehindReplay
           /\ clock' = clock
           /\ applied' = applied \cup {Mutation(i)}
  <1> USE DEF TypeInv, TypeOK, InvocationsTypeOK
  <1>1. PICK result \in Results : Settle(i, result)
    BY TransactionSettles
  <1>2. \/ Answer(i, [status |-> "ok", result |-> result])
        \/ Answer(i, [status |-> "internal_error"])
    BY <1>1 DEF Settle
  <1>3. /\ \A j \in Invocations \ {i} : Kept(j)
        /\ call'[i] = call[i] /\ reply'[i].status \in {"ok", "internal_error"}
    BY <1>2 DEF Answer, Goto, Kept
  <1>4. Running(i)
    BY TransactionFacts DEF Running
  <1> QED
    BY <1>3, <1>4, SettledStep DEF BehindReplay

-----------------------------------------------------------------------------
(* What a client may conclude stays true.                                  *)

LEMMA UntouchedStays ==
    ASSUME TypeInv, NEW m, Untouched(m), clock' \in {clock, clock + 1},
           applied \subseteq applied',
           \A a \in applied' : a.key = m.key /\ a.request = m.request => a \in applied
    PROVE  Untouched(m)'
  <1>1. clock \in Nat /\ \A a \in applied : a.at \in Nat
    BY DEF TypeInv, TypeOK, JournalTypeOK, Mutations
  <1>2. CASE ~TookEffect(m)
    <2>1. ~TookEffect(m)'
      BY <1>2 DEF TookEffect
    <2> QED  BY <2>1 DEF Untouched
  <1>3. CASE ReceiptMayBeGone(m)
    <2>1. PICK a \in applied :
             a.key = m.key /\ a.request = m.request /\ a.at + ReceiptTTL < clock
      BY <1>3 DEF ReceiptMayBeGone
    <2>2. a \in applied' /\ a.at + ReceiptTTL < clock'
      BY <1>1, <2>1, TimesAssumption
    <2>3. ReceiptMayBeGone(m)'
      BY <2>1, <2>2 DEF ReceiptMayBeGone
    <2> QED  BY <2>3 DEF Untouched
  <1> QED  BY <1>2, <1>3 DEF Untouched

\* A receipt that lives is the one of the mutation: no other mutation of its key
\* is that old.
LEMMA LivingReceipt ==
    ASSUME TypeInv, JournalInv, ReceiptsHaveOrigin,
           NEW a \in applied, ~(a.at + ReceiptTTL < clock)
    PROVE  receipt[a.key] # Absent /\ receipt[a.key].request = a.request
  <1>1. a.key \in Keys /\ a.at \in Nat /\ clock \in Nat
    BY DEF TypeInv, TypeOK, JournalTypeOK, Mutations
  <1>2. receipt[a.key] # Absent /\ receipt[a.key].expiresAt = a.at + ReceiptTTL
    BY DEF JournalInv, ReceiptsInTime
  <1>3. PICK b \in applied : /\ b.key = a.key /\ b.request = receipt[a.key].request
                             /\ receipt[a.key].expiresAt = b.at + ReceiptTTL
    BY <1>1, <1>2 DEF ReceiptsHaveOrigin
  <1>4. b.at = a.at
    <2>1. b.at \in Nat
      BY DEF TypeInv, TypeOK, JournalTypeOK, Mutations
    <2> QED  BY <1>1, <1>2, <1>3, <2>1, TimesAssumption
  <1>5. a = b
    BY <1>1, <1>3, <1>4, TimesAssumption DEF JournalInv, KeyNamesOneMutation
  <1> QED  BY <1>2, <1>3, <1>5

\* An attempt that is no replay: the mutation of its client, if there is one,
\* is older than the receipt it left.
LEMMA NotReplayed ==
    ASSUME TypeInv, JournalInv, ReceiptsHaveOrigin,
           NEW i \in Invocations, NEW m, Attempts(i, m), ~IsReplay(i)
    PROVE  Untouched(m)
  <1> SUFFICES ASSUME NEW a \in applied, a.key = m.key, a.request = m.request
               PROVE  a.at + ReceiptTTL < clock
    BY DEF Untouched, TookEffect, ReceiptMayBeGone
  <1>1. m.key = call[i].key /\ m.request = Request(i)
    BY DEF Attempts, Request
  <1> QED  BY <1>1, LivingReceipt DEF IsReplay, Existing

LEMMA OriginStays ==
    ASSUME TypeInv, ReceiptsHaveOrigin, [Next]_vars
    PROVE  ReceiptsHaveOrigin'
  <1>1. ASSUME NEW i \in Invocations, Transaction(i) PROVE ReceiptsHaveOrigin'
    <2> SUFFICES ASSUME NEW k \in Keys, receipt'[k] # Absent
                 PROVE  \E a \in applied' : /\ a.key = k /\ a.request = receipt'[k].request
                                            /\ receipt'[k].expiresAt = a.at + ReceiptTTL
      BY DEF ReceiptsHaveOrigin
    <2>1. CASE k = call[i].key
      <3>1. /\ Mutation(i) \in applied' /\ Mutation(i).key = k
            /\ Mutation(i).request = receipt'[k].request
            /\ receipt'[k].expiresAt = Mutation(i).at + ReceiptTTL
        BY <1>1, <2>1, SettledStep DEF Mutation
      <3> QED  BY <3>1
    <2>2. CASE k # call[i].key
      BY <1>1, <2>2, SettledStep DEF ReceiptsHaveOrigin
    <2> QED  BY <2>1, <2>2
  <1>2. CASE \A i \in Invocations : ~Transaction(i)
    <2>1. applied' = applied /\ \A k \in Keys : receipt'[k] \in {receipt[k], Absent}
      BY <1>2, NothingSettled
    <2> QED  BY <2>1 DEF ReceiptsHaveOrigin
  <1> QED  BY <1>1, <1>2

\* What took effect can be asked about: as long as its receipt lives, a call
\* sent again under its key is answered with its own result.
THEOREM OutcomesStayKnown == Spec => []OutcomesAreKept
  <1>1. Init => ReceiptsHaveOrigin
    BY DEF Init, ReceiptsHaveOrigin
  <1>2. IInv /\ ReceiptsHaveOrigin /\ [Next]_vars => ReceiptsHaveOrigin'
    BY OriginStays DEF IInv
  <1>3. IInv /\ JournalInv /\ ReceiptsHaveOrigin /\ AnswersInv => OutcomesAreKept
    <2> SUFFICES ASSUME IInv, JournalInv, ReceiptsHaveOrigin, AnswersInv,
                        NEW a \in applied, clock <= a.at + ReceiptTTL
                 PROVE  /\ receipt[a.key] # Absent
                        /\ receipt[a.key].request = a.request
                        /\ Delivered(a.request, receipt[a.key].result)
      BY DEF OutcomesAreKept
    <2>1. a.key \in Keys /\ a.at \in Nat /\ clock \in Nat
      BY DEF IInv, TypeInv, TypeOK, JournalTypeOK, Mutations
    <2>2. ~(a.at + ReceiptTTL < clock)
      BY <2>1, TimesAssumption
    <2>3. receipt[a.key] # Absent /\ receipt[a.key].request = a.request
      BY <2>2, LivingReceipt DEF IInv
    <2>4. Delivered(receipt[a.key].request, receipt[a.key].result)
      BY <2>1, <2>3 DEF AnswersInv, ReceiptsTrue, Accounted
    <2> QED  BY <2>3, <2>4
  <1> QED
    BY <1>1, <1>2, <1>3, InvariantHolds, JournalHolds, AnswersHold, PTL DEF Spec

\* A step that is none of the client's: its attempts end at most, and what it
\* waits for stays as it is.
Quiet(m) ==
    /\ \A i \in Invocations :
          (Attempts(i, m) /\ Running(i))' =>
              Attempts(i, m) /\ Running(i) /\ pc'[i] = pc[i]
    /\ verdict'[m] = verdict[m]
    /\ waits'[m] \in {waits[m], Absent}
    /\ waits'[m] # Absent => /\ pc'[waits[m]] = pc[waits[m]]
                             /\ reply'[waits[m]] = reply[waits[m]]
    /\ overlapped \subseteq overlapped'
    /\ Untouched(m) => Untouched(m)'

LEMMA QuietKeeps ==
    ASSUME NEW m \in Clients, Trusted(m), Quiet(m)
    PROVE  Trusted(m)'
  <1> SUFFICES ASSUME m \notin overlapped' PROVE OneAttempt(m)' /\ Refusable(m)'
    BY DEF Trusted
  <1>1. OneAttempt(m) /\ Refusable(m)
    BY DEF Quiet, Trusted
  <1>2. OneAttempt(m)'
    BY <1>1 DEF Quiet, OneAttempt
  <1>3. \A i \in Invocations : (Attempts(i, m) /\ Beyond(i))' => Attempts(i, m) /\ Beyond(i)
    BY DEF Quiet, Beyond
  <1>4. \A i \in Invocations : (Attempts(i, m) /\ Beyond(i))' => Untouched(m)'
    BY <1>1, <1>3 DEF Quiet, Refusable
  <1>5. (waits[m] # Absent /\ At(waits[m], "done") /\ reply[waits[m]].status \in BehindReplay)' =>
           Untouched(m)'
    BY <1>1 DEF Quiet, Refusable, At
  <1>6. verdict'[m] \in BehindReplay => Untouched(m)'
    BY <1>1 DEF Quiet, Refusable
  <1> QED  BY <1>2, <1>4, <1>5, <1>6 DEF Refusable

-----------------------------------------------------------------------------
(* Every step of the clients and their invocations keeps the invariant.    *)

\* A client waits for an invocation that serves no other.
LEMMA OwnInvocation ==
    ASSUME NEW m \in Clients, NEW n \in Clients, m.key = n.key, m.request = n.request
    PROVE  m = n
  <1>1. PICK a \in Calls : m = [key |-> a.key, request |-> a.request]
    BY DEF Clients
  <1>2. PICK b \in Calls : n = [key |-> b.key, request |-> b.request]
    BY DEF Clients
  <1> QED  BY <1>1, <1>2

\* An attempt goes on or is refused.
LEMMA UnsettledKeeps ==
    ASSUME TypeInv, JournalInv, ClientInv, NEW i \in Invocations, Unsettled(i),
           UNCHANGED <<waits, verdict, overlapped>>
    PROVE  WaitsForOwn' /\ \A m \in Clients : Trusted(m)'
  <1>1. /\ UNCHANGED <<receipt, applied, clock>>
        /\ \A j \in Invocations \ {i} : Kept(j)
        /\ call'[i] = call[i] /\ Running(i)
        /\ pc'[i] \notin {"idle", "receipt"}
        /\ Beyond(i)' \/ (pc'[i] = "done" /\ reply'[i].status \in BehindReplay) =>
              Beyond(i) \/ ~IsReplay(i)
    BY AttemptStep
  <1>2. \A j \in Invocations, m \in Clients : Attempts(j, m)' <=> Attempts(j, m)
    BY <1>1 DEF Kept, Attempts
  <1>3. WaitsForOwn'
    BY <1>1, <1>2 DEF ClientInv, WaitsForOwn, Kept
  <1>4. ASSUME NEW m \in Clients PROVE Trusted(m)'
    <2>1. Trusted(m) /\ (Untouched(m) <=> Untouched(m)')
      BY <1>1 DEF ClientInv, Untouched, TookEffect, ReceiptMayBeGone
    <2>2. waits[m] # Absent => waits[m] \in Invocations /\ Attempts(waits[m], m)
      BY DEF ClientInv, WaitsForOwn
    <2>3. CASE ~Attempts(i, m)
      <3>1. \A j \in Invocations : Attempts(j, m) => Kept(j)
        BY <1>1, <2>3
      <3>2. Quiet(m)
        BY <1>2, <2>1, <2>2, <3>1 DEF Quiet, Kept, Running
      <3> QED  BY <2>1, <3>2, QuietKeeps
    <2>4. CASE Attempts(i, m)
      <3> SUFFICES ASSUME m \notin overlapped PROVE OneAttempt(m)' /\ Refusable(m)'
        BY DEF Trusted
      <3>1. OneAttempt(m) /\ Refusable(m)
        BY <2>1 DEF Trusted
      <3>2. \A j \in Invocations : Attempts(j, m) /\ Running(j)' => Running(j)
        BY <1>1 DEF Kept, Running
      <3>3. OneAttempt(m)'
        BY <1>2, <3>1, <3>2 DEF OneAttempt
      <3>4. \A j \in Invocations : Attempts(j, m) /\ Running(j) => j = i
        BY <1>1, <2>4, <3>1 DEF OneAttempt
      <3>5. waits[m] \in {i, Absent} /\ verdict[m] = Absent
        BY <1>1, <2>4, <3>1 DEF OneAttempt
      <3>6. Beyond(i) \/ ~IsReplay(i) => Untouched(m)
        BY <2>4, <3>1, NotReplayed DEF Refusable, ClientInv
      <3>7. ASSUME NEW j \in Invocations, Attempts(j, m), Beyond(j)' PROVE Untouched(m)
        <4>1. j = i
          BY <3>2, <3>4, <3>7 DEF Beyond
        <4> QED  BY <1>1, <3>6, <3>7, <4>1
      <3>8. waits[m] # Absent /\ pc'[waits[m]] = "done" /\ reply'[waits[m]].status \in BehindReplay
               => Untouched(m)
        BY <1>1, <3>5, <3>6
      <3>9. Refusable(m)'
        BY <1>2, <2>1, <3>1, <3>7, <3>8 DEF Refusable, At
      <3> QED  BY <3>3, <3>9
    <2> QED  BY <2>3, <2>4
  <1> QED  BY <1>3, <1>4

\* An attempt takes effect: no other attempt of its client runs, the client
\* has no final answer, and is not told of a refusal.
LEMMA TransactionKeeps ==
    ASSUME TypeInv, ClientInv, NEW i \in Invocations, Transaction(i),
           UNCHANGED <<waits, verdict, overlapped>>
    PROVE  WaitsForOwn' /\ \A m \in Clients : Trusted(m)'
  <1>1. /\ \A j \in Invocations \ {i} : Kept(j)
        /\ call'[i] = call[i] /\ pc'[i] = "done" /\ Running(i)
        /\ reply'[i].status \notin BehindReplay
        /\ clock' = clock
        /\ applied' = applied \cup {Mutation(i)}
    BY TransactionStep
  <1>2. \A j \in Invocations, m \in Clients : Attempts(j, m)' <=> Attempts(j, m)
    BY <1>1 DEF Kept, Attempts
  <1>3. WaitsForOwn'
    BY <1>1, <1>2 DEF ClientInv, WaitsForOwn, Kept
  <1>4. ASSUME NEW m \in Clients PROVE Trusted(m)'
    <2>1. Trusted(m)
      BY DEF ClientInv
    <2>2. waits[m] # Absent => waits[m] \in Invocations /\ Attempts(waits[m], m)
      BY DEF ClientInv, WaitsForOwn
    <2>3. CASE ~Attempts(i, m)
      <3>1. \A j \in Invocations : Attempts(j, m) => Kept(j)
        BY <1>1, <2>3
      <3>2. ~(Mutation(i).key = m.key /\ Mutation(i).request = m.request)
        <4>1. call[i] # Absent
          BY TransactionFacts DEF TypeInv, SnapshotsThere
        <4> QED  BY <2>3, <4>1 DEF Mutation, Attempts, Request
      <3>3. Untouched(m) => Untouched(m)'
        BY <1>1, <3>2, UntouchedStays
      <3>4. Quiet(m)
        BY <1>2, <2>2, <3>1, <3>3 DEF Quiet, Kept, Running
      <3> QED  BY <2>1, <3>4, QuietKeeps
    <2>4. CASE Attempts(i, m)
      <3> SUFFICES ASSUME m \notin overlapped PROVE OneAttempt(m)' /\ Refusable(m)'
        BY DEF Trusted
      <3>1. OneAttempt(m) /\ Refusable(m)
        BY <2>1 DEF Trusted
      <3>2. \A j \in Invocations : Attempts(j, m) => ~Running(j)'
        BY <1>1, <2>4, <3>1 DEF OneAttempt, Kept, Running
      <3>3. OneAttempt(m)'
        BY <1>2, <3>2 DEF OneAttempt
      <3>4. waits[m] \in {i, Absent} /\ verdict[m] = Absent
        BY <1>1, <2>4, <3>1 DEF OneAttempt
      <3>5. verdict'[m] \notin BehindReplay
        BY <3>4, AbsentIsNoVerdict DEF BehindReplay, Verdicts
      <3>6. waits'[m] # Absent => waits'[m] = i
        BY <3>4
      <3>7. ~(waits[m] # Absent /\ At(waits[m], "done") /\ reply[waits[m]].status \in BehindReplay)'
        BY <1>1, <3>6
      <3>8. Refusable(m)'
        BY <1>2, <3>2, <3>5, <3>7 DEF Refusable, Beyond
      <3> QED  BY <3>3, <3>8
    <2> QED  BY <2>3, <2>4
  <1> QED  BY <1>3, <1>4

\* An invocation is over that no client waits for any more.
LEMMA EndIsQuiet ==
    ASSUME NEW i, NEW m, UNCHANGED <<applied, clock>>,
           pc'[i] = "idle", \A j \in Invocations \ {i} : Kept(j),
           waits[m] \in Invocations \cup {Absent},
           waits'[m] \in {waits[m], Absent}, waits'[m] # Absent => waits[m] # i,
           verdict'[m] = verdict[m], overlapped' = overlapped
    PROVE  Quiet(m)
  <1>1. Untouched(m) => Untouched(m)'
    BY DEF Untouched, TookEffect, ReceiptMayBeGone
  <1>2. ASSUME NEW j \in Invocations, (Attempts(j, m) /\ Running(j))'
        PROVE  Attempts(j, m) /\ Running(j) /\ pc'[j] = pc[j]
    BY <1>2 DEF Attempts, Running, Kept
  <1>3. waits'[m] # Absent => /\ pc'[waits'[m]] = pc[waits[m]]
                             /\ reply'[waits'[m]] = reply[waits[m]]
    BY DEF Kept
  <1> QED  BY <1>1, <1>2, <1>3 DEF Quiet

\* An answer is returned: heard by its client, or by nobody.
LEMMA ReturnStep ==
    ASSUME TypeInv, NEW i \in Invocations, Return(i) \/ Crash(i)
    PROVE  /\ UNCHANGED <<applied, clock>> /\ pc'[i] = "idle"
           /\ \A j \in Invocations \ {i} : Kept(j)
  BY DEF Return, Crash, Goto, Kept, TypeInv, TypeOK, InvocationsTypeOK

\* What the clients wait for is kept by a step that ends an invocation.
LEMMA EndKeepsWaits ==
    ASSUME WaitsForOwn, NEW i \in Invocations, DOMAIN verdict' = Clients,
           \A j \in Invocations \ {i} : Kept(j),
           waits' \in [Clients -> Invocations \cup {Absent}],
           \A m \in Clients : waits'[m] # Absent => waits'[m] = waits[m] /\ waits[m] # i
    PROVE  WaitsForOwn'
  <1> SUFFICES ASSUME NEW m \in Clients, waits'[m] # Absent
               PROVE  Attempts(waits[m], m)' /\ pc'[waits'[m]] # "idle"
    BY DEF WaitsForOwn
  <1>1. waits'[m] = waits[m] /\ waits[m] # i /\ waits[m] \in Invocations
    BY DEF WaitsForOwn
  <1>2. Kept(waits[m]) /\ Attempts(waits[m], m) /\ pc[waits[m]] # "idle"
    BY <1>1 DEF WaitsForOwn
  <1> QED  BY <1>1, <1>2 DEF Kept, Attempts

\* The client takes the answer: no other attempt of it runs.
LEMMA HearKeeps ==
    ASSUME TypeInv, ClientInv, NEW m \in Clients, Hear(m)
    PROVE  WaitsForOwn' /\ \A n \in Clients : Trusted(n)'
  <1>1. PICK i \in Invocations :
           /\ waits[m] = i /\ i # Absent /\ pc[i] = "done" /\ Return(i) /\ Attempts(i, m)
    BY DEF ClientInv, WaitsForOwn, Hear, At
  <1>2. /\ UNCHANGED <<applied, clock>> /\ pc'[i] = "idle"
        /\ \A j \in Invocations \ {i} : Kept(j)
    BY <1>1, ReturnStep
  <1>3. /\ waits' = [waits EXCEPT ![m] = Absent] /\ overlapped' = overlapped
        /\ \/ verdict' = verdict
           \/ verdict' = [verdict EXCEPT ![m] = reply[i].status]
    BY <1>1 DEF Hear
  <1>4. waits \in [Clients -> Invocations \cup {Absent}] /\ DOMAIN verdict = Clients
    BY DEF ClientInv, WaitsForOwn
  <1>5. ASSUME NEW n \in Clients, n # m
        PROVE  waits[n] # i
    <2> SUFFICES ASSUME waits[n] = i PROVE FALSE
      OBVIOUS
    <2>1. Attempts(i, n)
      BY <1>1 DEF ClientInv, WaitsForOwn
    <2>2. n.key = m.key /\ n.request = m.request
      BY <1>1, <2>1 DEF Attempts
    <2> QED  BY <1>5, <2>2, OwnInvocation
  <1>6. waits'[m] = Absent /\ \A n \in Clients \ {m} : waits'[n] = waits[n]
    BY <1>3, <1>4
  <1>7. \A n \in Clients \ {m} : verdict'[n] = verdict[n]
    BY <1>3, <1>4
  <1>8. WaitsForOwn'
    <2>1. waits' \in [Clients -> Invocations \cup {Absent}] /\ DOMAIN verdict' = Clients
      BY <1>3, <1>4
    <2> QED  BY <1>2, <1>5, <1>6, <2>1, EndKeepsWaits DEF ClientInv
  <1>9. ASSUME NEW n \in Clients, n # m PROVE Trusted(n)'
    <2>1. Quiet(n)
      BY <1>2, <1>3, <1>4, <1>5, <1>6, <1>7, <1>9, EndIsQuiet
    <2> QED  BY <2>1, QuietKeeps DEF ClientInv
  <1>10. Trusted(m)'
    <2> SUFFICES ASSUME m \notin overlapped PROVE OneAttempt(m)' /\ Refusable(m)'
      BY <1>3 DEF Trusted
    <2>1. OneAttempt(m) /\ Refusable(m)
      BY DEF ClientInv, Trusted
    <2>2. Untouched(m) <=> Untouched(m)'
      BY <1>2 DEF Untouched, TookEffect, ReceiptMayBeGone
    <2>3. ASSUME NEW j \in Invocations, (Attempts(j, m) /\ Running(j))' PROVE FALSE
      <3>1. j # i /\ Attempts(j, m) /\ Running(j)
        BY <1>2, <2>3 DEF Attempts, Running, Kept
      <3>2. waits[m] \in {j, Absent}
        BY <2>1, <3>1 DEF OneAttempt
      <3> QED  BY <1>1, <3>1, <3>2
    <2>4. OneAttempt(m)'
      BY <2>3 DEF OneAttempt
    <2>5. verdict'[m] \in BehindReplay => verdict[m] \in BehindReplay \/ reply[i].status \in BehindReplay
      BY <1>3, <1>4
    <2>6. verdict'[m] \in BehindReplay => Untouched(m)
      BY <1>1, <2>1, <2>5 DEF Refusable, At
    <2>7. Refusable(m)'
      BY <1>6, <2>2, <2>3, <2>6 DEF Refusable, Beyond
    <2> QED  BY <2>4, <2>7
  <1> QED  BY <1>8, <1>9, <1>10

\* The client sends: if it has waited, this attempt is the only one.
LEMMA SendKeeps ==
    ASSUME TypeInv, ClientInv, NEW m \in Clients, Send(m)
    PROVE  WaitsForOwn' /\ \A n \in Clients : Trusted(n)'
  <1>1. PICK i \in Invocations :
           Begin(i) /\ Attempts(i, m)' /\ waits' = [waits EXCEPT ![m] = i]
    BY DEF Send
  <1>2. /\ pc[i] = "idle" /\ pc'[i] = "receipt" /\ UNCHANGED <<applied, clock>>
        /\ \A j \in Invocations \ {i} : Kept(j)
    BY <1>1 DEF Begin, At, Goto, Kept, TypeInv, TypeOK, InvocationsTypeOK
  <1>3. /\ waits[m] = Absent /\ verdict[m] = Absent /\ verdict' = verdict
        /\ overlapped' = IF StillRuns(m) THEN overlapped \cup {m} ELSE overlapped
    BY DEF Send, Asks
  <1>4. waits \in [Clients -> Invocations \cup {Absent}] /\ DOMAIN verdict = Clients
    BY DEF ClientInv, WaitsForOwn
  <1>5. waits'[m] = i /\ \A n \in Clients \ {m} : waits'[n] = waits[n]
    BY <1>1, <1>4
  <1>6. \A n \in Clients : waits[n] # Absent =>
           waits[n] \in Invocations \ {i} /\ Attempts(waits[n], n) /\ pc[waits[n]] # "idle"
    BY <1>2, <1>4 DEF ClientInv, WaitsForOwn
  <1>7. WaitsForOwn'
    <2>1. waits' \in [Clients -> Invocations \cup {Absent}] /\ DOMAIN verdict' = Clients
      BY <1>1, <1>3, <1>4
    <2>2. ASSUME NEW n \in Clients, waits'[n] # Absent
          PROVE  Attempts(waits[n], n)' /\ pc'[waits'[n]] # "idle"
      <3>1. CASE n = m
        BY <1>1, <1>2, <1>5, <3>1
      <3>2. CASE n # m
        <4>1. Kept(waits[n]) /\ Attempts(waits[n], n) /\ pc[waits[n]] # "idle"
              /\ waits'[n] = waits[n]
          BY <1>2, <1>5, <1>6, <2>2, <3>2
        <4> QED  BY <4>1 DEF Kept, Attempts
      <3> QED  BY <3>1, <3>2
    <2> QED  BY <2>1, <2>2 DEF WaitsForOwn
  <1>8. ASSUME NEW n \in Clients, n # m PROVE Trusted(n)'
    <2>1. ~Attempts(i, n)'
      <3> SUFFICES ASSUME Attempts(i, n)' PROVE FALSE
        OBVIOUS
      <3>1. n.key = m.key /\ n.request = m.request
        BY <1>1 DEF Attempts
      <3> QED  BY <1>8, <3>1, OwnInvocation
    <2>2. ASSUME NEW j \in Invocations, (Attempts(j, n) /\ Running(j))'
          PROVE  Attempts(j, n) /\ Running(j) /\ pc'[j] = pc[j]
      BY <1>2, <2>1, <2>2 DEF Attempts, Running, Kept
    <2>3. waits'[n] # Absent => /\ pc'[waits'[n]] = pc[waits[n]]
                               /\ reply'[waits'[n]] = reply[waits[n]]
      BY <1>2, <1>5, <1>6, <1>8 DEF Kept
    <2>4. Untouched(n) => Untouched(n)'
      BY <1>2 DEF Untouched, TookEffect, ReceiptMayBeGone
    <2>5. Quiet(n)
      BY <1>3, <1>5, <1>8, <2>2, <2>3, <2>4 DEF Quiet
    <2> QED  BY <2>5, QuietKeeps DEF ClientInv
  <1>9. Trusted(m)'
    <2> SUFFICES ASSUME m \notin overlapped' PROVE OneAttempt(m)' /\ Refusable(m)'
      BY DEF Trusted
    <2>1. \A j \in Invocations : ~(Attempts(j, m) /\ Running(j))
      BY <1>3 DEF StillRuns
    <2>2. ASSUME NEW j \in Invocations, (Attempts(j, m) /\ Running(j))' PROVE j = i
      <3> SUFFICES ASSUME j # i PROVE FALSE
        OBVIOUS
      <3> QED  BY <1>2, <2>1, <2>2 DEF Attempts, Running, Kept
    <2>3. OneAttempt(m)'
      BY <1>3, <1>5, <2>2 DEF OneAttempt
    <2>4. verdict'[m] \notin BehindReplay
      BY <1>3, AbsentIsNoVerdict DEF BehindReplay, Verdicts
    <2>5. \A j \in Invocations : ~(Attempts(j, m) /\ Beyond(j))'
      BY <1>2, <2>2 DEF Beyond
    <2>6. ~At(waits[m], "done")'
      BY <1>2, <1>5 DEF At
    <2> QED  BY <2>3, <2>4, <2>5, <2>6 DEF Refusable
  <1> QED  BY <1>7, <1>8, <1>9

\* An attempt that ends before the store does nothing there, and is no answer
\* that says anything of what took effect.
LEMMA TurnAwayKeeps ==
    ASSUME TypeInv, ClientInv, NEW m \in Clients, TurnAway(m)
    PROVE  WaitsForOwn' /\ \A n \in Clients : Trusted(n)'
  <1>1. PICK status \in DoorRefusals :
           verdict' = verdict \/ (~Retryable(status) /\ verdict' = [verdict EXCEPT ![m] = status])
    BY DEF TurnAway
  <1>2. /\ UNCHANGED <<pc, call, reply, applied, clock, waits>>
        /\ waits[m] = Absent /\ verdict[m] = Absent
        /\ overlapped' = IF StillRuns(m) THEN overlapped \cup {m} ELSE overlapped
    BY DEF TurnAway, Asks, vars, local
  <1>3. DOMAIN verdict = Clients
    BY DEF ClientInv, WaitsForOwn
  <1>4. WaitsForOwn'
    BY <1>1, <1>2 DEF ClientInv, WaitsForOwn, Attempts
  <1>5. ASSUME NEW n \in Clients, n # m PROVE Trusted(n)'
    <2>1. verdict'[n] = verdict[n]
      BY <1>1, <1>3, <1>5
    <2>2. Untouched(n) => Untouched(n)'
      BY <1>2 DEF Untouched, TookEffect, ReceiptMayBeGone
    <2>3. Quiet(n)
      BY <1>2, <2>1, <2>2 DEF Quiet, Attempts, Running
    <2> QED  BY <2>3, QuietKeeps DEF ClientInv
  <1>6. Trusted(m)'
    <2> SUFFICES ASSUME m \notin overlapped' PROVE OneAttempt(m)' /\ Refusable(m)'
      BY DEF Trusted
    <2>1. \A j \in Invocations : ~(Attempts(j, m) /\ Running(j))'
      BY <1>2 DEF StillRuns, Attempts, Running
    <2>2. verdict'[m] \notin BehindReplay
      BY <1>1, <1>2, <1>3, AbsentIsNoVerdict DEF BehindReplay, Verdicts, DoorRefusals, Retryable
    <2>3. OneAttempt(m)'
      BY <2>1 DEF OneAttempt
    <2>4. Refusable(m)'
      BY <1>2, <2>1, <2>2 DEF Refusable, Beyond
    <2> QED  BY <2>3, <2>4
  <1> QED  BY <1>4, <1>5, <1>6

\* Nobody hears an invocation that has ended or crashed.
LEMMA DeafKeeps ==
    ASSUME TypeInv, ClientInv, NEW i \in Invocations, Unheard(i) \/ (Crash(i) /\ Deaf(i)),
           UNCHANGED <<verdict, overlapped>>
    PROVE  WaitsForOwn' /\ \A m \in Clients : Trusted(m)'
  <1>1. /\ UNCHANGED <<applied, clock>> /\ pc'[i] = "idle"
        /\ \A j \in Invocations \ {i} : Kept(j)
    BY ReturnStep DEF Unheard
  <1>2. waits \in [Clients -> Invocations \cup {Absent}] /\ DOMAIN verdict' = Clients
    BY DEF ClientInv, WaitsForOwn
  <1>3. /\ waits' \in [Clients -> Invocations \cup {Absent}]
        /\ \A m \in Clients :
              /\ waits'[m] \in {waits[m], Absent}
              /\ waits'[m] # Absent => waits'[m] = waits[m] /\ waits[m] # i
    <2>1. CASE Unheard(i)
      BY <1>2, <2>1 DEF Unheard, client
    <2>2. CASE Deaf(i)
      BY <1>2, <2>2 DEF Deaf
    <2> QED  BY <2>1, <2>2
  <1>4. WaitsForOwn'
    BY <1>1, <1>2, <1>3, EndKeepsWaits DEF ClientInv
  <1>5. ASSUME NEW m \in Clients PROVE Trusted(m)'
    <2>1. Quiet(m)
      BY <1>1, <1>2, <1>3, EndIsQuiet
    <2> QED  BY <2>1, QuietKeeps DEF ClientInv
  <1> QED  BY <1>4, <1>5

\* Time passes, a receipt expires, or a client stops waiting.
LEMMA RestKeeps ==
    ASSUME TypeInv, ClientInv, UNCHANGED <<pc, call, reply, applied, verdict, overlapped>>,
           clock' \in {clock, clock + 1},
           waits' \in [Clients -> Invocations \cup {Absent}],
           \A m \in Clients : waits'[m] \in {waits[m], Absent}
    PROVE  WaitsForOwn' /\ \A m \in Clients : Trusted(m)'
  <1>1. WaitsForOwn'
    BY DEF ClientInv, WaitsForOwn, Attempts
  <1>2. ASSUME NEW m \in Clients PROVE Trusted(m)'
    <2>1. Untouched(m) => Untouched(m)'
      BY UntouchedStays
    <2>2. Quiet(m)
      BY <2>1 DEF Quiet, Attempts, Running
    <2> QED  BY <2>2, QuietKeeps DEF ClientInv
  <1> QED  BY <1>1, <1>2

LEMMA ClientInitial == ClientInit => ClientInv
  <1> SUFFICES ASSUME ClientInit PROVE ClientInv
    OBVIOUS
  <1>1. WaitsForOwn
    BY DEF ClientInit, WaitsForOwn
  <1>2. ReceiptsHaveOrigin
    BY DEF ClientInit, Init, ReceiptsHaveOrigin
  <1>3. ASSUME NEW m \in Clients PROVE Trusted(m)
    <2>1. \A i \in Invocations : ~Running(i)
      BY DEF ClientInit, Init, Running
    <2>2. waits[m] = Absent /\ verdict[m] \notin BehindReplay
      BY AbsentIsNoVerdict DEF ClientInit, BehindReplay, Verdicts
    <2> QED  BY <2>1, <2>2 DEF Trusted, OneAttempt, Refusable, Beyond
  <1> QED  BY <1>1, <1>2, <1>3 DEF ClientInv

\* What the clients do to the invocations are steps of the store.
LEMMA ClientSteps ==
    ASSUME waits \in [Clients -> Invocations \cup {Absent}], [ClientNext]_clientVars
    PROVE  [Next]_vars
  <1>1. ASSUME NEW m \in Clients, Send(m) \/ TurnAway(m) \/ Hear(m) \/ GiveUp(m)
        PROVE  [Next]_vars
    BY <1>1 DEF Send, TurnAway, Hear, GiveUp, Next, Invoke
  <1>2. ASSUME NEW i \in Invocations, Work(i) \/ Break(i) \/ Unheard(i) PROVE Next
    BY <1>2 DEF Work, Break, Unheard, Next, Invoke
  <1>3. CASE Tick \/ \E k \in Keys : ExpireReceipt(k)
    BY <1>3 DEF Next
  <1>4. CASE UNCHANGED clientVars
    BY <1>4 DEF clientVars
  <1> QED  BY <1>1, <1>2, <1>3, <1>4 DEF ClientNext

LEMMA WaitsTyped ==
    ClientSpec => [](waits \in [Clients -> Invocations \cup {Absent}])
  <1> DEFINE WaitsOK == waits \in [Clients -> Invocations \cup {Absent}]
  <1>1. ClientInit => WaitsOK
    BY DEF ClientInit
  <1>2. WaitsOK /\ [ClientNext]_clientVars => WaitsOK'
    BY DEF ClientNext, Send, TurnAway, Hear, GiveUp, Work, Break, Unheard, Deaf, client, clientVars
  <1> QED  BY <1>1, <1>2, PTL DEF ClientSpec

\* Clients that wait, give up and send again only choose among the steps of
\* the store: what holds of it for any callers holds for them.
THEOREM ClientsUseTheStore == ClientSpec => Spec
  <1>1. ClientInit => Init
    BY DEF ClientInit
  <1>2. waits \in [Clients -> Invocations \cup {Absent}] /\ [ClientNext]_clientVars => [Next]_vars
    BY ClientSteps
  <1> QED  BY <1>1, <1>2, WaitsTyped, PTL DEF ClientSpec, Spec

LEMMA ClientStep ==
    TypeInv /\ JournalInv /\ ClientInv /\ [ClientNext]_clientVars => ClientInv'
  <1> SUFFICES ASSUME TypeInv, JournalInv, ClientInv, [ClientNext]_clientVars
               PROVE  ClientInv'
    OBVIOUS
  <1> DEFINE Steady == WaitsForOwn' /\ \A m \in Clients : Trusted(m)'
  <1>1. waits \in [Clients -> Invocations \cup {Absent}]
    BY DEF ClientInv, WaitsForOwn
  <1>2. ReceiptsHaveOrigin'
    BY <1>1, ClientSteps, OriginStays DEF ClientInv
  <1>3. ASSUME NEW m \in Clients, Send(m) \/ TurnAway(m) \/ Hear(m) PROVE Steady
    BY <1>3, SendKeeps, TurnAwayKeeps, HearKeeps
  <1>4. ASSUME NEW m \in Clients, GiveUp(m) PROVE Steady
    <2>1. /\ UNCHANGED <<pc, call, reply, applied, verdict, overlapped, clock>>
          /\ waits' = [waits EXCEPT ![m] = Absent]
      BY <1>4 DEF GiveUp, vars, local
    <2> QED  BY <1>1, <2>1, RestKeeps
  <1>5. ASSUME NEW i \in Invocations, Work(i) PROVE Steady
    <2>1. UNCHANGED <<waits, verdict, overlapped>>
      BY <1>5 DEF Work, client
    <2> QED  BY <1>5, <2>1, UnsettledKeeps, TransactionKeeps DEF Unsettled
  <1>6. ASSUME NEW i \in Invocations, Break(i) PROVE Steady
    <2>1. verdict' = verdict /\ overlapped' = overlapped
      BY <1>6 DEF Break
    <2>2. CASE BackendError(i) /\ waits' = waits
      BY <2>1, <2>2, UnsettledKeeps, TransactionKeeps DEF Unsettled
    <2>3. CASE Crash(i) /\ Deaf(i)
      BY <2>1, <2>3, DeafKeeps
    <2> QED  BY <1>6, <2>2, <2>3 DEF Break
  <1>7. ASSUME NEW i \in Invocations, Unheard(i) PROVE Steady
    <2>1. UNCHANGED <<verdict, overlapped>>
      BY <1>7 DEF Unheard, client
    <2> QED  BY <1>7, <2>1, DeafKeeps
  <1>8. ASSUME (Tick \/ \E k \in Keys : ExpireReceipt(k)) /\ UNCHANGED client PROVE Steady
    <2>1. /\ UNCHANGED <<pc, call, reply, applied, verdict, overlapped>>
          /\ waits' = waits /\ clock' \in {clock, clock + 1}
      BY <1>8 DEF Tick, ExpireReceipt, local, client
    <2> QED  BY <1>1, <2>1, RestKeeps
  <1>9. ASSUME UNCHANGED clientVars PROVE Steady
    <2>1. /\ UNCHANGED <<pc, call, reply, applied, verdict, overlapped>>
          /\ waits' = waits /\ clock' = clock
      BY <1>9 DEF clientVars, client, vars, local
    <2> QED  BY <1>1, <2>1, RestKeeps
  <1>10. Steady
    BY <1>3, <1>4, <1>5, <1>6, <1>7, <1>8, <1>9 DEF ClientNext
  <1> QED  BY <1>2, <1>10 DEF ClientInv

\* A client that waited for the end of each attempt before it sent again, and
\* is told of a conflict or of an invalid request, has changed nothing, unless
\* its mutation is so old that its receipt has expired: the replay check finds
\* what took effect, and nothing can take effect between that check and the
\* refusal.  A 404, 401 or 403 is no such answer: it may precede the check.
THEOREM RefusalsCanBeTrusted == ClientSpec => []RefusalsAreTrue
  <1>1. ClientInv => RefusalsAreTrue
    BY DEF ClientInv, Trusted, Refusable, Untouched, BehindReplay, RefusalsAreTrue
  <1>2. IInv => TypeInv
    BY DEF IInv
  <1> QED
    BY <1>1, <1>2, ClientInitial, ClientStep, ClientsUseTheStore, InvariantHolds,
       JournalHolds, PTL DEF ClientSpec

=============================================================================
