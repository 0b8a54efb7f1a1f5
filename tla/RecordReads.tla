----------------------------- MODULE RecordReads -----------------------------
(***************************************************************************)
(* The operations that read one item, while the store is being changed:    *)
(* collectionSchema and recordDetail of protected_read.py, recordDetail of *)
(* public_read.py, and internal_snapshot_read.py.  Each resolves a policy, *)
(* makes one consistent GET and answers from what it got.                  *)
(***************************************************************************)
EXTENDS DataSpaceStore

CONSTANTS
    Callers,        \* the identities that a request to the snapshot may name
    SnapshotRole,   \* INTERNAL_SNAPSHOT_CALLER_ROLE_ARN
    SpaceCases      \* the descriptors of the space that a policy may hold

ASSUME ReadsAssumption ==
    /\ SnapshotRole \in Callers
    /\ SpaceCases \subseteq [status : {"active", "disabled"}, publicRead : BOOLEAN,
                             maxFields : Nat]

\* One answer that some reader got earlier, or Absent.  A read that is not
\* the remembered one changes nothing, so that told stands for any of them.
VARIABLE told

readVars == <<vars, told>>

ReadInit == Init /\ told = Absent

Tell(answer) == told' = answer /\ UNCHANGED vars

\* get_collection.
ReadCollection(c) ==
    /\ schema[c] # Absent
    /\ Tell([kind |-> "collection", collection |-> c,
             revision |-> schema[c].revision, values |-> schema[c].schema])

\* get_record.
ReadRecord(c, r) ==
    /\ record[c, r] # Absent
    /\ Tell([kind |-> "record", collection |-> c, record |-> r,
             revision |-> record[c, r].revision,
             schemaRevision |-> record[c, r].schemaRevision,
             values |-> record[c, r].data])

\* get_public_record: the source and schema revisions are not shown.
ReadPublic(c, r) ==
    /\ public[c, r] # Absent
    /\ Tell([kind |-> "public", collection |-> c, record |-> r,
             revision |-> public[c, r].revision, values |-> public[c, r].data])

\* require_internal_snapshot_caller: every role that the request context
\* names, a session standing for its role, is the configured one.
MayReadSnapshots(identities) == identities = {SnapshotRole}

\* get_record_revision, the checks of _handle on the item, and the selection
\* of the fields that were asked for.
ReadSnapshot(c, r, n, fields, descriptor, identities) ==
    LET item == recordRev[c, r][n] IN
    /\ MayReadSnapshots(identities)
    /\ fields # {} /\ Cardinality(fields) <= descriptor.maxFields
    /\ item # Absent
    /\ item.revision = n
    /\ fields \subseteq DOMAIN item.data
    /\ Tell([kind |-> "snapshot", collection |-> c, record |-> r, revision |-> n,
             schemaRevision |-> item.schemaRevision,
             values |-> [f \in fields |-> item.data[f]]])

\* The reads that the descriptor of an active space admits; whether a session
\* may make the protected ones is for SessionAuthorization.
ReadUnder(descriptor) ==
    /\ descriptor.status = "active"
    /\ \E c \in Collections :
          \/ ReadCollection(c)
          \/ \E r \in Records :
                \/ ReadRecord(c, r)
                \/ descriptor.publicRead /\ ReadPublic(c, r)
                \/ \E n \in Revisions, fields \in SUBSET Fields, identities \in SUBSET Callers :
                      ReadSnapshot(c, r, n, fields, descriptor, identities)

Read == \E descriptor \in SpaceCases : ReadUnder(descriptor)

ReadNext == Read \/ (Next /\ UNCHANGED told)

ReadSpec == ReadInit /\ [][ReadNext]_readVars

-----------------------------------------------------------------------------
(* Properties.                                                             *)

OfRecord(answer) == "record" \in DOMAIN answer

\* The immutable revision that an answer names.
RevisionNamed(answer) ==
    IF OfRecord(answer) THEN recordRev[answer.collection, answer.record][answer.revision]
    ELSE schemaRev[answer.collection][answer.revision]

Holds(item, answer) ==
    LET content == IF OfRecord(answer) THEN item.data ELSE item.schema IN
    /\ \A f \in DOMAIN answer.values :
          f \in DOMAIN content /\ content[f] = answer.values[f]
    /\ "schemaRevision" \in DOMAIN answer => item.schemaRevision = answer.schemaRevision

\* README, "exact immutable revision": whatever an answer showed, draft,
\* public or snapshot, is and remains what the history has at the revision
\* that the answer names.  Two answers of one revision never disagree.
AnswersAreHistory ==
    told # Absent => /\ RevisionNamed(told) # Absent
                     /\ Holds(RevisionNamed(told), told)

SameItem(a, b) ==
    /\ a.collection = b.collection
    /\ OfRecord(a) <=> OfRecord(b)
    /\ OfRecord(a) => a.record = b.record

\* Reads do not go back in time: the current item is never older than any
\* answer given before, and a public item never older than a public one,
\* although the record is withdrawn and published again in between.
ReadsMoveForward ==
    [][told # Absent /\ told' # told /\ SameItem(told, told') =>
          /\ told'.kind \in {"collection", "record"} => told.revision <= told'.revision
          /\ told.kind = "public" /\ told'.kind = "public" =>
               told.revision <= told'.revision]_readVars
=============================================================================
