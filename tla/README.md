# A verification of Zoolanding Data Spaces

TLA+ modules, TLC runs and TLAPS proofs about the service in this repository:
draft-configured collections of records kept in one DynamoDB table, changed by
concurrent Lambda invocations under optimistic conditions, with publication of
a public projection. Paths below are relative to the repository root.

## 1. Inventory of the system

| Component | Source | State it keeps | Operations |
| --- | --- | --- | --- |
| Collection and record store | `src/storage.py` (`DataSpaceStore`) | the items of one partition: SPACE, SCHEMA, SCHEMA_REV, RECORD, RECORD_REV, PUBLIC, IDEMPOTENCY, AUDIT | six mutations: create and update a collection, create and update a record, publish, unpublish |
| Store reads and listings | `src/storage.py` (`get_*`, `list_*`, `_list`) | none | get by id or revision, page through a prefix |
| DynamoDB adapter | `src/storage.py` (`_DynamoBackend`) | none | consistent GET and Query, conditional transaction |
| Schema and record policy | `src/domain/schema_policy.py` | none | `validate_schema`, `validate_record` |
| Public projection | `src/domain/records.py` | none | `public_projection` |
| Protected action handler | `src/handlers/protected_action.py` | none | resolve the policy, authorize, call the store |
| Protected and public read handlers | `src/handlers/protected_read.py`, `public_read.py` | none | lists and details, with cursors |
| Internal snapshot handler | `src/handlers/internal_snapshot_read.py` | none | one exact record revision with its content hash |
| Published policy resolver | `src/common/published_policy.py` | a cache per warm Lambda | read the pointer, load and validate the descriptors of a version |
| Session authorization | `src/common/auth_admin.py` | none (reads sessions and users) | check session, user, groups, CSRF |
| IAM caller | `src/common/iam_caller.py` | none | compare the caller with the configured role |
| Retrying clients | any caller of the action route, from `error_response`, `protected_action.py` and the receipts of `storage.py` | whether it has a final answer | send a call, hear or lose its answer, send again with the same key |
| HTTP transport and cursors | `src/common/http.py` | none | strict JSON, error classes, signed-scope cursors |
| Deployment template | `template.yaml` | - | function timeout (10 s), TTL on `expiresAt` |

How they interact: a handler resolves the published policy of its domain,
authorizes the session, and calls one method of the store with the limits of
that policy and the time at which it started (`now_epoch`). The store reads the
receipt of the idempotency key, then the items the operation depends on, each
with a GET of its own, and finally sends one transaction whose conditions
compare the items with what was read. Exceptions become the classes of
`error_response`. No lock is held between the calls: all coordination between
invocations is in the conditions.

What is hard: the interleaving of several invocations between any two calls;
the age of what was read when the transaction is applied; the counters that
stand for limits and are put back from a snapshot; the schema changing under
records and publications; lost acknowledgements, killed invocations and
retries, with receipts that expire; an unconditional audit and public item in
an otherwise conditional transaction. `PROJECT.json` lists these hazards at
their lines, with the properties aimed at them.

Besides the store: a policy that is published while a request is served under
the one before, and the cache of a warm container; sessions, users and policies
that are read at three instants; listings that are walked through while items
come and go; schemas nested in objects and arrays; clients that must decide from
an answer whether to send again.

What makes each component correct:

- store: each mutation is atomic on the state of the moment it takes effect
  (schema, limits, expected revision), is applied at most once, is audited,
  loses no update, and keeps the public item a projection of the revision it
  names under a schema that still classifies its fields public;
- policy and projection: what is accepted fits the schema; a projection holds
  public fields only, at every level;
- resolver: a request is served by one version, that of the pointer it read;
- authorization: no mutation without a session that was valid when it was read;
- listings: a page shows only public items, and no item that was there
  throughout is skipped;
- snapshot: the answer is one stored revision, unchanged by concurrent edits.

## 2. Modules

| Module | Models |
| --- | --- |
| `RecordSchema` | `schema_policy.py` and `records.py` for schemas of one level, as set operators |
| `DataSpaceItems` | the requests, policies and stored items of one partition, and the assumptions on the constants |
| `DataSpace` | the contract: the six mutations as atomic steps that are checked against the current state, without snapshots, counters or receipts |
| `DataSpaceStore` | `DataSpaceStore` and `_DynamoBackend`, run by concurrent invocations; the properties; the mapping to the contract |
| `RetryingClient` | clients of the action route, composed with `DataSpaceStore`: one call each, sent until an answer is not retryable |
| `RecordReads` | the reads of one item (protected, public, internal snapshot), composed with `DataSpaceStore` |
| `RecordListing` | the listings, their pages and cursors, composed with the contract `DataSpace` |
| `NestedSchema` | validation, count, depth and projection over objects and arrays, as the code recurses, and reference definitions by paths |
| `NestedRecords` | one collection and one record under nested schemas |
| `PublishedPolicy` | the vocabulary of `published_policy.py`: metadata, packages, and what is sound |
| `PolicyService` | the contract of the resolver: the whole policy named at one instant of the call, or none |
| `PolicyResolver` | `PublishedPolicyResolver` with cache, loads, failures and recycled containers; the mapping to `PolicyService` |
| `SessionAuthorization` | `authorize_request` after a policy resolved as `PolicyService` promises it |
| `MC...` | the workload of each run for TLC |
| `DataSpaceStoreProofs` | proofs about the store: types, the invariant of the protocol, the refinement of the contract |
| `DataSpaceHistory` | on top of it: history and publication, and what is applied, audited, kept and answered |
| `DataSpaceCallers` | on top of that: the readers and the clients |
| `RecordListingProofs` | proofs about the listings |
| `PolicyResolverProofs`, `SessionAuthorizationProofs` | proofs about the resolver, and about authorization |
| `Recursion` | that a recursive function on ranked data satisfies its equation, and the induction on ranks; a module with parameters, to be instantiated |
| `NestedRecordsProofs` | proofs about schemas and records of any depth |

Composition. `RetryingClient` and `RecordReads` extend the detailed store, since
what they are about (lost answers, three items written by one transaction) is in
its steps. `RecordListing` extends the contract, which the store is proved to
implement, since a listing depends on which items are there and on nothing
else. `SessionAuthorization` extends `PolicyService`, which the resolver is proved
to implement. An invocation is "allowed" in `SessionAuthorization` from the end of
its authorization to its last call to the store, so that a property of allowed
invocations is one of the moment at which `DataSpaceStore` applies a mutation.

### The store

Correspondence of state. `space`, `schema`, `schemaRev`, `record`, `recordRev`,
`public`, `receipt` and `audit` are the items by their keys (`Absent` for none;
`publishedRevision` 0 for the missing attribute). `pc`, `call`, `since`, `reply`
and the `seen...` variables are the locals of each invocation: what it serves,
`now_epoch`, and what it has read. `applied` is auxiliary.

Correspondence of actions. `Begin` is the handler calling the store. `Replay`,
`RefuseKeyReuse`, `RefuseSchema` and `Proceed` are the receipt GET and the
schema validation that follows without a call in between. Each further GET is
an action (`...Read...`) with the checks the code makes on its result, in the
order of the code; `NotFound` is `_get`. Each transaction is one action, whose
guard is `Conditions` and whose effect is all the items the operation puts;
`ConditionFailed` is its refusal. After a transaction the client may be told
`internal_error` although it took effect (`Settle`). `BackendError` is any other
exception of boto3, `Crash` the end of the Lambda, `Tick` and `ExpireReceipt`
time and the TTL of the table.

Abstractions. One partition (a transaction never touches two). A request hash
is the request itself and an idempotency digest the key: SHA-256 is taken as
injective. The type of a field with its options is the set of values it accepts,
the size of a record its number of fields. `createdAt` and `updatedAt` are left
out. Clocks of invocations agree. The SDK's own retries carry one client token
and are not a second transaction.

### Clients, readers and listings

`RetryingClient`: a client is a key and a request; the policy of an attempt is the
one resolved for it. `Send` is an attempt that passes policy and authorization and
reaches the store; `TurnAway` one that does not: `_handle` makes these checks for
each attempt anew, before the store looks for a receipt, so that any attempt may be
answered with one of `DoorRefusals` (404 for a space that is not there or not
active, 401 for a session that ended or a fault of its table, 403, 503 for the
policy). When these happen is left open; what they rest on is in
`SessionAuthorization`. `Hear` is an answer, final unless `error_response` calls it
retryable (`Retryable`); `GiveUp` a client
that stops waiting and may send again while the first attempt still runs;
`Break` a failed call to DynamoDB or a killed Lambda; `Work` any step of the
store. `overlapped` remembers the calls that were sent while an attempt ran. All
attempts of a client are about one partition: a domain that is moved to another
draft between two attempts, or a client that signs in as another subject, is
outside the model.

`RecordReads`: each `Read...` is one consistent GET with what the handler does
before and after it: the gate of the space, the role of the caller, the limit
on fields, the selection of fields. `told` is one answer that was given; a read
changes nothing, so that one remembered answer stands for any pair of reads.

`RecordListing`: one walk through one of the three listings. `AskPage` is the
handler resolving the policy and decoding the cursor; `ScanItem` the Query coming
to its next item, since `ConsistentRead` is no snapshot of a partition;
`FullPage` and `LastPage` the answer with and without `LastEvaluatedKey`;
`PageFails` a page that does not arrive. A walk changes nothing: one is enough.
`steady` remembers what was there from the beginning.

### Policy and authorization

`PolicyResolver`: `ReadMetadata` is the consistent read of the pointer with the
checks of `_resolve`; `AnswerFromCache` and `MissCache` the lookup under
`CacheKey`; `LoadSpaces` and `LoadRegistry` one S3 read each with its validation;
`ReadFails` any exception of a read. `Publish` writes any of the metadata items,
between any two steps; `Recycle` ends a container with its cache. A package is
immutable under its version; a descriptor that is not of the closed shape is
`Absent`. Containers share the metadata only, and none of them writes it, so
that one container is enough for TLC; the proofs are for any number.

`SessionAuthorization`: `CheckPolicy`, `ReadSession` and `ReadUser` are the checks of
`authorize_request` in its order. The reads of session and user, which the code
makes without `ConsistentRead`, return any value that was current in the last
`MaxLag` seconds (`ValuesSince`). `RevokeSession` and `WriteUser` are Auth Admin.
Every refusal ends the invocation (`End`), whatever its class.

### Nested schemas

`NestedSchema` has the functions of the code, recursion for recursion, beside
`FieldPaths`, `PublicPaths` and `ValuePaths`, in which the properties are stated.
They are recursive functions, on the constants `Definitions` and `Values`: the
field definitions and the JSON values that occur, with all those inside them. Both
are finite trees, so that each has a height (`DefinitionHeight`, `ValueHeight`)
above those of its parts. What takes a definition and a value together is a function
of pairs. A value is projected only after it was validated (`Accepted`).
Which of several invalid fields is reported first depends on the order of the
request; `Verdicts` is the set of possible outcomes, "error" being an exception
other than `SchemaPolicyError`. Of the options of a type only the lower bound of
a number is kept, because its absence and JSON null differ; the others are in
`RecordSchema` as the set of accepted values.

## 3. Runs

| Run | Question | Bounds |
| --- | --- | --- |
| `schema_races` | do schema updates and the records of a collection stay in step, and does each creation stay within the limits of its own policy? | two collections, two records, three schemas (a reclassification and an additive change with a required field), a wide policy, and a narrow one for the calls at and beyond its limits; revisions to 2, one update of a schema |
| `record_lifecycle` | do record, history and public item agree through every order of edits, publications and withdrawals? | one record, revisions to 4, the schema gaining a required field |
| `retries` | are retries applied once, audited and answered truthfully, and can an outcome be asked for later, receipts expiring meanwhile? | two keys shared by six calls, clock to 4, receipts live 2, invocations 1 |
| `clients` | which refusals may a client trust, and does it get a final answer? | two clients whose calls depend on each other, any attempt may be refused before the store, one client is under a wide policy or a narrow one at each attempt; one failure (a 503 is one) beside lost acknowledgements, clock to 3 (the safety property is proved for any number) |
| `reads` | do draft, public and snapshot reads tell one history? | one record published, withdrawn and published again, revisions to 4; two snapshot callers, three descriptors |
| `listing` | does a walk show everything once, in order, under one policy, and end? | two collections, three records, each published and withdrawn once; two versions with pages of 2 and 1 |
| `nested_records` | do limits, validation and projection hold at every depth? | about 150 schemas: every classification at two levels, objects, arrays of objects, chains of six levels, an array of arrays of public objects; 5 fields, depth 4 |
| `policy_resolver` | is an answer the whole policy of one instant, whatever is cached? | two drafts, three versions, seven metadata items, among them each kind that is refused |
| `session_authorization` | how old may be what an allowed mutation rests on? | three drafts of two tenants, four user states, two writes of others within the window, clock to 3 |
| `receipt_address`, `arrays_of_arrays`, `null_minimum` | disagreements, below | as `retries` without time; one array of arrays of objects; one number field |

Properties of the passing runs, one sentence each (the modules state them
formally, with the code they are about):

- `TypeOK`: items and locals have their types, revisions their bound.
- `CountersExact`: `collectionCount` and `recordCount` equal the number of items.
- `SnapshotsTrue`: an item that still has the revision an invocation read has the
  content it read, which is what the conditions of a transaction take for granted.
- `PublicFieldsStillPublic`: the README's promise that no public item retains a
  field the current schema removed, retyped or reclassified.
- `ImplementsContract`: the store refines `DataSpace`; every check made on a
  snapshot holds of the current state, as the contract has it. The contract
  leaves open under which policy a request is made.
- `ActsUnderItsPolicy`: it is the policy that the committing invocation resolved:
  its limits and classifications hold when its transaction takes effect.
- `PublicationMatchesRecord`: a public item exists exactly while the record's
  status is published, and is the projection of the revision it names.
- `HistoryComplete`, `HistoryImmutable`, `RevisionsConform`: the revision items
  are all there, are never rewritten, and fit the schema revision they name.
- `NoLostUpdate`: each revision is the effect of one mutation of its own.
- `AppliedAtMostOnce`: a request takes effect once, under whatever key and
  however late it is retried.
- `KeyNamesOneMutation`: two mutations under one key lie at least a receipt's
  life, less a Lambda timeout, apart.
- `EveryMutationAudited`: no audit entry is replaced by another one. It needs
  the timeout to be shorter than the receipt's life (10 s against 90 days).
- `AnswersAreTrue`: a success names a mutation that was applied, with its content.
- `OutcomesAreKept`: while its receipt lives, the key of a mutation has that
  mutation's request and its delivered result: an attempt that reaches the store
  learns what came of the call, whatever was answered before.
- `RefusalsAreTrue`: a client that waited for the end of each attempt and is told
  of a conflict or a validation error can rely on it that its call was not
  applied, while its receipt lives (`BehindReplay`: these codes follow the replay
  check). A 404, 401 or 403 is final too, but may come from before that check and
  says nothing about an earlier attempt whose answer was lost.
- `EveryClientIsAnswered`: every client gets a final answer.
- `AnswersAreHistory`: what any reader was shown is, and remains, what the
  history has at the revision that the answer names.
- `ReadsMoveForward`: a read of the current item is never older than an answer
  given before, nor a public answer older than a public one.
- `ShownInOrder`, `WalkComplete`: a walk shows nothing twice, and everything that
  was there throughout; `OneListingPerWalk`: under one policy version;
  `WalksEnd`: it ends, or is refused.
- `LimitsHold`: `maxFieldsPerCollection` bounds the fields of all levels together, and no field lies deeper than four.
- `OnlyPublicShown`, `EveryPublicShown`: a public item shows exactly the fields
  that are public with all the fields they are part of.
- `ValidationDecides`: a record is accepted or refused, no schema of the workload makes
  validation fail otherwise.
- `CacheSound`: what a container keeps is valid for the draft, environment and
  version it is kept under; `AnswersFit`: an answer fits its request;
  `ImplementsService`: it is the whole policy named at one instant of the call;
  `NewPolicyTakesHold`: when publications come to rest, containers do too.
- `PolicyAge`: the policy of an allowed mutation was published at most a timeout
  ago; `RevocationTakesHold`: its session and user were good at most a timeout
  and a read's lag ago, together; `SessionStaysHome`: a session opens no space
  of another tenant, environment or profile than its own.

### Bounds

Bounds are named constants. `MaxRevision` restricts the revisions that requests
expect, `MaxClock` the clock, `MaxFailures` failures, `MaxWrites` what is
remembered of past values; nothing else is cut off. The ratio of `Timeout` to
`ReceiptTTL` keeps the order that the code has; the values are the smallest that
let an invocation outlive a tick and a receipt expire under a running one.

Two invocations, interchangeable where no liveness is checked (symmetry), serve
any call of the workload any number of times. Two are enough for every race of
the hazard list, which are between one invocation and the commits of others: a
committed invocation is free to serve the next call, so any number of commits
can fall between two steps of its neighbour. In `schema_races` the calls that reach
a limit of the narrow policy, and those that exceed one, are made under that policy
alone (`AtTheLimits`): no call with the same request and wider limits could stand
for them in the contract, so that `ImplementsContract` and `ActsUnderItsPolicy` depend
on each of the checks of collections, records, bytes, fields and classifications.
Its bound on revisions allows one update of a schema; sequences of updates are in
`nested_records`, and in the theorem about `PublicFieldsStillPublic`. There the limit on
fields is one constant: a policy that shrinks below what a schema already has is
not covered.

The workload of `nested_records` leaves out null minima and arrays of arrays with
a field that is not public, which the two violation runs are about; with them its
properties do not hold. `MCNestedRecords` assumes this by the names that the
theorems have for it (`TablesAreOpen`, `BoundsAreNumbers`). Each nested run takes
for `Definitions` and `Values` what its own schemas and records have inside, and the
values with fields left out, which publication may make of them.

### Fairness

- `FairSpec` (resolver): weak fairness of the steps of each container. boto3
  answers or times out, and Lambda does not suspend an invocation for ever.
- `FairClientSpec`: weak fairness of the steps of each invocation, for the same
  reason, and of clients that send and listen. Failures are bounded
  (`MaxFailures`), an attempt turned away with 503 among them: no store answers a
  client whose every attempt fails. Nothing is assumed of the other refusals, which
  may or may not happen. Answered
  clients stop, therefore this run does not check for deadlock.
- `FairListSpec`: weak fairness of asking, and strong fairness of scanning and
  delivering, because a page may fail again and again in between: this is what
  "retryable" tells a client, that a failure is transient.

Everything else is safety. All runs but `clients` check for deadlock: an
invocation, a walk or a call can always begin.

### Disagreements with the documentation

- `receipt_address` refutes the key layout of `README.md` (Storage): receipts are
  addressed by the digest of the idempotency key alone. The consequences are as
  tests and code intend (a reused key is refused), only the document is wrong.
- `arrays_of_arrays` refutes "Public reads expose only ... fields classified
  `public`": `_project_value` goes into arrays of objects; an array of arrays of
  objects, which `validate_schema` accepts, is copied with the internal fields of
  its objects.
- `null_minimum`: a number field with `minimum: null` is accepted by
  `validate_schema`, and every value of that field then raises `TypeError`, which
  is answered as a retryable `internal_error`.

Behaviours that no document contradicts, to know when reading the properties. Of
two concurrent attempts of one call, the one that commits second is answered with
a conflict that is not retryable, although the call was applied: hence the
condition on `overlapped` in `RefusalsAreTrue`. A call that took effect and whose
answer was lost may be refused for good when it is sent again, one attempt after
the other, because the space was withdrawn, the session ended, a role was taken
away or a session could not be read in between (`protected_action.py:67`,
`auth_admin.py:77`): TLC refutes `RefusalsAreTrue` with any of these codes in
`BehindReplay`. "Fresh session/user state" is fresh
up to the lag of an eventually consistent read: hence `MaxLag` in
`RevocationTakesHold`. The depth limit is compared where fields are: arrays of
arrays of scalars are accepted at any depth.

## 4. Proofs

TLAPS proves the following for every set of collections, records, fields,
values, keys, actors, invocations, callers, containers, drafts and versions, every
set of calls and every bound; and for every set of schemas and records, nested to
any depth.

| Theorem | States | Module |
| --- | --- | --- |
| `TypeCorrect` | `Spec => []TypeOK` | `DataSpaceStoreProofs` |
| `CountersAreExact` | `Spec => []CountersExact` | `DataSpaceStoreProofs` |
| `SnapshotsAreTrue` | `Spec => []SnapshotsTrue` | `DataSpaceStoreProofs` |
| `Implementation` | `Spec => ImplementsContract` | `DataSpaceStoreProofs` |
| `HistoryIsComplete` | `Spec => []HistoryComplete` | `DataSpaceHistory` |
| `HistoryIsImmutable` | `Spec => HistoryImmutable` | `DataSpaceHistory` |
| `PublicationIsTrue` | `Spec => []PublicationMatchesRecord` | `DataSpaceHistory` |
| `PublishedFieldsArePublic` | `Spec => []PublicFieldsStillPublic` | `DataSpaceHistory` |
| `EachUnderItsPolicy` | `Spec => ActsUnderItsPolicy` | `DataSpaceHistory` |
| `EachRequestAppliedOnce` | `Spec => AppliedAtMostOnce` | `DataSpaceHistory` |
| `NoUpdateIsLost` | `Spec => []NoLostUpdate` | `DataSpaceHistory` |
| `OneMutationPerKey` | `Spec => []KeyNamesOneMutation` | `DataSpaceHistory` |
| `MutationsAreAudited` | `Spec => []EveryMutationAudited` | `DataSpaceHistory` |
| `RevisionsDoConform` | `Spec => []RevisionsConform` | `DataSpaceHistory` |
| `ToldIsTrue` | `Spec => []AnswersAreTrue` | `DataSpaceHistory` |
| `ClientsUseTheStore` | `ClientSpec => Spec` | `DataSpaceCallers` |
| `OutcomesStayKnown` | `Spec => []OutcomesAreKept` | `DataSpaceCallers` |
| `RefusalsCanBeTrusted` | `ClientSpec => []RefusalsAreTrue` | `DataSpaceCallers` |
| `ReadsChangeNothing` | `ReadSpec => Spec` | `DataSpaceCallers` |
| `ShownIsHistory` | `ReadSpec => []AnswersAreHistory` | `DataSpaceCallers` |
| `ReadersMoveForward` | `ReadSpec => ReadsMoveForward` | `DataSpaceCallers` |
| `PagesAreInOrder` | `ListSpec => []ShownInOrder` | `RecordListingProofs` |
| `WalksMissNothing` | `ListSpec => []WalkComplete` | `RecordListingProofs` |
| `WalksKeepTheirListing` | `ListSpec => OneListingPerWalk` | `RecordListingProofs` |
| `ResolverTypeCorrect` | `Spec => []TypeOK` | `PolicyResolverProofs` |
| `CacheIsSound` | `Spec => []CacheSound` | `PolicyResolverProofs` |
| `AnswersAreFit` | `Spec => []AnswersFit` | `PolicyResolverProofs` |
| `ResolverImplements` | `Spec => ImplementsService` | `PolicyResolverProofs` |
| `PolicyIsRecent` | `AuthSpec => []PolicyAge` | `SessionAuthorizationProofs` |
| `RevocationIsSeen` | `AuthSpec => []RevocationTakesHold` | `SessionAuthorizationProofs` |
| `SessionsStayHome` | `AuthSpec => []SessionStaysHome` | `SessionAuthorizationProofs` |
| `LimitsAtEveryLevel` | `Spec => []LimitsHold` | `NestedRecordsProofs` |
| `PublicAtEveryLevel` | `TablesAreOpen => (Spec => []OnlyPublicShown)` | `NestedRecordsProofs` |
| `PublishedCompletely` | `Spec => EveryPublicShown` | `NestedRecordsProofs` |
| `OnlyNullBoundsFail` | `BoundsAreNumbers => (Spec => []ValidationDecides)` | `NestedRecordsProofs` |

Assumptions, each named in the module that declares the constants: collections,
records and fields are finite (`FiniteIds`; only their cardinalities need it), the
bound on revisions is positive (`RevisionBound`), the calls are well formed
(`CallsAssumption`), `Absent` is no value of an item, a receipt, a request or a
policy (`AbsentAssumption`, `AbsentIsNoReceipt`, `PolicyAssumption`,
`AbsentIsNoPolicy`), and an invocation is shorter than the life of a receipt
(`TimesAssumption`). No verdict of a client yet is no verdict
(`AbsentIsNoVerdict`). The ids of a listing are positive numbers, 0 being before
all of them (`IdsAreOrdered`: the code compares sort keys as strings), the
listings are the three kinds of the read handlers (`ListingsAssumption`), and
`Absent` is no cursor (`NoCursorAssumption`). Protected handlers resolve the auth
registry together with the spaces (`ProtectedAssumption`), and a session item is one
as Auth Admin writes it, `expiresAt` read as a natural number
(`SessionsAssumption`). Field definitions and values are finite trees with finitely
many fields (`DefinitionsAssumption`, `ValuesAssumption`), the limits are numbers
(`LimitsAssumption`), the public copy of a JSON value is one too
(`ProjectionsAreValues`: `Values` has the copies as well), and `Absent` is no schema
and no record (`CasesAssumption`). TLC evaluates them in the runs of the module.

Two theorems have a hypothesis about the schemas, and each is the complement of a
disagreement above. `TablesAreOpen`: arrays of arrays hold no field that is not
public; `arrays_of_arrays` shows that without it the conclusion fails.
`BoundsAreNumbers`: no bound is null; `null_minimum` shows the same. Together theorem
and run say that there is no other way for the property to fail in the model. Both
hypotheses hold in the workload of `nested_records`, where TLC checks them.

The argument for the store. `TypeOK` alone is not inductive, because a transaction
writes back what the invocation has read: `TypeInv` adds `SnapshotsThere`, that what
an operation is about to use has been read. The invariant of the protocol,
`IInv`, adds three facts:

- `SnapshotsTrue`. Every transaction leaves an item as it is, or raises its
  revision, or (a new record) changes only the counter of its collection
  (`ItemsGrow`). So an item with the revision of the snapshot has its content.
- `ChecksMade`. An invocation that is at its transaction has passed the checks of
  its operation on its snapshots. It concerns the locals only, so that the steps
  of other invocations keep it.
- `Counts`: `CountersExact`, and that every record has a collection
  (`RecordsHaveCollections`, without which a new collection's counter of 0 might
  be wrong). The counters go up by one with the set they count; the conditions
  on `collectionCount` and `recordCount` make the snapshot's counter the current one.

`Implementation` follows by cases over the six transactions. The conditions say
that the revisions are those of the snapshots; by `SnapshotsTrue` the contents
are too; by `ChecksMade` the checks hold of them; and by `CountersExact` the limit
checks on counters are limit checks on the sets of the contract. Every other step
leaves the items alone and is a stutter of the contract. Each transaction is shown to
be the contract's step for the request and the policy of its invocation
(`TransactionPerforms`), which is `EachUnderItsPolicy` as well.

`HistoryComplete` is inductive beside `IInv`: each transaction puts the next
revision, or the first, of one schema or one record, on the condition that it is
absent (`SchemaPut`, `RecordPut`), so nothing in the history changes
(`HistoryKept`). `PublicInv` adds `PublicationMatchesRecord` with
`PublicSchemaThere` (a public item names a schema revision that is in the
history, without which the history could still be given another content there)
and `PublicFieldsStillPublic`. The latter rests on the refinement: a schema update
is the one of the contract, which preserves every field as soon as there is a
record, and a published record is one.

Why nothing is applied twice, without the receipts: `RequestsSpent`. A request that
took effect is spent, that is, what it creates is there or the item has gone past
the revision it expects, and items only grow; but a transaction applies only what
is not spent (`NotSpentYet`). This holds however long the receipt has expired.
`RevisionsCount` counts on this: a transaction adds one new mutation to `applied`
and one to the revision, so that a revision is the number of its mutations.

What receipts are needed for is `JournalInv`, one inductive fact about time. A
running invocation is within its timeout (`RunningInTime`); the receipt of a
mutation is there until its expiry (`ReceiptsInTime`). So an invocation that finds
its key free commits more than a receipt's life, less a timeout, after any
mutation of that key, hence, by `Timeout < ReceiptTTL`, started in a later second:
its audit entry has a key of its own (`AuditKept`: there are as many entries as
mutations, and each entry is one of a mutation).

`RevisionsConform` is inductive beside `HistoryComplete`: an edit was checked
against the schema in force (`ChecksMade`), a publication and a withdrawal keep
data and schema revision (`PutFits`). `AnswersInv` says of every receipt and every
successful reply that its result is in the history under the request it stands
for; history does not change, so what was delivered stays true.

The readers. `ReadSpec => Spec`, so that all of this holds under reads.
`PublicInHistory` (a public item is found in the history at the revision it
shows, which is one later than the revision that was projected) is the link
between public answers and history. `ToldInv` says that the remembered answer is in
the history and, if public, not ahead of the public item; a publication has a
higher revision than everything in the history (`CurrentIsNewest`).

The clients. `ClientSpec => Spec`, so that `TypeInv` and `JournalInv` hold under
clients. `ClientInv` says of a client that always waited for the end of an attempt
that no two of its attempts run together and none runs after the final answer
(`OneAttempt`), and that once an attempt has passed the replay check, or is
answered or was answered with a code of `BehindReplay`, the client has changed
nothing that the check would have found (`Refusable`). An attempt that is turned away
before the store adds nothing to this: its code is not one of these
(`TurnAwayKeeps`). The check itself decides this
(`NotReplayed`): a receipt is the one of the mutation that its lifetime began with
(`ReceiptsHaveOrigin`), and by `KeyNamesOneMutation` the key has no other mutation
that old, so that a living receipt of the client's mutation carries the client's
request and is replayed (`LivingReceipt`). With the truth of receipts (`AnswersInv`)
the same fact is `OutcomesStayKnown`. A transaction of the client is its only running
attempt and is answered "ok" or with a retryable error; what others do is
quiet (`QuietKeeps`). Nothing is assumed about keys: two clients may share one.

The listings. `WalkInv` says that a cursor is of the listing and, while the Query
runs, of its policy version (`CursorFits`); that what was shown is in order and up
to the cursor, and the page in order and behind it (`PagesInOrder`); and that what
was there from the beginning is shown up to the cursor, and shown or on the page
up to the place of the Query (`NothingSkipped`). It needs no fact about
publications: they only take from `steady`.

Authorization. `AuthInv` says of each invocation where it stands: it is within its
timeout (`InTime`), its policy was named by the metadata since it began
(`WasNamed`, `AnswerIsPinned`), each check it has passed holds of what it read
(`PolicyChecked`, `SessionChecked`, `UserChecked`), and what it read was current
within the lag of the read. What is remembered of past values only grows, so that
what was so at a moment stays so; all of it is about the instant of one read, and
the three instants meet in the window of `Timeout` and `MaxLag`.

The resolver. Its invariant says that a container that works has pinned a policy
that the metadata named for its request (`InOrder`), that every cache entry is
the whole policy of its key (`CacheWhole`), and that an answer is one too
(`AnswerWhole`). The refinement maps `ReadMetadata` to `Pin`, and the steps that
answer to `Deliver`; a hit and a load deliver the same because an entry is whole.

Nested schemas. `Recursion` is mathematics that these proofs need, and says nothing
about the code. The induction theorems of the library take the step as a parameter,
which the provers cannot instantiate. `Recursion` has it as a parameter of the
module instead: data `S`, a rank and a step. `RankInduction` is the induction, stated
about sets (a set that has each datum whose lower data it has, has all of them), and
`Unfolding` says that a function defined by a step that looks below only satisfies its
equation: functions that satisfy it up to a rank exist (`Approximations`) and agree
(`Agreement`). `NestedRecordsProofs` instantiates the module once for each recursive
function of `NestedSchema`, with the height as the rank, and once for the sum that
`SumFunction` computes. By induction on the height then follow:

- a value that may be accepted has paths of its definition only (`AcceptedPaths`);
  validation has an outcome for every pair (`SomeVerdict`), so that an accepted
  object or array has accepted parts only (`AcceptedObject`, `AcceptedArray`);
- what a copy shows is public (`CopiesArePublic`), and it shows all of it
  (`CopiesAreComplete`); the first needs `TablesAreOpen` for what is copied whole, the
  second nothing;
- the count bounds the number of paths (`CountsBound`, over the sums of `SumBounds`),
  and a well formed schema has no path longer than the depth leaves (`DepthsKept`).

The invariant `Grounded` says that a public item has a record, a record a schema, that
what is stored was sent, and that a schema in use is valid. `OnlyPublicShown` is
inductive beside it: a publication is of validated data, and an update while there is
a record keeps the public paths (`PreservedPublic`).

Only model-checked. Liveness under fairness is out of this prover's reach
(`EveryClientIsAnswered`, `WalksEnd`, `NewPolicyTakesHold`). Every safety property of
the passing runs is a theorem.

## 5. Not modelled

Not modelled: strict JSON parsing, identifiers, headers and the closed shapes of
requests and descriptors (one outcome, valid or not); patterns of restricted names
and text, lengths and enum values (the accepted values of a type); the attribute
encoding of DynamoDB; the syntax of role ARNs; the content hash of a snapshot, which
is a function of the answer; the infrastructure template beyond timeout and TTL;
the workflows. These are pure functions of one input, better served by tests.
A failed read of the auth tables is a refusal like any other in
`SessionAuthorization`; what its 401 does to a client is in `RetryingClient`.
