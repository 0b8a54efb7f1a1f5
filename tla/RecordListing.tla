--------------------------- MODULE RecordListing ---------------------------
(***************************************************************************)
(* One client that walks through a listing, page by page, while records    *)
(* are created, published and withdrawn and the policy changes: _list and  *)
(* the Query of storage.py, the cursors of common/http.py, the recordList  *)
(* and collectionList operations of the read handlers.  A walk changes     *)
(* nothing, so that one stands for all.  The data space behind it is the   *)
(* contract of DataSpace, one step for each mutation.                      *)
(***************************************************************************)
EXTENDS DataSpace, Sequences

CONSTANTS
    Listings,       \* the listings: kind, and collection (Absent for "collections")
    PolicyVersions, \* the versions of the policy that may be published
    MaxPageSize,    \* publicRead.maxPageSize of each version
    PageSizes,      \* the limits that clients ask for, Absent for none
    DefaultPage     \* the page size when none is asked for

\* Sort keys are ordered as the ids they end in.
ASSUME IdsAreOrdered == Collections \subseteq Nat \ {0} /\ Records \subseteq Nat \ {0}

\* The two kinds of listing below a collection, and the one of the collections.
ASSUME ListingsAssumption ==
    Listings \subseteq
        [kind : {"collections"}, collection : {Absent}]
            \cup [kind : {"records", "public-records"}, collection : Collections]

\* What a cursor holds: its scope and the last key evaluated.
Cursors == [listing : Listings, version : PolicyVersions, last : Nat]

ASSUME NoCursorAssumption == Absent \notin Cursors

VARIABLES
    version,        \* the policy version that is published
    pc,             \* "idle", "ask", "query", "complete" or "refused"
    listing,        \* what is listed
    limit,          \* the page size that the client asks for
    token,          \* the cursor that the client got with its last page, or Absent
    pageVersion,    \* the policy version under which the page is served
    page,           \* the ids the Query has read for this page
    shown,          \* the ids of the pages that the client got
    steady          \* auxiliary: what has been there since the walk began

walk == <<pc, listing, limit, token, pageVersion, page, shown>>
allVars == <<vars, version, walk, steady>>

ListInit ==
    /\ Init
    /\ version \in PolicyVersions
    /\ pc = "idle"
    /\ listing \in Listings
    /\ limit \in PageSizes
    /\ token = Absent
    /\ pageVersion = version
    /\ page = <<>>
    /\ shown = <<>>
    /\ steady = {}

\* The ids under the prefix of a listing: SCHEMA#, RECORD#{c}#, PUBLIC#{c}#.
Present(l) ==
    CASE l.kind = "collections"    -> CollectionsThere
      [] l.kind = "records"        -> RecordsOf(l.collection)
      [] l.kind = "public-records" ->
            {r \in Records : published[l.collection, r] # Absent}

StillThere == steady' = steady \cap Present(listing)'

Smaller(a, b) == IF a < b THEN a ELSE b

\* bounded_page_size.
PageSize ==
    Smaller(IF limit = Absent THEN DefaultPage ELSE limit, MaxPageSize[pageVersion])

-----------------------------------------------------------------------------
(* The world: the data space and the policy.                               *)

Mutate == Next /\ UNCHANGED <<version, walk>> /\ StillThere

PublishPolicy ==
    /\ version' \in PolicyVersions \ {version}
    /\ UNCHANGED <<vars, walk, steady>>

-----------------------------------------------------------------------------
(* The walk.                                                               *)

Start ==
    /\ pc = "idle"
    /\ listing' \in Listings
    /\ limit' \in PageSizes
    /\ steady' = Present(listing')
    /\ pc' = "ask"
    /\ UNCHANGED <<vars, version, token, pageVersion, page, shown>>

\* Variants of Accepts: the scope hash leaves out the version, or the cursor
\* says nothing of the listing.
AcceptsAnyVersion(l, v) == token # Absent => token.listing = l
AcceptsAnyListing(l, v) == token # Absent => token.version = v

\* decode_cursor: the cursor is one of this listing, under this version.
Accepts(l, v) == token # Absent => token.listing = l /\ token.version = v

\* The handler resolves the policy and decodes the cursor of a request for a
\* listing, which should be the one the client got its cursor from.
AskPage(l) ==
    /\ pc = "ask"
    /\ token = Absent => l = listing
    /\ \/ Accepts(l, version) /\ pc' = "query"
       \/ ~Accepts(l, version) /\ pc' = "refused"
    /\ listing' = l
    /\ pageVersion' = version
    /\ UNCHANGED <<vars, version, limit, token, page, shown, steady>>

\* Where the Query goes on: after the last item it has read.
Position ==
    IF page # <<>> THEN page[Len(page)] ELSE IF token # Absent THEN token.last ELSE 0

\* A variant of Following: ExclusiveStartKey is taken as inclusive.
NotBefore == {id \in Present(listing) : id >= Position /\ \A k \in DOMAIN page : page[k] # id}

Following == {id \in Present(listing) : id > Position}

\* The Query reads each item when it comes to it: ConsistentRead is no
\* snapshot of the partition.
ScanItem ==
    /\ pc = "query"
    /\ Len(page) < PageSize
    /\ \E id \in Following :
          /\ \A other \in Following : id <= other
          /\ page' = Append(page, id)
    /\ UNCHANGED <<vars, version, pc, listing, limit, token, pageVersion, shown, steady>>

\* A variant of CursorAt: the cursor is the first item that was not read.
CursorAtNext ==
    [listing |-> listing, version |-> pageVersion,
     last |-> CHOOSE id \in Following \cup {Position} :
                  \A other \in Following \cup {Position} : other <= id]

\* encode_cursor of LastEvaluatedKey.
CursorAt == [listing |-> listing, version |-> pageVersion, last |-> Position]

\* A variant of CursorAtEnd: there is a cursor for what may still come.
CursorForMore == CursorAt

\* encode_cursor without LastEvaluatedKey.
CursorAtEnd == Absent

Deliver(cursor) ==
    /\ token' = cursor
    /\ pc' = IF cursor = Absent THEN "complete" ELSE "ask"
    /\ shown' = shown \o page
    /\ page' = <<>>
    /\ UNCHANGED <<vars, version, listing, limit, pageVersion, steady>>

\* The limit is reached, whether anything follows or not, or 1 MB is.
FullPage == pc = "query" /\ page # <<>> /\ Deliver(CursorAt)

LastPage ==
    /\ pc = "query"
    /\ Len(page) < PageSize
    /\ Following = {}
    /\ Deliver(CursorAtEnd)

\* The page is not delivered; the client asks for it again.
PageFails ==
    /\ pc = "query"
    /\ page' = <<>>
    /\ pc' = "ask"
    /\ UNCHANGED <<vars, version, listing, limit, token, pageVersion, shown, steady>>

Finish ==
    /\ pc \in {"complete", "refused"}
    /\ pc' = "idle"
    /\ token' = Absent
    /\ shown' = <<>>
    /\ steady' = {}
    /\ UNCHANGED <<vars, version, listing, limit, pageVersion, page>>

ListNext ==
    \/ Start \/ (\E l \in Listings : AskPage(l))
    \/ ScanItem \/ FullPage \/ LastPage \/ PageFails \/ Finish
    \/ Mutate \/ PublishPolicy

ListSpec == ListInit /\ [][ListNext]_allVars

\* The client goes on asking and keeps to its listing; calls end; failures
\* are transient, as "retryable" tells the client.
FairListSpec ==
    /\ ListSpec
    /\ WF_allVars(AskPage(listing))
    /\ SF_allVars(ScanItem)
    /\ SF_allVars(FullPage \/ LastPage)

-----------------------------------------------------------------------------
(* Properties.                                                             *)

Walking == pc \in {"ask", "query"}

\* No item is shown twice, and all are shown in order, on whatever pages.
ShownInOrder ==
    \A i, j \in DOMAIN shown : i < j => shown[i] < shown[j]

\* A walk that comes to its end has shown everything that was there from its
\* beginning to its end, although other items came and went between pages,
\* and pages failed and were asked for again.
WalkComplete ==
    pc = "complete" => \A id \in steady : \E k \in DOMAIN shown : shown[k] = id

\* All the pages of a walk are of one listing, under one policy version:
\* a walk that another version interrupts is refused.
OneListingPerWalk ==
    [][shown # <<>> /\ shown' # shown /\ shown' # <<>> =>
          token # Absent /\ listing = token.listing /\ pageVersion = token.version]_allVars

\* Every walk ends, however fast records are published into its way.
WalksEnd == Walking ~> ~Walking
=============================================================================
