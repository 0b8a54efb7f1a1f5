------------------------ MODULE RecordListingProofs ------------------------
(***************************************************************************)
(* A walk through a listing shows nothing twice, misses nothing that stays *)
(* and keeps to one listing under one policy version, for any ids, calls,  *)
(* listings, page sizes and policy versions, however the data space        *)
(* changes between two items that are read.                                *)
(***************************************************************************)
EXTENDS RecordListing, TLAPS

-----------------------------------------------------------------------------
(* The inductive invariant.                                                *)

In(id, s) == \E k \in DOMAIN s : s[k] = id

Increasing(s) == \A i, j \in DOMAIN s : i < j => s[i] < s[j]

\* Where the page began: the cursor, or before the first id.
From == IF token # Absent THEN token.last ELSE 0

WalkTypeOK ==
    /\ pc \in {"idle", "ask", "query", "complete", "refused"}
    /\ listing \in Listings
    /\ version \in PolicyVersions
    /\ pageVersion \in PolicyVersions
    /\ token \in Cursors \cup {Absent}
    /\ page \in Seq(Nat \ {0})
    /\ shown \in Seq(Nat \ {0})

\* A client without a cursor has been shown nothing yet, unless it is done.
WalkShape ==
    /\ pc = "idle" => token = Absent /\ shown = <<>>
    /\ pc # "query" => page = <<>>
    /\ Walking /\ token = Absent => shown = <<>>

\* The cursor a client holds is of its listing, and the page being read is
\* under the version of the cursor.
CursorFits ==
    /\ Walking /\ token # Absent => token.listing = listing
    /\ pc = "query" /\ token # Absent => token.version = pageVersion

\* The pages so far end where the cursor points; this page lies behind it.
PagesInOrder ==
    /\ Increasing(shown)
    /\ Increasing(page)
    /\ Walking => \A k \in DOMAIN shown : shown[k] <= From
    /\ \A k \in DOMAIN page : page[k] > From

\* Of what was there all the time, everything up to the cursor is shown, and
\* everything up to the last item read is shown or on the page.
NothingSkipped ==
    /\ Walking => steady \subseteq Present(listing)
    /\ Walking => \A id \in steady : id <= From => In(id, shown)
    /\ Walking => \A id \in steady : id <= Position => In(id, shown) \/ In(id, page)
    /\ pc = "complete" => \A id \in steady : In(id, shown)

WalkInv == WalkTypeOK /\ WalkShape /\ CursorFits /\ PagesInOrder /\ NothingSkipped

-----------------------------------------------------------------------------
(* Sequences of ids.                                                       *)

LEMMA PresentAreIds ==
    ASSUME NEW l \in Listings
    PROVE  Present(l) \subseteq Nat \ {0}
  <1>1. l.kind \in {"collections", "records", "public-records"}
    BY ListingsAssumption
  <1>2. CASE l.kind = "collections"
    <2>1. Present(l) = CollectionsThere  BY <1>2 DEF Present
    <2> QED  BY <2>1, IdsAreOrdered DEF CollectionsThere
  <1>3. CASE l.kind = "records"
    <2>1. Present(l) = RecordsOf(l.collection)  BY <1>3 DEF Present
    <2> QED  BY <2>1, IdsAreOrdered DEF RecordsOf
  <1>4. CASE l.kind = "public-records"
    <2>1. Present(l) = {r \in Records : published[l.collection, r] # Absent}
      BY <1>4 DEF Present
    <2> QED  BY <2>1, IdsAreOrdered
  <1> QED  BY <1>1, <1>2, <1>3, <1>4

LEMMA InAppended ==
    ASSUME NEW s \in Seq(Nat \ {0}), NEW n \in Nat \ {0}
    PROVE  /\ Append(s, n) \in Seq(Nat \ {0})
           /\ Len(Append(s, n)) \in Nat /\ Append(s, n) # <<>>
           /\ Append(s, n)[Len(Append(s, n))] = n
           /\ \A id : In(id, Append(s, n)) <=> In(id, s) \/ id = n
  <1>1. /\ Append(s, n) \in Seq(Nat \ {0})
        /\ Len(Append(s, n)) = Len(s) + 1
        /\ DOMAIN Append(s, n) = 1 .. Len(s) + 1
        /\ \A k \in 1 .. Len(s) : Append(s, n)[k] = s[k]
        /\ Append(s, n)[Len(s) + 1] = n
    OBVIOUS
  <1>2. DOMAIN s = 1 .. Len(s) /\ Len(s) \in Nat
    OBVIOUS
  <1>3. Append(s, n) # <<>>
    BY <1>1, <1>2
  <1>4. \A k \in 1 .. Len(s) + 1 : k \in 1 .. Len(s) \/ k = Len(s) + 1
    BY <1>2
  <1>5. 1 .. Len(s) \subseteq 1 .. Len(s) + 1 /\ Len(s) + 1 \in 1 .. Len(s) + 1
    BY <1>2
  <1>6. \A id : In(id, Append(s, n)) <=> In(id, s) \/ id = n
    BY <1>1, <1>2, <1>4, <1>5 DEF In
  <1> QED  BY <1>1, <1>2, <1>3, <1>6

\* The last of an increasing sequence bounds it.
LEMMA LastIsGreatest ==
    ASSUME NEW s \in Seq(Nat \ {0}), Increasing(s), s # <<>>
    PROVE  /\ Len(s) \in DOMAIN s /\ s[Len(s)] \in Nat \ {0}
           /\ \A k \in DOMAIN s : s[k] <= s[Len(s)]
  <1>1. /\ Len(s) \in Nat /\ DOMAIN s = 1 .. Len(s) /\ Len(s) # 0
        /\ \A k \in 1 .. Len(s) : s[k] \in Nat \ {0}
    OBVIOUS
  <1>2. Len(s) \in 1 .. Len(s)
    BY <1>1
  <1>3. \A k \in DOMAIN s : k # Len(s) => s[k] < s[Len(s)]
    <2> TAKE k \in DOMAIN s
    <2> HAVE k # Len(s)
    <2>1. Len(s) \in DOMAIN s /\ k < Len(s)
      BY <1>1, <1>2
    <2> QED  BY <2>1 DEF Increasing
  <1>4. \A k \in DOMAIN s : s[k] <= s[Len(s)]
    <2> TAKE k \in DOMAIN s
    <2>1. s[k] \in Nat /\ s[Len(s)] \in Nat
      BY <1>1, <1>2
    <2> QED  BY <1>3, <2>1
  <1> QED  BY <1>1, <1>2, <1>4

LEMMA AppendedIncreases ==
    ASSUME NEW s \in Seq(Nat \ {0}), NEW n \in Nat \ {0}, Increasing(s),
           s # <<>> => s[Len(s)] < n
    PROVE  Increasing(Append(s, n))
  <1>1. /\ Len(s) \in Nat /\ DOMAIN s = 1 .. Len(s)
        /\ DOMAIN Append(s, n) = 1 .. Len(s) + 1
        /\ \A k \in 1 .. Len(s) : Append(s, n)[k] = s[k] /\ s[k] \in Nat
        /\ Append(s, n)[Len(s) + 1] = n
    OBVIOUS
  <1>2. ASSUME NEW k \in DOMAIN s PROVE s[k] < n
    <2>1. s # <<>> /\ s[k] \in Nat
      BY <1>1
    <2>2. s[k] <= s[Len(s)] /\ s[Len(s)] \in Nat
      BY <2>1, LastIsGreatest
    <2> QED  BY <2>1, <2>2
  <1> SUFFICES ASSUME NEW i \in 1 .. Len(s) + 1, NEW j \in 1 .. Len(s) + 1, i < j
               PROVE  Append(s, n)[i] < Append(s, n)[j]
    BY <1>1 DEF Increasing
  <1>3. i \in DOMAIN s /\ Append(s, n)[i] = s[i]
    BY <1>1
  <1>4. CASE j = Len(s) + 1
    BY <1>1, <1>2, <1>3, <1>4
  <1>5. CASE j # Len(s) + 1
    <2>1. j \in DOMAIN s /\ Append(s, n)[j] = s[j]
      BY <1>1, <1>5
    <2>2. s[i] < s[j]
      BY <1>3, <2>1 DEF Increasing
    <2> QED  BY <1>3, <2>1, <2>2
  <1> QED  BY <1>4, <1>5

LEMMA InJoined ==
    ASSUME NEW s \in Seq(Nat \ {0}), NEW t \in Seq(Nat \ {0})
    PROVE  /\ s \o t \in Seq(Nat \ {0})
           /\ \A id : In(id, s \o t) <=> In(id, s) \/ In(id, t)
  <1>1. /\ s \o t \in Seq(Nat \ {0})
        /\ Len(s) \in Nat /\ DOMAIN s = 1 .. Len(s)
        /\ Len(t) \in Nat /\ DOMAIN t = 1 .. Len(t)
        /\ DOMAIN (s \o t) = 1 .. Len(s) + Len(t)
        /\ \A k \in 1 .. Len(s) : (s \o t)[k] = s[k]
        /\ \A k \in 1 .. Len(t) : (s \o t)[Len(s) + k] = t[k]
    OBVIOUS
  <1>2. \A k \in 1 .. Len(s) + Len(t) :
           k \in 1 .. Len(s) \/ \E m \in 1 .. Len(t) : k = Len(s) + m
    <2> TAKE k \in 1 .. Len(s) + Len(t)
    <2>1. CASE k > Len(s)
      <3>1. k - Len(s) \in 1 .. Len(t) /\ k = Len(s) + (k - Len(s))
        BY <1>1, <2>1
      <3> QED  BY <3>1
    <2> QED  BY <1>1, <2>1
  <1>3. /\ 1 .. Len(s) \subseteq 1 .. Len(s) + Len(t)
        /\ \A m \in 1 .. Len(t) : Len(s) + m \in 1 .. Len(s) + Len(t)
    BY <1>1
  <1>4. ASSUME NEW id, In(id, s \o t) PROVE In(id, s) \/ In(id, t)
    <2>1. PICK k \in 1 .. Len(s) + Len(t) : (s \o t)[k] = id
      BY <1>1, <1>4 DEF In
    <2> QED  BY <1>1, <1>2, <2>1 DEF In
  <1>5. ASSUME NEW id, In(id, s) \/ In(id, t) PROVE In(id, s \o t)
    BY <1>1, <1>3, <1>5 DEF In
  <1> QED  BY <1>1, <1>4, <1>5

\* Two increasing sequences, one below a bound and one above it.
LEMMA JoinedIncreases ==
    ASSUME NEW s \in Seq(Nat \ {0}), NEW t \in Seq(Nat \ {0}), NEW bound \in Nat,
           Increasing(s), Increasing(t),
           \A k \in DOMAIN s : s[k] <= bound,
           \A k \in DOMAIN t : t[k] > bound
    PROVE  Increasing(s \o t)
  <1>1. /\ Len(s) \in Nat /\ DOMAIN s = 1 .. Len(s)
        /\ Len(t) \in Nat /\ DOMAIN t = 1 .. Len(t)
        /\ DOMAIN (s \o t) = 1 .. Len(s) + Len(t)
        /\ \A k \in 1 .. Len(s) : (s \o t)[k] = s[k] /\ s[k] \in Nat
        /\ \A k \in 1 .. Len(s) + Len(t) :
              k > Len(s) => /\ k - Len(s) \in 1 .. Len(t)
                            /\ (s \o t)[k] = t[k - Len(s)]
                            /\ t[k - Len(s)] \in Nat
    OBVIOUS
  <1> SUFFICES ASSUME NEW i \in 1 .. Len(s) + Len(t), NEW j \in 1 .. Len(s) + Len(t), i < j
               PROVE  (s \o t)[i] < (s \o t)[j]
    BY <1>1 DEF Increasing
  <1>2. CASE j <= Len(s)
    <2>1. i \in DOMAIN s /\ j \in DOMAIN s
      BY <1>1, <1>2
    <2>2. s[i] < s[j]
      BY <2>1 DEF Increasing
    <2> QED  BY <1>1, <1>2, <2>2
  <1>3. CASE i <= Len(s) /\ j > Len(s)
    <2>1. i \in DOMAIN s
      BY <1>1, <1>3
    <2>2. s[i] <= bound
      BY <2>1
    <2>3. s[i] \in Nat /\ (s \o t)[i] = s[i]
      BY <1>1, <2>1
    <2>4. j \in 1 .. Len(s) + Len(t) /\ j > Len(s)
      BY <1>3
    <2>5. /\ j - Len(s) \in DOMAIN t /\ t[j - Len(s)] \in Nat
          /\ (s \o t)[j] = t[j - Len(s)]
      BY <1>1, <2>4
    <2>6. t[j - Len(s)] > bound
      BY <2>5
    <2> QED  BY <2>2, <2>3, <2>5, <2>6
  <1>4. CASE i > Len(s)
    <2>1. /\ i - Len(s) \in DOMAIN t /\ j - Len(s) \in DOMAIN t
          /\ i - Len(s) < j - Len(s)
          /\ (s \o t)[i] = t[i - Len(s)] /\ (s \o t)[j] = t[j - Len(s)]
      BY <1>1, <1>4
    <2>2. t[i - Len(s)] < t[j - Len(s)]
      BY <2>1 DEF Increasing
    <2> QED  BY <2>1, <2>2
  <1> QED  BY <1>1, <1>2, <1>3, <1>4

-----------------------------------------------------------------------------
(* Every step of the walk and of the world keeps the invariant.            *)

\* The Query goes on behind the cursor, and behind all that is on the page.
LEMMA PositionBounds ==
    ASSUME WalkInv
    PROVE  /\ From \in Nat /\ Position \in Nat /\ From <= Position
           /\ page = <<>> => Position = From
           /\ page # <<>> => Position = page[Len(page)]
           /\ \A k \in DOMAIN page : page[k] <= Position
           /\ token # Absent => token \in Cursors
  <1> USE DEF WalkInv, WalkTypeOK
  <1>1. token # Absent => token \in Cursors /\ token.last \in Nat
    BY DEF Cursors
  <1>2. From \in Nat
    BY <1>1 DEF From
  <1>3. CASE page = <<>>
    BY <1>1, <1>2, <1>3 DEF Position, From
  <1>4. CASE page # <<>>
    <2>1. Position = page[Len(page)]
      BY <1>4 DEF Position
    <2>2. /\ Len(page) \in DOMAIN page /\ page[Len(page)] \in Nat \ {0}
          /\ \A k \in DOMAIN page : page[k] <= page[Len(page)]
      BY <1>4, LastIsGreatest DEF PagesInOrder
    <2>3. page[Len(page)] > From
      BY <2>2 DEF PagesInOrder
    <2> QED  BY <1>1, <1>2, <1>4, <2>1, <2>2, <2>3
  <1> QED  BY <1>3, <1>4

LEMMA ListInitial == ListInit => WalkInv
  <1> SUFFICES ASSUME ListInit PROVE WalkInv
    OBVIOUS
  <1> USE DEF ListInit
  <1>1. shown = <<>> /\ page = <<>> /\ DOMAIN shown = {} /\ DOMAIN page = {}
    OBVIOUS
  <1>2. WalkTypeOK
    BY <1>1 DEF WalkTypeOK
  <1>3. WalkShape /\ CursorFits
    BY <1>1 DEF WalkShape, CursorFits, Walking
  <1>4. PagesInOrder
    BY <1>1 DEF PagesInOrder, Increasing
  <1>5. NothingSkipped
    BY DEF NothingSkipped, Walking
  <1> QED  BY <1>2, <1>3, <1>4, <1>5 DEF WalkInv

LEMMA MutateKeeps ==
    ASSUME WalkInv, Mutate
    PROVE  WalkInv'
  <1> USE DEF Mutate, walk
  <1>1. /\ version' = version /\ pc' = pc /\ listing' = listing /\ token' = token
        /\ pageVersion' = pageVersion /\ page' = page /\ shown' = shown
    OBVIOUS
  <1>2. Position' = Position /\ From' = From /\ (Walking <=> Walking')
    BY <1>1 DEF Position, From, Walking
  <1>3. WalkTypeOK' /\ WalkShape' /\ CursorFits' /\ PagesInOrder'
    BY <1>1, <1>2
    DEF WalkInv, WalkTypeOK, WalkShape, CursorFits, PagesInOrder
  <1>4. steady' \subseteq steady /\ steady' \subseteq Present(listing)'
    BY DEF StillThere
  <1>5. NothingSkipped'
    BY <1>1, <1>2, <1>4 DEF WalkInv, NothingSkipped
  <1> QED  BY <1>3, <1>5 DEF WalkInv

LEMMA PublishPolicyKeeps ==
    ASSUME WalkInv, PublishPolicy
    PROVE  WalkInv'
  <1> USE DEF PublishPolicy, walk, vars
  <1>1. Position' = Position /\ From' = From /\ (Walking <=> Walking')
    BY DEF Position, From, Walking
  <1>2. Present(listing)' = Present(listing)
    BY DEF Present, CollectionsThere, RecordsOf
  <1>3. WalkTypeOK' /\ WalkShape' /\ CursorFits' /\ PagesInOrder'
    BY <1>1 DEF WalkInv, WalkTypeOK, WalkShape, CursorFits, PagesInOrder
  <1>4. NothingSkipped'
    BY <1>1, <1>2 DEF WalkInv, NothingSkipped
  <1> QED  BY <1>3, <1>4 DEF WalkInv

LEMMA StartKeeps ==
    ASSUME WalkInv, Start
    PROVE  WalkInv'
  <1> USE DEF Start
  <1>1. /\ token' = Absent /\ shown' = <<>> /\ page' = <<>>
        /\ DOMAIN shown' = {} /\ DOMAIN page' = {} /\ pc' = "ask"
    BY DEF WalkInv, WalkShape
  <1>2. WalkTypeOK'
    BY <1>1 DEF WalkInv, WalkTypeOK
  <1>3. WalkShape' /\ CursorFits'
    BY <1>1 DEF WalkShape, CursorFits
  <1>4. From' = 0 /\ Position' = 0
    BY <1>1 DEF From, Position
  <1>5. PagesInOrder'
    BY <1>1 DEF PagesInOrder, Increasing
  <1>6. Present(listing)' = Present(listing') /\ listing' \in Listings
    BY DEF Present, CollectionsThere, RecordsOf, vars
  <1>7. steady' = Present(listing)' /\ steady' \subseteq Nat \ {0}
    BY <1>6, PresentAreIds
  <1>8. NothingSkipped'
    BY <1>1, <1>4, <1>7 DEF NothingSkipped
  <1> QED  BY <1>2, <1>3, <1>5, <1>8 DEF WalkInv

LEMMA AskPageKeeps ==
    ASSUME WalkInv, NEW l \in Listings, AskPage(l)
    PROVE  WalkInv'
  <1> USE DEF AskPage
  <1>1. page = <<>> /\ page' = page /\ shown' = shown /\ token' = token /\ Walking
    BY DEF WalkInv, WalkShape, Walking
  <1>2. From' = From /\ Position' = From /\ From \in Nat
    BY <1>1, PositionBounds DEF From, Position
  <1>3. WalkTypeOK'
    BY DEF WalkInv, WalkTypeOK
  <1>4. WalkShape'
    BY <1>1 DEF WalkInv, WalkShape, Walking
  <1>5. pc' = "query" => Accepts(l, version)
    OBVIOUS
  <1>6. CursorFits'
    BY <1>5 DEF CursorFits, Accepts, Walking
  <1>7. PagesInOrder'
    BY <1>1, <1>2 DEF WalkInv, PagesInOrder
  <1>8. pc' = "query" => listing' = listing
    BY <1>1, <1>5 DEF WalkInv, CursorFits, Accepts
  <1>9. pc' = "query" => Present(listing)' = Present(listing)
    BY <1>8 DEF Present, CollectionsThere, RecordsOf, vars
  <1>10. pc' \in {"query", "refused"}
    OBVIOUS
  <1>11. NothingSkipped'
    BY <1>1, <1>2, <1>9, <1>10 DEF WalkInv, NothingSkipped, Walking
  <1> QED  BY <1>3, <1>4, <1>6, <1>7, <1>11 DEF WalkInv

LEMMA ScanItemKeeps ==
    ASSUME WalkInv, ScanItem
    PROVE  WalkInv'
  <1> USE DEF ScanItem
  <1>1. PICK id \in Following : /\ \A other \in Following : id <= other
                                /\ page' = Append(page, id)
    OBVIOUS
  <1>2. /\ pc = "query" /\ pc' = pc /\ token' = token /\ shown' = shown
        /\ listing' = listing /\ steady' = steady /\ pageVersion' = pageVersion
        /\ version' = version
    OBVIOUS
  <1>3. Present(listing)' = Present(listing) /\ Present(listing) \subseteq Nat \ {0}
    BY <1>2, PresentAreIds DEF Present, CollectionsThere, RecordsOf, vars, WalkInv, WalkTypeOK
  <1>4. id \in Nat \ {0} /\ id > Position
    BY <1>1, <1>3 DEF Following
  <1>5. /\ From' = From /\ From \in Nat /\ Position \in Nat /\ From <= Position
        /\ page \in Seq(Nat \ {0}) /\ (Walking <=> Walking') /\ Walking
    BY <1>2, PositionBounds DEF From, Walking, WalkInv, WalkTypeOK
  <1>6. /\ page' \in Seq(Nat \ {0}) /\ page' # <<>> /\ page'[Len(page')] = id
        /\ \A x : In(x, page') <=> In(x, page) \/ x = id
    BY <1>1, <1>4, <1>5, InAppended
  <1>7. Position' = id
    BY <1>6 DEF Position
  <1>8. WalkTypeOK'
    BY <1>2, <1>6 DEF WalkInv, WalkTypeOK
  <1>9. WalkShape' /\ CursorFits'
    BY <1>2, <1>5 DEF WalkInv, WalkShape, CursorFits
  <1>10. Increasing(page')
    <2>1. page # <<>> => page[Len(page)] < id
      BY <1>4, PositionBounds
    <2> QED  BY <1>1, <1>4, <1>5, <2>1, AppendedIncreases DEF WalkInv, PagesInOrder
  <1>11. ASSUME NEW k \in DOMAIN page' PROVE page'[k] > From
    <2>1. In(page'[k], page)  \/ page'[k] = id
      BY <1>6 DEF In
    <2>2. CASE page'[k] = id
      BY <1>4, <1>5, <2>2
    <2>3. CASE In(page'[k], page)
      BY <2>3 DEF In, WalkInv, PagesInOrder
    <2> QED  BY <2>1, <2>2, <2>3
  <1>12. PagesInOrder'
    BY <1>2, <1>5, <1>10, <1>11 DEF WalkInv, PagesInOrder, Increasing
  <1>13. ASSUME NEW x \in steady, x <= id PROVE In(x, shown) \/ In(x, page')
    <2>1. x \in Present(listing) /\ x \in Nat
      BY <1>3, <1>5 DEF WalkInv, NothingSkipped
    <2>2. CASE x <= Position
      BY <1>5, <1>6, <2>2 DEF WalkInv, NothingSkipped
    <2>3. CASE x > Position
      <3>1. x \in Following
        BY <2>1, <2>3 DEF Following
      <3>2. id <= x
        BY <1>1, <3>1
      <3> QED  BY <1>4, <1>6, <1>13, <2>1, <3>2
    <2> QED  BY <1>5, <2>1, <2>2, <2>3
  <1>14. NothingSkipped'
    BY <1>2, <1>3, <1>5, <1>7, <1>13 DEF WalkInv, NothingSkipped
  <1> QED  BY <1>8, <1>9, <1>12, <1>14 DEF WalkInv
\* What the page adds to what was shown, on the way to the next page or to
\* the end.
LEMMA DeliveredInOrder ==
    ASSUME WalkInv, pc = "query", shown' = shown \o page
    PROVE  /\ shown' \in Seq(Nat \ {0})
           /\ Increasing(shown')
           /\ \A id : In(id, shown') <=> In(id, shown) \/ In(id, page)
           /\ \A k \in DOMAIN shown' : shown'[k] <= Position
  <1>1. /\ shown \in Seq(Nat \ {0}) /\ page \in Seq(Nat \ {0})
        /\ Walking
    BY DEF WalkInv, WalkTypeOK, Walking
  <1>2. /\ shown' \in Seq(Nat \ {0})
        /\ \A id : In(id, shown') <=> In(id, shown) \/ In(id, page)
    BY <1>1, InJoined
  <1>3. /\ From \in Nat /\ Position \in Nat /\ From <= Position
        /\ \A k \in DOMAIN page : page[k] <= Position
    BY PositionBounds
  <1>4. /\ \A k \in DOMAIN shown : shown[k] <= From
        /\ \A k \in DOMAIN page : page[k] > From
        /\ Increasing(shown) /\ Increasing(page)
    BY <1>1 DEF WalkInv, PagesInOrder
  <1>5. Increasing(shown')
    BY <1>1, <1>3, <1>4, JoinedIncreases
  <1>6. ASSUME NEW k \in DOMAIN shown' PROVE shown'[k] <= Position
    <2>1. In(shown'[k], shown) \/ In(shown'[k], page)
      BY <1>2 DEF In
    <2>2. CASE In(shown'[k], page)
      BY <1>3, <2>2 DEF In
    <2>3. CASE In(shown'[k], shown)
      <3>1. PICK m \in DOMAIN shown : shown[m] = shown'[k]
        BY <2>3 DEF In
      <3>2. shown[m] \in Nat /\ shown[m] <= From
        BY <1>1, <1>4
      <3> QED  BY <1>3, <3>1, <3>2
    <2> QED  BY <2>1, <2>2, <2>3
  <1> QED  BY <1>2, <1>5, <1>6

LEMMA FullPageKeeps ==
    ASSUME WalkInv, FullPage
    PROVE  WalkInv'
  <1> USE DEF FullPage, Deliver
  <1>1. /\ pc = "query" /\ page # <<>> /\ token' = CursorAt /\ page' = <<>>
        /\ shown' = shown \o page /\ listing' = listing /\ pageVersion' = pageVersion
        /\ version' = version /\ steady' = steady /\ DOMAIN page' = {}
    OBVIOUS
  <1>2. Position \in Nat /\ From \in Nat /\ From <= Position
    BY PositionBounds
  <1>3. /\ CursorAt \in Cursors /\ CursorAt # Absent /\ CursorAt.last = Position
        /\ CursorAt.listing = listing /\ CursorAt.version = pageVersion
    BY <1>2, NoCursorAssumption DEF CursorAt, Cursors, WalkInv, WalkTypeOK
  <1>4. pc' = "ask"
    BY <1>3
  <1>5. From' = Position /\ Position' = Position /\ Walking /\ Walking'
    BY <1>1, <1>3, <1>4 DEF From, Position, Walking
  <1>6. WalkTypeOK'
    BY <1>1, <1>3, <1>4, DeliveredInOrder DEF WalkInv, WalkTypeOK
  <1>7. WalkShape' /\ CursorFits'
    BY <1>1, <1>3, <1>4 DEF WalkShape, CursorFits
  <1>8. PagesInOrder'
    BY <1>1, <1>5, DeliveredInOrder DEF PagesInOrder, Increasing
  <1>9. Present(listing)' = Present(listing)
    BY <1>1 DEF Present, CollectionsThere, RecordsOf, vars
  <1>10. NothingSkipped'
    BY <1>1, <1>4, <1>5, <1>9, DeliveredInOrder DEF WalkInv, NothingSkipped
  <1> QED  BY <1>6, <1>7, <1>8, <1>10 DEF WalkInv

LEMMA LastPageKeeps ==
    ASSUME WalkInv, LastPage
    PROVE  WalkInv'
  <1> USE DEF LastPage, Deliver, CursorAtEnd
  <1>1. /\ pc = "query" /\ pc' = "complete" /\ token' = Absent /\ page' = <<>>
        /\ shown' = shown \o page /\ listing' = listing /\ pageVersion' = pageVersion
        /\ version' = version /\ steady' = steady /\ DOMAIN page' = {}
        /\ ~Walking' /\ Walking
    BY DEF Walking
  <1>2. WalkTypeOK'
    BY <1>1, DeliveredInOrder DEF WalkInv, WalkTypeOK
  <1>3. WalkShape' /\ CursorFits'
    BY <1>1 DEF WalkShape, CursorFits
  <1>4. PagesInOrder'
    BY <1>1, DeliveredInOrder DEF PagesInOrder, Increasing
  <1>5. ASSUME NEW id \in steady PROVE In(id, shown')
    <2>1. id \in Present(listing) /\ id \in Nat /\ Position \in Nat
      BY <1>1, PresentAreIds, PositionBounds DEF WalkInv, WalkTypeOK, NothingSkipped
    <2>2. ~(id > Position)
      BY <2>1 DEF Following
    <2> QED  BY <1>1, <2>1, <2>2, DeliveredInOrder DEF WalkInv, NothingSkipped
  <1>6. NothingSkipped'
    BY <1>1, <1>5 DEF NothingSkipped
  <1> QED  BY <1>2, <1>3, <1>4, <1>6 DEF WalkInv

LEMMA PageFailsKeeps ==
    ASSUME WalkInv, PageFails
    PROVE  WalkInv'
  <1> USE DEF PageFails
  <1>1. /\ pc = "query" /\ pc' = "ask" /\ token' = token /\ page' = <<>>
        /\ shown' = shown /\ listing' = listing /\ pageVersion' = pageVersion
        /\ version' = version /\ steady' = steady /\ DOMAIN page' = {}
    OBVIOUS
  <1>2. From' = From /\ Position' = From /\ Walking /\ Walking'
    BY <1>1 DEF From, Position, Walking
  <1>3. WalkTypeOK' /\ WalkShape' /\ CursorFits'
    BY <1>1, <1>2 DEF WalkInv, WalkTypeOK, WalkShape, CursorFits
  <1>4. PagesInOrder'
    BY <1>1, <1>2 DEF WalkInv, PagesInOrder, Increasing
  <1>5. Present(listing)' = Present(listing)
    BY <1>1 DEF Present, CollectionsThere, RecordsOf, vars
  <1>6. NothingSkipped'
    BY <1>1, <1>2, <1>5 DEF WalkInv, NothingSkipped
  <1> QED  BY <1>3, <1>4, <1>6 DEF WalkInv

LEMMA FinishKeeps ==
    ASSUME WalkInv, Finish
    PROVE  WalkInv'
  <1> USE DEF Finish
  <1>1. /\ pc' = "idle" /\ token' = Absent /\ shown' = <<>> /\ page' = <<>>
        /\ DOMAIN shown' = {} /\ DOMAIN page' = {} /\ ~Walking'
    BY DEF WalkInv, WalkShape, Walking
  <1>2. WalkTypeOK'
    BY <1>1 DEF WalkInv, WalkTypeOK
  <1>3. WalkShape' /\ CursorFits' /\ NothingSkipped'
    BY <1>1 DEF WalkShape, CursorFits, NothingSkipped
  <1>4. PagesInOrder'
    BY <1>1 DEF PagesInOrder, Increasing
  <1> QED  BY <1>2, <1>3, <1>4 DEF WalkInv

LEMMA WalkStep == WalkInv /\ [ListNext]_allVars => WalkInv'
  <1> SUFFICES ASSUME WalkInv, [ListNext]_allVars PROVE WalkInv'
    OBVIOUS
  <1>1. CASE Start  BY <1>1, StartKeeps
  <1>2. CASE \E l \in Listings : AskPage(l)  BY <1>2, AskPageKeeps
  <1>3. CASE ScanItem  BY <1>3, ScanItemKeeps
  <1>4. CASE FullPage  BY <1>4, FullPageKeeps
  <1>5. CASE LastPage  BY <1>5, LastPageKeeps
  <1>6. CASE PageFails  BY <1>6, PageFailsKeeps
  <1>7. CASE Finish  BY <1>7, FinishKeeps
  <1>8. CASE Mutate  BY <1>8, MutateKeeps
  <1>9. CASE PublishPolicy  BY <1>9, PublishPolicyKeeps
  <1>10. CASE UNCHANGED allVars
    <2> USE <1>10 DEF allVars, walk, vars
    <2>1. Position' = Position /\ From' = From /\ (Walking <=> Walking')
      BY DEF Position, From, Walking
    <2>2. Present(listing)' = Present(listing)
      BY DEF Present, CollectionsThere, RecordsOf
    <2>3. WalkTypeOK' /\ WalkShape' /\ CursorFits' /\ PagesInOrder'
      BY <2>1 DEF WalkInv, WalkTypeOK, WalkShape, CursorFits, PagesInOrder
    <2>4. NothingSkipped'
      BY <2>1, <2>2 DEF WalkInv, NothingSkipped
    <2> QED  BY <2>3, <2>4 DEF WalkInv
  <1> QED
    BY <1>1, <1>2, <1>3, <1>4, <1>5, <1>6, <1>7, <1>8, <1>9, <1>10 DEF ListNext

LEMMA WalkHolds == ListSpec => []WalkInv
  BY ListInitial, WalkStep, PTL DEF ListSpec

-----------------------------------------------------------------------------
(* The theorems.                                                           *)

\* No walk shows an item twice or out of order (_list with the cursors of
\* common/http.py), for any listing and page sizes: each page lies behind its
\* cursor, and a page that failed leaves nothing.
THEOREM PagesAreInOrder == ListSpec => []ShownInOrder
  <1>1. WalkInv => ShownInOrder
    BY DEF WalkInv, PagesInOrder, Increasing, ShownInOrder
  <1> QED  BY <1>1, WalkHolds, PTL

\* A walk that ends has shown everything that stayed there from its beginning
\* to its end, although ConsistentRead is no snapshot: what is neither shown
\* nor on the page lies behind the last item that the Query read.
THEOREM WalksMissNothing == ListSpec => []WalkComplete
  <1>1. WalkInv => WalkComplete
    BY DEF WalkInv, NothingSkipped, In, WalkComplete
  <1> QED  BY <1>1, WalkHolds, PTL

\* A page that continues a walk is of the listing and the policy version of
\* the pages before it (the scope of decode_cursor).
THEOREM WalksKeepTheirListing == ListSpec => OneListingPerWalk
  <1>1. ASSUME WalkInv, [ListNext]_allVars, shown # <<>>, shown' # shown, shown' # <<>>
        PROVE  token # Absent /\ listing = token.listing /\ pageVersion = token.version
    <2>1. CASE FullPage \/ LastPage
      <3>1. pc = "query" /\ Walking
        BY <2>1 DEF FullPage, LastPage, Walking
      <3> QED  BY <1>1, <3>1 DEF WalkInv, WalkShape, CursorFits
    <2>2. CASE ~(FullPage \/ LastPage)
      BY <1>1, <2>2
      DEF ListNext, Start, AskPage, ScanItem, PageFails, Finish, Mutate,
          PublishPolicy, walk, allVars
    <2> QED  BY <2>1, <2>2
  <1>2. WalkInv /\ [ListNext]_allVars =>
           [shown # <<>> /\ shown' # shown /\ shown' # <<>> =>
              token # Absent /\ listing = token.listing
              /\ pageVersion = token.version]_allVars
    BY <1>1
  <1> QED  BY <1>2, WalkHolds, PTL DEF ListSpec, OneListingPerWalk
=============================================================================
