------------------------ MODULE PolicyResolverProofs ------------------------
(***************************************************************************)
(* The policy resolver keeps and answers whole, sound policies, and        *)
(* implements PolicyService: for any packages, metadata, requests and      *)
(* number of containers.                                                   *)
(***************************************************************************)
EXTENDS PolicyResolver, TLAPS

-----------------------------------------------------------------------------
(* What the metadata names.                                                *)

\* PublishedPointer is the pointer of an item, or none.
LEMMA PointerType ==
    ASSUME NEW item \in MetadataItems, NEW environment \in Environments
    PROVE  PublishedPointer(item, environment) \in OrAbsent(Pointers)
BY DEF PublishedPointer, MetadataItems, OrAbsent

\* The policy named for a request has the environment that was asked for, and
\* the draft when one was.
LEMMA NamedFits ==
    ASSUME NEW item \in OrAbsent(MetadataItems), NEW request \in Requests,
           Named(item, request) # Absent
    PROVE  /\ Named(item, request) \in Policies
           /\ Named(item, request).environment = request.environment
           /\ request.draft \in {Absent, Named(item, request).draft}
<1> DEFINE pointer == PublishedPointer(item, request.environment)
           policy == [environment |-> request.environment, draft |-> item.scope,
                      version |-> pointer.version]
<1>1. /\ item # Absent /\ ScopeFits(item, request) /\ pointer # Absent
      /\ Named(item, request) = policy
  BY DEF Named
<1>2. item \in MetadataItems
  BY <1>1 DEF OrAbsent
<1>3. request.environment \in Environments
  BY PolicyAssumption DEF RequestsAssumption
<1>4. pointer \in Pointers
  BY <1>1, <1>2, <1>3, PointerType DEF OrAbsent
<1>5. item.scope \in Drafts /\ request.draft \in {Absent, item.scope}
  BY <1>1, <1>2 DEF ScopeFits, MetadataItems, OrAbsent
<1>6. policy \in Policies
  BY <1>3, <1>4, <1>5 DEF Policies, Pointers
<1>7. policy.environment = request.environment /\ policy.draft = item.scope
  OBVIOUS
<1> QED
  BY <1>1, <1>5, <1>6, <1>7

\* A whole policy is a ResolvedPolicies.
LEMMA WholeType ==
    ASSUME NEW policy \in Policies, NEW auth \in BOOLEAN
    PROVE  Whole(policy, auth) \in Resolved
BY DEF Whole, Resolved, Policies, OrAbsent

-----------------------------------------------------------------------------
(* The inductive invariant.                                                *)

\* The policy that a container works with is one its caller may have.
Pinned(c) ==
    /\ pinned[c] \in Policies
    /\ pinned[c].environment = asked[c].environment
    /\ asked[c].draft \in {Absent, pinned[c].draft}

\* The steps of a call come in their order.
InOrder(c) ==
    /\ pc[c] = "idle" => /\ asked[c] = Absent /\ pinned[c] = Absent
                         /\ loaded[c] = Absent /\ answer[c] = Absent
    /\ pc[c] # "idle" => asked[c] \in Requests
    /\ pc[c] = "metadata" => pinned[c] = Absent
    /\ pc[c] \in {"cache", "spaces", "registry"} => Pinned(c)
    /\ pc[c] = "registry" => /\ asked[c].auth
                             /\ SoundSpaces(pinned[c])
                             /\ loaded[c] = pinned[c].version
    /\ pc[c] # "done" => answer[c] = Absent

\* An entry of the cache is the whole, sound policy it is kept under.
EntrySound(e) == Sound(e.policy, e.auth) /\ e = Whole(e.policy, e.auth)

\* An answer is the whole policy that was pinned.
AnswerWhole(c) ==
    answer[c] # Absent => /\ Pinned(c)
                          /\ Sound(pinned[c], asked[c].auth)
                          /\ answer[c] = Whole(pinned[c], asked[c].auth)

CacheWhole == \A c \in Containers : \A e \in cache[c] : EntrySound(e)

IInv ==
    /\ TypeOK
    /\ CacheWhole
    /\ \A c \in Containers : InOrder(c) /\ AnswerWhole(c)

\* The variables of a container that does not move are as they were.
Still(c) ==
    /\ pc'[c] = pc[c] /\ asked'[c] = asked[c] /\ pinned'[c] = pinned[c]
    /\ loaded'[c] = loaded[c] /\ answer'[c] = answer[c] /\ cache'[c] = cache[c]

LEMMA StillKeeps ==
    ASSUME NEW c \in Containers, InOrder(c), AnswerWhole(c), Still(c)
    PROVE  (InOrder(c) /\ AnswerWhole(c))'
BY DEF Still, InOrder, AnswerWhole, Pinned, Whole

LEMMA InitInv == Init => IInv
BY PolicyAssumption DEF Init, IInv, TypeOK, CacheWhole, InOrder, AnswerWhole, OrAbsent, Steps

-----------------------------------------------------------------------------
(* Every step keeps the invariant.                                         *)

LEMMA Moved ==
    ASSUME IInv, NEW c \in Containers,
           TypeOK', CacheWhole', (InOrder(c) /\ AnswerWhole(c))',
           \A d \in Containers \ {c} : Still(d)
    PROVE  IInv'
<1> SUFFICES ASSUME NEW d \in Containers
             PROVE  (InOrder(d) /\ AnswerWhole(d))'
  BY DEF IInv
<1>1. CASE d = c
  BY <1>1
<1>2. CASE d # c
  <2>1. InOrder(d) /\ AnswerWhole(d) /\ Still(d)
    BY <1>2 DEF IInv
  <2> QED
    BY <2>1, StillKeeps
<1> QED
  BY <1>1, <1>2

LEMMA BeginInv ==
    ASSUME IInv, NEW c \in Containers, Begin(c)
    PROVE  IInv'
<1> USE DEF Begin, At, Goto
<1>1. TypeOK'
  BY DEF IInv, TypeOK, Steps, OrAbsent
<1>2. CacheWhole'
  BY DEF IInv, CacheWhole
<1>3. (InOrder(c) /\ AnswerWhole(c))'
  BY DEF IInv, TypeOK, InOrder, AnswerWhole, Pinned
<1>4. \A d \in Containers \ {c} : Still(d)
  BY DEF IInv, TypeOK, Still
<1> QED
  BY <1>1, <1>2, <1>3, <1>4, Moved

\* A call that ends without a policy.
LEMMA UnavailableInv ==
    ASSUME IInv, NEW c \in Containers, Unavailable(c), pc[c] \notin {"idle", "done"}
    PROVE  IInv'
<1> USE DEF Unavailable, Answer, Goto
<1>1. TypeOK'
  BY DEF IInv, TypeOK, Steps, OrAbsent
<1>2. CacheWhole'
  BY DEF IInv, CacheWhole
<1>3. (InOrder(c) /\ AnswerWhole(c))'
  BY DEF IInv, TypeOK, InOrder, AnswerWhole, Pinned
<1>4. \A d \in Containers \ {c} : Still(d)
  BY DEF IInv, TypeOK, Still
<1> QED
  BY <1>1, <1>2, <1>3, <1>4, Moved

LEMMA ReadMetadataInv ==
    ASSUME IInv, NEW c \in Containers, ReadMetadata(c)
    PROVE  IInv'
<1>1. CASE Unavailable(c)
  BY <1>1, UnavailableInv DEF ReadMetadata, At
<1>2. CASE /\ Named(metadata, asked[c]) # Absent
           /\ pinned' = [pinned EXCEPT ![c] = Named(metadata, asked[c])]
           /\ Goto(c, "cache")
           /\ UNCHANGED <<metadata, asked, loaded, answer, cache>>
  <2> USE <1>2 DEF Goto
  <2>1. pc[c] = "metadata" /\ asked[c] \in Requests /\ metadata \in OrAbsent(MetadataItems)
    BY DEF ReadMetadata, At, IInv, InOrder, TypeOK
  <2>2. /\ Named(metadata, asked[c]) \in Policies
        /\ Named(metadata, asked[c]).environment = asked[c].environment
        /\ asked[c].draft \in {Absent, Named(metadata, asked[c]).draft}
    BY <2>1, NamedFits
  <2>3. TypeOK'
    BY <2>2 DEF IInv, TypeOK, Steps, OrAbsent
  <2>4. CacheWhole'
    BY DEF IInv, CacheWhole
  <2>5. (InOrder(c) /\ AnswerWhole(c))'
    BY <2>1, <2>2 DEF IInv, TypeOK, InOrder, AnswerWhole, Pinned
  <2>6. \A d \in Containers \ {c} : Still(d)
    BY DEF IInv, TypeOK, Still
  <2> QED
    BY <2>3, <2>4, <2>5, <2>6, Moved
<1> QED
  BY <1>1, <1>2 DEF ReadMetadata

\* An entry under the key of the request is the policy it asks for.
LEMMA HitFits ==
    ASSUME IInv, NEW c \in Containers, At(c, "cache"), NEW e \in Hits(c)
    PROVE  /\ e \in Resolved
           /\ e = Whole(pinned[c], asked[c].auth)
           /\ Sound(pinned[c], asked[c].auth)
<1>1. e \in Resolved /\ EntrySound(e)
  BY DEF IInv, TypeOK, CacheWhole, Hits
<1>2. e.policy \in Policies /\ pinned[c] \in Policies
  BY <1>1 DEF Resolved, IInv, InOrder, At, Pinned
<1>3. e.policy = pinned[c] /\ e.auth = asked[c].auth
  BY <1>2 DEF Hits, CacheKey, Policies
<1> QED
  BY <1>1, <1>3 DEF EntrySound

LEMMA AnswerFromCacheInv ==
    ASSUME IInv, NEW c \in Containers, AnswerFromCache(c)
    PROVE  IInv'
<1> USE DEF Answer, Goto
<1>1. PICK e \in Hits(c) : Answer(c, e) /\ UNCHANGED cache
  BY DEF AnswerFromCache
<1>2. /\ e \in Resolved
      /\ e = Whole(pinned[c], asked[c].auth)
      /\ Sound(pinned[c], asked[c].auth)
  BY HitFits DEF AnswerFromCache
<1>3. TypeOK'
  BY <1>1, <1>2 DEF IInv, TypeOK, Steps, OrAbsent
<1>4. CacheWhole'
  BY <1>1 DEF IInv, CacheWhole
<1>5. (InOrder(c) /\ AnswerWhole(c))'
  BY <1>1, <1>2 DEF IInv, TypeOK, InOrder, AnswerWhole, Pinned, AnswerFromCache, At,
                    Sound, SoundSpaces, SoundRegistry, Whole
<1>6. \A d \in Containers \ {c} : Still(d)
  BY <1>1 DEF IInv, TypeOK, Still
<1> QED
  BY <1>3, <1>4, <1>5, <1>6, Moved

LEMMA MissCacheInv ==
    ASSUME IInv, NEW c \in Containers, MissCache(c)
    PROVE  IInv'
<1> USE DEF MissCache, At, Goto
<1>1. TypeOK'
  BY DEF IInv, TypeOK, Steps
<1>2. CacheWhole'
  BY DEF IInv, CacheWhole
<1>3. (InOrder(c) /\ AnswerWhole(c))'
  BY DEF IInv, TypeOK, InOrder, AnswerWhole, Pinned
<1>4. \A d \in Containers \ {c} : Still(d)
  BY DEF IInv, TypeOK, Still
<1> QED
  BY <1>1, <1>2, <1>3, <1>4, Moved

\* Descriptors that are whole and sound are cached and answered.
LEMMA ResolveInv ==
    ASSUME IInv, NEW c \in Containers, pc[c] \in {"spaces", "registry"},
           Sound(pinned[c], asked[c].auth),
           NEW spaces, NEW registry, Resolve(c, spaces, registry),
           spaces = pinned[c].version,
           registry = IF asked[c].auth THEN pinned[c].version ELSE Absent
    PROVE  IInv'
<1> DEFINE resolved == [policy |-> pinned[c], auth |-> asked[c].auth,
                        spaces |-> spaces, registry |-> registry]
<1>1. /\ asked[c] \in Requests /\ Pinned(c)
      /\ asked[c].auth \in BOOLEAN
  BY PolicyAssumption DEF IInv, InOrder, RequestsAssumption
<1>2. resolved = Whole(pinned[c], asked[c].auth) /\ resolved \in Resolved
  BY <1>1, WholeType DEF Whole, Pinned
<1>3. /\ Answer(c, resolved)
      /\ cache' = [cache EXCEPT ![c] = @ \cup {resolved}]
  BY DEF Resolve
<1> HIDE DEF resolved
<1> USE DEF Answer, Goto
<1>4. TypeOK'
  BY <1>2, <1>3 DEF IInv, TypeOK, Steps, OrAbsent
<1>5. EntrySound(resolved)
  BY <1>1, <1>2 DEF EntrySound, Whole
<1>6. CacheWhole'
  <2>1. \A d \in Containers : cache'[d] \subseteq cache[d] \cup {resolved}
    BY <1>3 DEF IInv, TypeOK
  <2>2. \A d \in Containers : \A e \in cache'[d] : EntrySound(e)
    BY <1>5, <2>1 DEF IInv, CacheWhole
  <2> QED
    BY <2>2 DEF CacheWhole, EntrySound, Sound, SoundSpaces, SoundRegistry, Whole
<1>7. (InOrder(c) /\ AnswerWhole(c))'
  BY <1>1, <1>2, <1>3 DEF IInv, TypeOK, InOrder, AnswerWhole, Pinned,
                          Sound, SoundSpaces, SoundRegistry, Whole
<1>8. \A d \in Containers \ {c} : Still(d)
  BY <1>3 DEF IInv, TypeOK, Still
<1> QED
  BY <1>4, <1>6, <1>7, <1>8, Moved

LEMMA LoadSpacesInv ==
    ASSUME IInv, NEW c \in Containers, LoadSpaces(c)
    PROVE  IInv'
<1>1. CASE Unavailable(c)
  BY <1>1, UnavailableInv DEF LoadSpaces, At
<1>2. CASE /\ SoundSpaces(pinned[c]) /\ ~asked[c].auth
           /\ Resolve(c, pinned[c].version, Absent)
  BY <1>2, ResolveInv DEF LoadSpaces, At, Sound
<1>3. CASE /\ SoundSpaces(pinned[c]) /\ asked[c].auth
           /\ loaded' = [loaded EXCEPT ![c] = pinned[c].version]
           /\ Goto(c, "registry")
           /\ UNCHANGED <<metadata, asked, pinned, answer, cache>>
  <2> USE <1>3 DEF LoadSpaces, At, Goto
  <2>1. Pinned(c) /\ pinned[c].version \in Versions
    BY DEF IInv, InOrder, Pinned, Policies
  <2>2. TypeOK'
    BY <2>1 DEF IInv, TypeOK, Steps, OrAbsent
  <2>3. CacheWhole'
    BY DEF IInv, CacheWhole
  <2>4. (InOrder(c) /\ AnswerWhole(c))'
    BY <2>1 DEF IInv, TypeOK, InOrder, AnswerWhole, Pinned, SoundSpaces
  <2>5. \A d \in Containers \ {c} : Still(d)
    BY DEF IInv, TypeOK, Still
  <2> QED
    BY <2>2, <2>3, <2>4, <2>5, Moved
<1> QED
  BY <1>1, <1>2, <1>3 DEF LoadSpaces

LEMMA LoadRegistryInv ==
    ASSUME IInv, NEW c \in Containers, LoadRegistry(c)
    PROVE  IInv'
<1>1. CASE Unavailable(c)
  BY <1>1, UnavailableInv DEF LoadRegistry, At
<1>2. CASE SoundRegistry(pinned[c]) /\ Resolve(c, loaded[c], pinned[c].version)
  <2>1. /\ pc[c] = "registry" /\ asked[c].auth
        /\ SoundSpaces(pinned[c]) /\ loaded[c] = pinned[c].version
    BY DEF LoadRegistry, At, IInv, InOrder
  <2> QED
    BY <1>2, <2>1, ResolveInv DEF Sound
<1> QED
  BY <1>1, <1>2 DEF LoadRegistry

LEMMA IdleInv ==
    ASSUME IInv, NEW c \in Containers, Idle(c),
           cache' = cache \/ cache' = [cache EXCEPT ![c] = {}]
    PROVE  IInv'
<1> USE DEF Idle, Goto
<1>1. TypeOK'
  BY DEF IInv, TypeOK, Steps, OrAbsent
<1>2. CacheWhole'
  <2>1. \A d \in Containers : cache'[d] \subseteq cache[d]
    BY DEF IInv, TypeOK
  <2> QED
    BY <2>1 DEF IInv, CacheWhole, EntrySound, Sound, SoundSpaces, SoundRegistry, Whole
<1>3. (InOrder(c) /\ AnswerWhole(c))'
  BY DEF IInv, TypeOK, InOrder, AnswerWhole
<1>4. \A d \in Containers \ {c} : Still(d)
  BY DEF IInv, TypeOK, Still
<1> QED
  BY <1>1, <1>2, <1>3, <1>4, Moved

LEMMA StepInv ==
    ASSUME IInv, NEW c \in Containers, Step(c)
    PROVE  IInv'
<1>1. CASE ReadMetadata(c)
  BY <1>1, ReadMetadataInv
<1>2. CASE AnswerFromCache(c)
  BY <1>2, AnswerFromCacheInv
<1>3. CASE MissCache(c)
  BY <1>3, MissCacheInv
<1>4. CASE LoadSpaces(c)
  BY <1>4, LoadSpacesInv
<1>5. CASE LoadRegistry(c)
  BY <1>5, LoadRegistryInv
<1>6. CASE ReadFails(c)
  BY <1>6, UnavailableInv DEF ReadFails
<1>7. CASE Return(c)
  BY <1>7, IdleInv DEF Return
<1> QED
  BY <1>1, <1>2, <1>3, <1>4, <1>5, <1>6, <1>7 DEF Step

\* What is promised does not depend on the metadata of today.
LEMMA PublishInv == IInv /\ Publish => IInv'
BY PolicyAssumption DEF IInv, Publish, local, TypeOK, CacheWhole, InOrder, AnswerWhole,
   Pinned, EntrySound, Sound, SoundSpaces, SoundRegistry, Whole, OrAbsent

LEMMA NextInv == IInv /\ [Next]_vars => IInv'
<1> SUFFICES ASSUME IInv, [Next]_vars PROVE IInv'
  OBVIOUS
<1>1. CASE UNCHANGED vars
  BY <1>1 DEF vars, local, IInv, TypeOK, CacheWhole, InOrder, AnswerWhole,
     Pinned, EntrySound, Sound, SoundSpaces, SoundRegistry, Whole
<1>2. ASSUME NEW c \in Containers, Begin(c) PROVE IInv'
  BY <1>2, BeginInv
<1>3. ASSUME NEW c \in Containers, Step(c) PROVE IInv'
  BY <1>3, StepInv
<1>4. ASSUME NEW c \in Containers, Recycle(c) PROVE IInv'
  BY <1>4, IdleInv DEF Recycle
<1>5. CASE Publish
  BY <1>5, PublishInv
<1> QED
  BY <1>1, <1>2, <1>3, <1>4, <1>5 DEF Next

THEOREM InvariantHolds == Spec => []IInv
BY InitInv, NextInv, PTL DEF Spec

-----------------------------------------------------------------------------
(* The invariants of the runs.                                             *)

\* TypeOK: every variable of the resolver keeps its type.
THEOREM ResolverTypeCorrect == Spec => []TypeOK
<1>1. IInv => TypeOK
  BY DEF IInv
<1> QED
  BY <1>1, InvariantHolds, PTL

\* CacheSound: a cache that has seen any sequence of publications, failures
\* and requests holds valid descriptors of the scope they are kept under.
THEOREM CacheIsSound == Spec => []CacheSound
<1>1. IInv => CacheSound
  BY DEF IInv, CacheSound, CacheWhole, EntrySound, Sound, SoundSpaces, SoundRegistry, Whole
<1> QED
  BY <1>1, InvariantHolds, PTL

\* AnswersFit: a handler gets the policy of the environment and draft that it
\* asked for, with the auth registry when it asked for it, from the cache too.
THEOREM AnswersAreFit == Spec => []AnswersFit
<1>1. IInv => AnswersFit
  <2> SUFFICES ASSUME IInv, NEW c \in Containers, answer[c] # Absent
               PROVE  /\ answer[c].policy.environment = asked[c].environment
                      /\ asked[c].draft \in {Absent, answer[c].policy.draft}
                      /\ asked[c].auth => answer[c].registry = answer[c].policy.version
    BY DEF AnswersFit
  <2>1. Pinned(c) /\ answer[c] = Whole(pinned[c], asked[c].auth)
    BY DEF IInv, AnswerWhole
  <2>2. /\ answer[c].policy = pinned[c]
        /\ answer[c].registry = IF asked[c].auth THEN pinned[c].version ELSE Absent
    BY <2>1 DEF Whole
  <2>3. asked[c].auth => answer[c].registry = pinned[c].version
    BY <2>2, Zenon
  <2> QED
    BY <2>1, <2>2, <2>3 DEF Pinned
<1> QED
  BY <1>1, InvariantHolds, PTL

-----------------------------------------------------------------------------
(* The refinement of PolicyService.                                        *)

LEMMA SameNamed ==
    ASSUME NEW item, NEW request
    PROVE  Service!Named(item, request) = Named(item, request)
BY DEF Service!Named, Named, Service!PublishedPointer, PublishedPointer,
       Service!ScopeFits, ScopeFits

LEMMA SamePolicies ==
    ASSUME NEW policy, NEW auth
    PROVE  /\ Service!Sound(policy, auth) = Sound(policy, auth)
           /\ Service!Whole(policy, auth) = Whole(policy, auth)
BY DEF Service!Sound, Sound, Service!SoundSpaces, SoundSpaces,
       Service!SoundRegistry, SoundRegistry, Service!Whole, Whole

LEMMA RefinesInit == Init => Service!Init
BY DEF Init, Service!Init

\* A call that got nothing is not visible.
LEMMA UnavailableStutters ==
    ASSUME IInv, NEW c \in Containers, Unavailable(c), pc[c] \notin {"idle", "done"}
    PROVE  UNCHANGED Service!vars
<1>1. answer[c] = Absent
  BY DEF IInv, InOrder
<1>2. answer' = answer
  BY <1>1 DEF Unavailable, Answer, IInv, TypeOK
<1> QED
  BY <1>2 DEF Unavailable, Answer, Service!vars

\* A whole, sound policy that was pinned is delivered.
LEMMA AnswerDelivers ==
    ASSUME IInv, NEW c \in Containers, pc[c] \in {"cache", "spaces", "registry"},
           Sound(pinned[c], asked[c].auth),
           Answer(c, Whole(pinned[c], asked[c].auth))
    PROVE  Service!Deliver(c)
<1>1. /\ asked[c] # Absent /\ answer[c] = Absent /\ pinned[c] # Absent
  BY PolicyAssumption, AbsentIsNoPolicy DEF IInv, InOrder, Pinned
<1> QED
  BY <1>1, SamePolicies DEF Answer, Service!Deliver, Service!Waits

LEMMA ReadMetadataRefines ==
    ASSUME IInv, NEW c \in Containers, ReadMetadata(c)
    PROVE  Service!Pin(c) \/ UNCHANGED Service!vars
<1>1. CASE Unavailable(c)
  BY <1>1, UnavailableStutters DEF ReadMetadata, At
<1>2. CASE /\ Named(metadata, asked[c]) # Absent
           /\ pinned' = [pinned EXCEPT ![c] = Named(metadata, asked[c])]
           /\ UNCHANGED <<metadata, asked, loaded, answer, cache>>
  <2>1. asked[c] # Absent /\ answer[c] = Absent /\ pinned[c] = Absent
    BY PolicyAssumption DEF ReadMetadata, At, IInv, InOrder
  <2> QED
    BY <1>2, <2>1, SameNamed DEF Service!Pin, Service!Waits
<1> QED
  BY <1>1, <1>2 DEF ReadMetadata

LEMMA ResolveRefines ==
    ASSUME IInv, NEW c \in Containers, pc[c] \in {"spaces", "registry"},
           Sound(pinned[c], asked[c].auth),
           NEW spaces, NEW registry, Resolve(c, spaces, registry),
           spaces = pinned[c].version,
           registry = IF asked[c].auth THEN pinned[c].version ELSE Absent
    PROVE  Service!Deliver(c)
BY AnswerDelivers DEF Resolve, Whole

LEMMA LoadRefines ==
    ASSUME IInv, NEW c \in Containers, LoadSpaces(c) \/ LoadRegistry(c)
    PROVE  Service!Deliver(c) \/ UNCHANGED Service!vars
<1>1. CASE Unavailable(c)
  BY <1>1, UnavailableStutters DEF LoadSpaces, LoadRegistry, At
<1>2. CASE /\ pc[c] = "spaces" /\ SoundSpaces(pinned[c]) /\ ~asked[c].auth
           /\ Resolve(c, pinned[c].version, Absent)
  BY <1>2, ResolveRefines DEF Sound
<1>3. CASE UNCHANGED <<metadata, asked, pinned, answer, cache>>
  BY <1>3 DEF Service!vars
<1>4. CASE /\ pc[c] = "registry" /\ SoundRegistry(pinned[c])
           /\ Resolve(c, loaded[c], pinned[c].version)
  <2>1. /\ asked[c].auth /\ SoundSpaces(pinned[c]) /\ loaded[c] = pinned[c].version
    BY <1>4 DEF IInv, InOrder
  <2> QED
    BY <1>4, <2>1, ResolveRefines DEF Sound
<1> QED
  BY <1>1, <1>2, <1>3, <1>4 DEF LoadSpaces, LoadRegistry, At

\* The handler leaves, or a container that is recycled was idle.
LEMMA IdleRefines ==
    ASSUME IInv, NEW c \in Containers, Idle(c)
    PROVE  Service!Leave(c) \/ UNCHANGED Service!vars
<1>1. CASE asked[c] # Absent
  BY <1>1 DEF Idle, Service!Leave
<1>2. CASE asked[c] = Absent
  <2>1. pc[c] = "idle"
    BY <1>2, PolicyAssumption DEF IInv, InOrder
  <2>2. pinned[c] = Absent /\ answer[c] = Absent
    BY <2>1 DEF IInv, InOrder
  <2> QED
    BY <1>2, <2>2 DEF Idle, IInv, TypeOK, Service!vars
<1> QED
  BY <1>1, <1>2

LEMMA StepRefines ==
    ASSUME IInv, NEW c \in Containers, Begin(c) \/ Step(c) \/ Recycle(c)
    PROVE  Service!Serve(c) \/ UNCHANGED Service!vars
<1>1. CASE Begin(c)
  <2>1. asked[c] = Absent
    BY <1>1 DEF Begin, At, IInv, InOrder
  <2> QED
    BY <1>1, <2>1 DEF Begin, Service!Ask, Service!Serve
<1>2. CASE ReadMetadata(c)
  BY <1>2, ReadMetadataRefines DEF Service!Serve
<1>3. CASE AnswerFromCache(c)
  <2>1. PICK e \in Hits(c) : Answer(c, e)
    BY <1>3 DEF AnswerFromCache
  <2>2. pc[c] = "cache" /\ e = Whole(pinned[c], asked[c].auth) /\ Sound(pinned[c], asked[c].auth)
    BY <1>3, HitFits DEF AnswerFromCache, At
  <2> QED
    BY <2>1, <2>2, AnswerDelivers DEF Service!Serve
<1>4. CASE MissCache(c)
  BY <1>4 DEF MissCache, Service!vars
<1>5. CASE LoadSpaces(c) \/ LoadRegistry(c)
  BY <1>5, LoadRefines DEF Service!Serve
<1>6. CASE ReadFails(c)
  BY <1>6, UnavailableStutters DEF ReadFails
<1>7. CASE Return(c) \/ Recycle(c)
  BY <1>7, IdleRefines DEF Return, Recycle, Service!Serve
<1> QED
  BY <1>1, <1>2, <1>3, <1>4, <1>5, <1>6, <1>7 DEF Step

LEMMA RefinesNext == IInv /\ [Next]_vars => [Service!Next]_(Service!vars)
<1> SUFFICES ASSUME IInv, [Next]_vars
             PROVE  Service!Next \/ UNCHANGED Service!vars
  OBVIOUS
<1>1. CASE UNCHANGED vars
  BY <1>1 DEF vars, local, Service!vars
<1>2. ASSUME NEW c \in Containers, Begin(c) \/ Step(c) \/ Recycle(c)
      PROVE  Service!Next \/ UNCHANGED Service!vars
  BY <1>2, StepRefines DEF Service!Next
<1>3. CASE Publish
  BY <1>3 DEF Publish, local, Service!Publish, Service!Next
<1> QED
  BY <1>1, <1>2, <1>3 DEF Next

\* ImplementsService: each answer is, whatever the cache holds, the whole policy
\* that the metadata named at one instant of the call.
THEOREM ResolverImplements == Spec => ImplementsService
BY InvariantHolds, RefinesInit, RefinesNext, PTL DEF Spec, ImplementsService, Service!Spec
=============================================================================
