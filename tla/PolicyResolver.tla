--------------------------- MODULE PolicyResolver ---------------------------
(***************************************************************************)
(* PublishedPolicyResolver of common/published_policy.py: a consistent     *)
(* read of the metadata for every request, the cache of a warm container,  *)
(* and one S3 read for each descriptor of a version that it does not hold. *)
(* The publishing service writes the metadata between any two steps; reads *)
(* fail; a container is recycled at any moment and takes its cache along.  *)
(***************************************************************************)
EXTENDS PublishedPolicy

VARIABLES
    metadata,       \* the METADATA item of the domain
    pc,             \* the next step of each container
    asked,          \* the request it serves
    pinned,         \* environment, draft and version taken from the metadata
    loaded,         \* the version whose data-spaces.json it has loaded
    cache,          \* _cache: the ResolvedPolicies it keeps
    answer          \* the policy it answers; none when it is Absent at the end

local == <<pc, asked, pinned, loaded, answer>>
vars == <<metadata, local, cache>>

Steps == {"idle", "metadata", "cache", "spaces", "registry", "done"}

Init ==
    /\ metadata \in MetadataCases
    /\ pc = [c \in Containers |-> "idle"]
    /\ asked = [c \in Containers |-> Absent]
    /\ pinned = [c \in Containers |-> Absent]
    /\ loaded = [c \in Containers |-> Absent]
    /\ answer = [c \in Containers |-> Absent]
    /\ cache = [c \in Containers |-> {}]

At(c, step) == pc[c] = step

Goto(c, step) == pc' = [pc EXCEPT ![c] = step]

\* A container works for a caller.
Busy(c) == pc[c] \notin {"idle", "done"}

Answer(c, result) ==
    /\ Goto(c, "done")
    /\ answer' = [answer EXCEPT ![c] = result]
    /\ loaded' = [loaded EXCEPT ![c] = Absent]
    /\ UNCHANGED <<metadata, asked, pinned>>

Begin(c) ==
    /\ At(c, "idle")
    /\ \E request \in Requests : asked' = [asked EXCEPT ![c] = request]
    /\ Goto(c, "metadata")
    /\ UNCHANGED <<metadata, pinned, loaded, answer, cache>>

\* PolicyResolutionError, and nothing is cached.
Unavailable(c) == Answer(c, Absent) /\ UNCHANGED cache

ReadMetadata(c) ==
    /\ At(c, "metadata")
    /\ \/ Named(metadata, asked[c]) = Absent /\ Unavailable(c)
       \/ /\ Named(metadata, asked[c]) # Absent
          /\ pinned' = [pinned EXCEPT ![c] = Named(metadata, asked[c])]
          /\ Goto(c, "cache")
          /\ UNCHANGED <<metadata, asked, loaded, answer, cache>>

\* Variants of CacheKey with a part left out.
KeyWithoutDraft(policy, auth) == <<policy.environment, policy.version, auth>>
KeyWithoutVersion(policy, auth) == <<policy.environment, policy.draft, auth>>
KeyWithoutAuth(policy, auth) == <<policy.environment, policy.draft, policy.version>>

CacheKey(policy, auth) == <<policy.environment, policy.draft, policy.version, auth>>

Hits(c) ==
    {e \in cache[c] : CacheKey(e.policy, e.auth) = CacheKey(pinned[c], asked[c].auth)}

AnswerFromCache(c) ==
    /\ At(c, "cache")
    /\ \E e \in Hits(c) : Answer(c, e)
    /\ UNCHANGED cache

MissCache(c) ==
    /\ At(c, "cache")
    /\ Hits(c) = {}
    /\ Goto(c, "spaces")
    /\ UNCHANGED <<metadata, asked, pinned, loaded, answer, cache>>

\* The ResolvedPolicies of the descriptors that were loaded, kept and answered.
Resolve(c, spaces, registry) ==
    LET resolved == [policy |-> pinned[c], auth |-> asked[c].auth,
                     spaces |-> spaces, registry |-> registry]
    IN  /\ Answer(c, resolved)
        /\ cache' = [cache EXCEPT ![c] = @ \cup {resolved}]

LoadSpaces(c) ==
    /\ At(c, "spaces")
    /\ \/ ~SoundSpaces(pinned[c]) /\ Unavailable(c)
       \/ /\ SoundSpaces(pinned[c]) /\ ~asked[c].auth
          /\ Resolve(c, pinned[c].version, Absent)
       \/ /\ SoundSpaces(pinned[c]) /\ asked[c].auth
          /\ loaded' = [loaded EXCEPT ![c] = pinned[c].version]
          /\ Goto(c, "registry")
          /\ UNCHANGED <<metadata, asked, pinned, answer, cache>>

LoadRegistry(c) ==
    /\ At(c, "registry")
    /\ \/ ~SoundRegistry(pinned[c]) /\ Unavailable(c)
       \/ SoundRegistry(pinned[c]) /\ Resolve(c, loaded[c], pinned[c].version)

\* The registry table or S3 fails, or an object is missing or truncated.
ReadFails(c) == pc[c] \in {"metadata", "spaces", "registry"} /\ Unavailable(c)

Idle(c) ==
    /\ Goto(c, "idle")
    /\ asked' = [asked EXCEPT ![c] = Absent]
    /\ pinned' = [pinned EXCEPT ![c] = Absent]
    /\ loaded' = [loaded EXCEPT ![c] = Absent]
    /\ answer' = [answer EXCEPT ![c] = Absent]
    /\ UNCHANGED metadata

\* The handler is done with the policy.
Return(c) == At(c, "done") /\ Idle(c) /\ UNCHANGED cache

\* Lambda recycles the container, in a call or between two.
Recycle(c) == Idle(c) /\ cache' = [cache EXCEPT ![c] = {}]

\* The publishing service writes the metadata.
Publish == metadata' \in MetadataCases /\ UNCHANGED <<local, cache>>

Step(c) ==
    \/ ReadMetadata(c) \/ AnswerFromCache(c) \/ MissCache(c)
    \/ LoadSpaces(c) \/ LoadRegistry(c) \/ ReadFails(c) \/ Return(c)

Next ==
    \/ \E c \in Containers : Begin(c) \/ Step(c) \/ Recycle(c)
    \/ Publish

Spec == Init /\ [][Next]_vars

\* A call of the resolver ends: boto3 answers or times out, and the Lambda
\* invocation it belongs to is never suspended for ever.
FairSpec == Spec /\ \A c \in Containers : WF_vars(Step(c))

-----------------------------------------------------------------------------
(* Properties.                                                             *)

\* Every variable has its type, and a container that works knows for what.
TypeOK ==
    /\ metadata \in OrAbsent(MetadataItems)
    /\ pc \in [Containers -> Steps]
    /\ asked \in [Containers -> OrAbsent(Requests)]
    /\ pinned \in [Containers -> OrAbsent(Policies)]
    /\ loaded \in [Containers -> OrAbsent(Versions)]
    /\ answer \in [Containers -> OrAbsent(Resolved)]
    /\ cache \in [Containers -> SUBSET Resolved]

\* What a container keeps are valid descriptors of one version, for the
\* environment and draft they are kept under, although the metadata has named
\* other drafts and versions since.
CacheSound ==
    \A c \in Containers : \A e \in cache[c] :
        LET package == Packages[e.spaces]
        IN  /\ package.spaces # Absent
            /\ package.environment = e.policy.environment
            /\ package.draft = e.policy.draft
            /\ e.spaces = e.policy.version
            /\ e.auth => package.registry # Absent /\ e.registry = e.spaces

\* A handler never works under a policy of another environment or draft than
\* it asked for, and has the auth registry when it asked for it.
AnswersFit ==
    \A c \in Containers :
        answer[c] # Absent =>
            /\ answer[c].policy.environment = asked[c].environment
            /\ asked[c].draft \in {Absent, answer[c].policy.draft}
            /\ asked[c].auth => answer[c].registry = answer[c].policy.version

\* "Read a fresh pointer and cache only descriptors addressed by version": an
\* answer is, whatever the cache holds, the whole policy that the metadata
\* named at one instant of the call.
Service == INSTANCE PolicyService
ImplementsService == Service!Spec

\* Once the metadata stays as it is, no container goes on with a version that
\* it no longer names, however warm its cache.
NewPolicyTakesHold ==
    \A item \in MetadataCases :
        <>[](metadata = item) =>
            <>[](\A c \in Containers :
                    answer[c] # Absent => answer[c].policy = Named(item, asked[c]))
=============================================================================
