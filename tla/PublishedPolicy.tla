-------------------------- MODULE PublishedPolicy --------------------------
(***************************************************************************)
(* The vocabulary of common/published_policy.py for one domain: the        *)
(* METADATA item of the config registry, which names the version that is   *)
(* published, and the package of server-only descriptors of each version.  *)
(* A package never changes; only the metadata does.                        *)
(***************************************************************************)
EXTENDS Naturals, FiniteSets

CONSTANTS
    Containers,     \* warm Lambda containers, each with a resolver of its own
    Drafts,         \* server scopes: a tenant and a draft
    Versions,       \* version ids
    Packages,       \* the package of each version
    MetadataCases,  \* the items that the publishing service may write
    Requests,       \* what the handlers ask the resolver for
    Absent          \* an item, a descriptor or an answer that is not there

Environments == {"test", "production"}

OrAbsent(S) == S \cup {Absent}

\* prefix is the version whose directory it names.
Pointers == [version : Versions, prefix : Versions]

\* scope is Absent when serverScope is not a tenant and a draft.
MetadataItems ==
    [scope : OrAbsent(Drafts), published : OrAbsent(Pointers),
     environments : [Environments -> OrAbsent(Pointers)]]

\* include_auth tells resolve from resolve_data_spaces; draft is the scope
\* that the caller expects, when it names one.
RequestsAssumption ==
    Requests \subseteq [environment : Environments, auth : BOOLEAN, draft : OrAbsent(Drafts)]

\* A descriptor that is not valid JSON of the closed shape is Absent; the
\* scope is the one written in data-spaces.json.
PackagesAssumption ==
    \A v \in Versions :
        /\ Packages[v].environment \in Environments
        /\ Packages[v].draft \in Drafts
        /\ {"spaces", "registry"} \subseteq DOMAIN Packages[v]

ASSUME PolicyAssumption ==
    /\ RequestsAssumption
    /\ PackagesAssumption
    /\ MetadataCases \subseteq OrAbsent(MetadataItems)
    /\ Absent \notin MetadataItems \cup Pointers \cup Drafts \cup Requests

\* The pointer of the environment; production has an older place for it.
PublishedPointer(item, environment) ==
    IF environment = "production" /\ item.published # Absent
    THEN item.published
    ELSE item.environments[environment]

\* A variant of ScopeFits: a scope that is not there passes.
AnyScope(item, request) == request.draft \in {Absent, item.scope}

\* The scope is whole and, when the caller names one, the caller's.
ScopeFits(item, request) == item.scope # Absent /\ request.draft \in {Absent, item.scope}

\* What a policy is known by: the key of its cache entry, but for the flag.
Policies == [environment : Environments, draft : Drafts, version : Versions]

\* Absent is told apart from every policy.
ASSUME AbsentIsNoPolicy == Absent \notin Policies

\* The policy that the metadata names for a request, if it names one.
Named(item, request) ==
    LET pointer == PublishedPointer(item, request.environment)
    IN  IF /\ item # Absent
           /\ ScopeFits(item, request)
           /\ pointer # Absent
           /\ pointer.prefix = pointer.version
        THEN [environment |-> request.environment, draft |-> item.scope,
              version |-> pointer.version]
        ELSE Absent

\* A variant of SoundSpaces: the scope in the descriptor is not compared.
WellFormedSpaces(policy) == Packages[policy.version].spaces # Absent

\* _validate_data_spaces: the closed shape, and the scope that was asked for.
SoundSpaces(policy) ==
    LET package == Packages[policy.version]
    IN  /\ package.spaces # Absent
        /\ package.environment = policy.environment
        /\ package.draft = policy.draft

SoundRegistry(policy) == Packages[policy.version].registry # Absent

Sound(policy, auth) == SoundSpaces(policy) /\ (auth => SoundRegistry(policy))

\* ResolvedPolicies: whose descriptors it holds.
Resolved ==
    [policy : Policies, auth : BOOLEAN, spaces : Versions, registry : OrAbsent(Versions)]

\* The descriptors of the version that the policy names, and no others.
Whole(policy, auth) ==
    [policy |-> policy, auth |-> auth, spaces |-> policy.version,
     registry |-> IF auth THEN policy.version ELSE Absent]
=============================================================================
