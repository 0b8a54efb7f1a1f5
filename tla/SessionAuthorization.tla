------------------------ MODULE SessionAuthorization ------------------------
(***************************************************************************)
(* What the protected handlers do before they call the store: resolve the  *)
(* policy (as PolicyService promises it), then authorize_request of        *)
(* common/auth_admin.py over one session and its user.  The policy, the    *)
(* session and the user are three reads at three instants, the last two    *)
(* without ConsistentRead; publications, revocations and edits of the user *)
(* fall between any two of them, and the clock runs.                       *)
(***************************************************************************)
EXTENDS PolicyService, Integers

CONSTANTS
    Calls,          \* what clients send: capability, profile, cookies, header
    Tenant,         \* the tenant of each draft
    SessionCases,   \* the session item that Auth Admin created
    UserCases,      \* the user items that Auth Admin may write
    Timeout,        \* the longest an invocation runs (template.yaml, Timeout)
    MaxLag,         \* the longest an eventually consistent read lags behind
    MaxWrites,      \* bound on the writes of other services in that time
    MaxClock        \* bound on the clock

ASSUME AuthTimes == {Timeout, MaxLag, MaxWrites, MaxClock} \subseteq Nat

\* The protected handlers resolve the auth profile registry with the spaces.
ASSUME ProtectedAssumption == \A request \in Requests : request.auth

\* A session item, its expiresAt as _positive_int takes it.
IsSession(item) ==
    /\ item = [revoked |-> item.revoked, expiresAt |-> item.expiresAt,
               sessionVersion |-> item.sessionVersion, profile |-> item.profile,
               environment |-> item.environment, tenant |-> item.tenant,
               csrf |-> item.csrf]
    /\ item.expiresAt \in Nat

ASSUME SessionsAssumption == \A item \in SessionCases : item = Absent \/ IsSession(item)

VARIABLES
    pc,             \* the next step of each invocation
    call,           \* the client's call that it serves
    since,          \* the time at which it started
    seenSession,    \* the session item it read
    session,        \* the session item
    user,           \* the user item
    clock,          \* the time, in seconds
    past            \* auxiliary: replaced items and the time of it, by kind

handler == <<pc, call, since, seenSession>>
service == <<asked, pinned, answer>>
world == <<metadata, session, user, past>>
allVars == <<vars, handler, session, user, clock, past>>

AuthInit ==
    /\ Init
    /\ session \in SessionCases
    /\ user \in UserCases
    /\ pc = [c \in Containers |-> "idle"]
    /\ call = [c \in Containers |-> Absent]
    /\ since = [c \in Containers |-> 0]
    /\ seenSession = [c \in Containers |-> Absent]
    /\ clock = 0
    /\ past = {}

At(c, step) == pc[c] = step

Goto(c, step) == pc' = [pc EXCEPT ![c] = step]

-----------------------------------------------------------------------------
(* The world: what other services write, and time.                         *)

\* The values of an item that were current at a time since then.
ValuesSince(kind, now, then) ==
    {now} \cup {p.value : p \in {q \in past : q.kind = kind /\ q.until >= then}}

\* Only what a read or a property may still look back to is remembered.
Recent == {p \in past : p.until + Timeout + MaxLag >= clock}

Remember(kind, value) ==
    /\ Cardinality(Recent) < MaxWrites
    /\ past' = Recent \cup {[kind |-> kind, value |-> value, until |-> clock]}

PublishPolicy ==
    /\ Publish /\ metadata' # metadata
    /\ Remember("metadata", metadata)
    /\ UNCHANGED <<handler, session, user, clock>>

\* revokedAt is written and never taken back.
RevokeSession ==
    /\ session # Absent /\ ~session.revoked
    /\ session' = [session EXCEPT !.revoked = TRUE]
    /\ Remember("session", session)
    /\ UNCHANGED <<vars, handler, user, clock>>

\* Disable, approve, change roles, or end all sessions by a new version.
WriteUser ==
    /\ user' \in {u \in UserCases : u.sessionVersion >= user.sessionVersion} \ {user}
    /\ Remember("user", user)
    /\ UNCHANGED <<vars, handler, session, clock>>

Tick ==
    /\ clock < MaxClock
    /\ \A c \in Containers : pc[c] # "idle" => clock < since[c] + Timeout
    /\ clock' = clock + 1
    /\ UNCHANGED <<vars, handler, session, user, past>>

-----------------------------------------------------------------------------
(* The course of an invocation.                                            *)

Begin(c) ==
    /\ At(c, "idle")
    /\ Ask(c)
    /\ \E m \in Calls : call' = [call EXCEPT ![c] = m]
    /\ since' = [since EXCEPT ![c] = clock]
    /\ Goto(c, "policy")
    /\ UNCHANGED <<seenSession, session, user, clock, past>>

\* A variant of ResolvePolicy: the metadata is read without ConsistentRead.
ResolveStalePolicy(c) ==
    /\ At(c, "policy")
    /\ \/ Deliver(c)
       \/ /\ Waits(c) /\ pinned[c] = Absent
          /\ \E item \in ValuesSince("metadata", metadata, clock - MaxLag) :
                pinned' = [pinned EXCEPT ![c] = Named(item, asked[c])]
          /\ UNCHANGED <<metadata, asked, answer>>
    /\ UNCHANGED <<handler, session, user, clock, past>>

ResolvePolicy(c) ==
    /\ At(c, "policy")
    /\ Pin(c) \/ Deliver(c)
    /\ UNCHANGED <<handler, session, user, clock, past>>

\* The handler answers, an exception is raised, or the invocation is killed.
End(c) ==
    /\ Leave(c)
    /\ Goto(c, "idle")
    /\ call' = [call EXCEPT ![c] = Absent]
    /\ since' = [since EXCEPT ![c] = 0]
    /\ seenSession' = [seenSession EXCEPT ![c] = Absent]
    /\ UNCHANGED <<session, user, clock, past>>

Policy(c) == answer[c].policy

Space(c) == Packages[answer[c].spaces].spaces

Profile(c) == Packages[answer[c].registry].registry

\* validated_space, then the gate of the space in authorize_request.
SpaceAdmits(c) ==
    /\ Space(c).status = "active"
    /\ Space(c).profile = call[c].profile
    /\ call[c].capability \in Space(c).capabilities

\* The auth profile is active and of the policy's tenant and environment.
ProfileAdmits(c) ==
    /\ Profile(c).id = call[c].profile
    /\ Profile(c).status = "active"
    /\ Profile(c).tenant = Tenant[Policy(c).draft]
    /\ Profile(c).environment \in {Absent, Policy(c).environment}
    /\ Profile(c).adminGroups # {}

CheckPolicy(c) ==
    /\ At(c, "policy")
    /\ answer[c] # Absent
    /\ SpaceAdmits(c) /\ ProfileAdmits(c)
    /\ Goto(c, "session")
    /\ UNCHANGED <<vars, call, since, seenSession, session, user, clock, past>>

\* A variant of ValidSession: whether it was revoked is not looked at.
EvenIfRevoked(c, item) == item # Absent /\ item.expiresAt > clock

\* A variant of ValidSession: the tenant is not compared.
OfAnyTenant(c, item) == item # Absent /\ ~item.revoked /\ item.expiresAt > clock

\* _valid_session, with the time read after the item.
ValidSession(c, item) ==
    /\ item # Absent
    /\ ~item.revoked
    /\ item.expiresAt > clock
    /\ item.profile = call[c].profile
    /\ item.environment = Policy(c).environment
    /\ item.tenant = Tenant[Policy(c).draft]

\* An eventually consistent GET answers a value of the last MaxLag seconds.
ReadSession(c) ==
    /\ At(c, "session")
    /\ \E item \in ValuesSince("session", session, clock - MaxLag) :
          /\ ValidSession(c, item)
          /\ seenSession' = [seenSession EXCEPT ![c] = item]
    /\ Goto(c, "user")
    /\ UNCHANGED <<vars, call, since, session, user, clock, past>>

\* A variant of SameVersion: the session is not compared with the user.
AnyVersion(c, item) == TRUE

SameVersion(c, item) == item.sessionVersion = seenSession[c].sessionVersion

\* An empty allowedGroups restricts nothing.
RolesIn(item, profile) ==
    IF profile.allowedGroups = {} THEN item.roles ELSE item.roles \cap profile.allowedGroups

UserAdmits(c, item) ==
    /\ SameVersion(c, item)
    /\ item.enabled /\ item.approved
    /\ RolesIn(item, Profile(c)) \cap Profile(c).adminGroups # {}

\* _require_csrf: header and cookie agree, and with the hash of the session.
CsrfFits(c) ==
    /\ call[c].header # Absent
    /\ call[c].header = call[c].cookie
    /\ call[c].header = seenSession[c].csrf

ReadUser(c) ==
    /\ At(c, "user")
    /\ \E item \in ValuesSince("user", user, clock - MaxLag) : UserAdmits(c, item)
    /\ call[c].mutation => CsrfFits(c)
    /\ Goto(c, "allowed")
    /\ UNCHANGED <<vars, call, since, seenSession, session, user, clock, past>>

Invoke(c) ==
    \/ Begin(c) \/ ResolvePolicy(c) \/ CheckPolicy(c)
    \/ ReadSession(c) \/ ReadUser(c) \/ End(c)

AuthNext ==
    \/ \E c \in Containers : Invoke(c)
    \/ PublishPolicy \/ RevokeSession \/ WriteUser \/ Tick

AuthSpec == AuthInit /\ [][AuthNext]_allVars

-----------------------------------------------------------------------------
(* Properties.  An invocation is "allowed" from the end of its             *)
(* authorization until its last call to the store: whatever holds there,   *)
(* holds when a mutation takes effect.                                     *)

Allowed(c) == pc[c] = "allowed"

\* The limits, classifications and gates that a mutation takes effect under
\* were those of the published policy at most Timeout ago.
PolicyAge ==
    \A c \in Containers :
        Allowed(c) =>
            \E item \in ValuesSince("metadata", metadata, clock - Timeout) :
                Named(item, asked[c]) = answer[c].policy

\* A user who may act under a package: the reference for the steps above.
MayAct(package, u) ==
    /\ package.spaces.status = "active"
    /\ package.registry.status = "active"
    /\ u.enabled /\ u.approved
    /\ \E role \in u.roles :
          /\ role \in package.registry.adminGroups
          /\ package.registry.allowedGroups # {} => role \in package.registry.allowedGroups

\* "current sessionVersion, approved/enabled user status, configured
\* adminGroups": nothing is allowed for longer than an invocation and the lag
\* of a read after the session was revoked, the user's sessions were ended,
\* the user was disabled, or lost the role, in whatever order they were read.
RevocationTakesHold ==
    \A c \in Containers :
        Allowed(c) =>
            LET horizon == clock - Timeout - MaxLag
            IN  \E s \in ValuesSince("session", session, horizon),
                   u \in ValuesSince("user", user, horizon) :
                    /\ ~s.revoked
                    /\ s.sessionVersion = u.sessionVersion
                    /\ s.expiresAt > clock - Timeout
                    /\ MayAct(Packages[answer[c].policy.version], u)

\* A session opens no space of another tenant, environment or profile than
\* its own, when the domain moves to another draft during the call as well.
SessionStaysHome ==
    \A c \in Containers :
        Allowed(c) =>
            LET package == Packages[answer[c].policy.version]
            IN  /\ seenSession[c].tenant = Tenant[package.draft]
                /\ seenSession[c].environment = package.environment
                /\ seenSession[c].profile = package.registry.id
                /\ package.registry.tenant = seenSession[c].tenant
=============================================================================
