--------------------- MODULE SessionAuthorizationProofs ---------------------
(***************************************************************************)
(* What an allowed invocation may rely on, for any packages, sessions,     *)
(* users, timeout and read lag: its policy, its session and its user were  *)
(* the current ones recently, together they admit it, and they belong to   *)
(* one tenant and environment.                                             *)
(***************************************************************************)
EXTENDS SessionAuthorization, TLAPS

-----------------------------------------------------------------------------
(* The inductive invariant.                                                *)

Steps == {"idle", "policy", "session", "user", "allowed"}

IsMap(f) == f = [c \in Containers |-> f[c]]

AuthTypeOK ==
    /\ clock \in Nat
    /\ pc \in [Containers -> Steps]
    /\ since \in [Containers -> Nat]
    /\ asked \in [Containers -> OrAbsent(Requests)]
    /\ IsMap(call) /\ IsMap(seenSession) /\ IsMap(pinned) /\ IsMap(answer)
    /\ \A p \in past : p.until \in Nat
    /\ \A item \in ValuesSince("session", session, 0) : item = Absent \/ IsSession(item)

\* No invocation runs for longer than Timeout.
InTime(c) ==
    /\ pc[c] = "idle" => asked[c] = Absent /\ pinned[c] = Absent /\ answer[c] = Absent
    /\ pc[c] # "idle" => /\ asked[c] \in Requests
                         /\ since[c] <= clock /\ clock <= since[c] + Timeout

\* The policy that an invocation works with was named during the invocation.
WasNamed(c) ==
    pinned[c] # Absent =>
        \E item \in ValuesSince("metadata", metadata, since[c]) :
            Named(item, asked[c]) = pinned[c]

AnswerIsPinned(c) ==
    answer[c] # Absent => /\ pinned[c] # Absent
                          /\ Sound(pinned[c], TRUE)
                          /\ answer[c] = Whole(pinned[c], TRUE)

PolicyChecked(c) ==
    pc[c] \in {"session", "user", "allowed"} =>
        answer[c] # Absent /\ SpaceAdmits(c) /\ ProfileAdmits(c)

\* The session was valid for the policy when it was read, and what was read
\* had been there no longer than MaxLag before the invocation began.
SessionChecked(c) ==
    pc[c] \in {"user", "allowed"} =>
        /\ seenSession[c] \in ValuesSince("session", session, since[c] - MaxLag)
        /\ seenSession[c] # Absent
        /\ ~seenSession[c].revoked
        /\ seenSession[c].expiresAt > since[c]
        /\ seenSession[c].profile = call[c].profile
        /\ seenSession[c].environment = Policy(c).environment
        /\ seenSession[c].tenant = Tenant[Policy(c).draft]

UserChecked(c) ==
    pc[c] = "allowed" =>
        \E item \in ValuesSince("user", user, since[c] - MaxLag) : UserAdmits(c, item)

AuthInv ==
    /\ AuthTypeOK
    /\ \A c \in Containers :
          /\ InTime(c) /\ WasNamed(c) /\ AnswerIsPinned(c)
          /\ PolicyChecked(c) /\ SessionChecked(c) /\ UserChecked(c)

-----------------------------------------------------------------------------
(* What is remembered.                                                     *)

\* The values that were current since a time; the world adds to them.
LEMMA ValueSince ==
    ASSUME NEW kind, NEW now, NEW then, NEW x
    PROVE  x \in ValuesSince(kind, now, then) <=>
              \/ x = now
              \/ \E p \in past : p.kind = kind /\ p.until >= then /\ p.value = x
  BY DEF ValuesSince

\* What an invocation that still runs may have read stays among them.
LooksBack ==
    \A then \in Int : clock - Timeout - MaxLag <= then /\ then <= clock =>
        /\ ValuesSince("metadata", metadata, then) \subseteq
              ValuesSince("metadata", metadata, then)'
        /\ ValuesSince("session", session, then) \subseteq
              ValuesSince("session", session, then)'
        /\ ValuesSince("user", user, then) \subseteq ValuesSince("user", user, then)'

LEMMA WorldSame == UNCHANGED world => LooksBack
  BY DEF world, LooksBack, ValuesSince

\* A write keeps the value that it replaces, and what may be looked back to.
LEMMA Remembered ==
    ASSUME AuthTypeOK, NEW kind, NEW value, Remember(kind, value),
           NEW then \in Int, clock - Timeout - MaxLag <= then, then <= clock
    PROVE  /\ \A p \in past : p.until >= then => p \in past'
           /\ \E p \in past' : p.kind = kind /\ p.until >= then /\ p.value = value
  <1> DEFINE new == [kind |-> kind, value |-> value, until |-> clock]
  <1>1. /\ past' = Recent \cup {new}
        /\ clock \in Nat /\ Timeout \in Nat /\ MaxLag \in Nat
        /\ \A p \in past : p.until \in Nat
    BY AuthTimes DEF Remember, AuthTypeOK
  <1>2. ASSUME NEW p \in past, p.until >= then PROVE p \in past'
    <2>1. p.until + Timeout + MaxLag >= clock
      BY <1>1, <1>2
    <2> QED  BY <1>1, <2>1 DEF Recent
  <1>3. new \in past' /\ new.kind = kind /\ new.until >= then /\ new.value = value
    BY <1>1
  <1> QED  BY <1>2, <1>3

\* A write of one item is remembered, and the others stay.
LEMMA WriteLooksBack ==
    ASSUME AuthTypeOK, NEW kind \in {"metadata", "session", "user"}, NEW value,
           Remember(kind, value),
           kind = "metadata" => value = metadata,
           kind = "session" => value = session,
           kind = "user" => value = user,
           kind # "metadata" => metadata' = metadata,
           kind # "session" => session' = session,
           kind # "user" => user' = user
    PROVE  LooksBack
  <1> SUFFICES ASSUME NEW then \in Int,
                      clock - Timeout - MaxLag <= then, then <= clock
               PROVE  /\ ValuesSince("metadata", metadata, then) \subseteq
                            ValuesSince("metadata", metadata, then)'
                      /\ ValuesSince("session", session, then) \subseteq
                            ValuesSince("session", session, then)'
                      /\ ValuesSince("user", user, then) \subseteq
                            ValuesSince("user", user, then)'
    BY DEF LooksBack
  <1>1. /\ \A p \in past : p.until >= then => p \in past'
        /\ \E p \in past' : p.kind = kind /\ p.until >= then /\ p.value = value
    BY Remembered
  <1>2. ASSUME NEW x \in ValuesSince("metadata", metadata, then)
        PROVE  x \in ValuesSince("metadata", metadata, then)'
    <2>1. x = metadata \/ \E p \in past : p.kind = "metadata" /\ p.until >= then /\ p.value = x
      BY ValueSince
    <2>2. (kind = "metadata" /\ value = metadata) \/ metadata' = metadata
      OBVIOUS
    <2>3. \/ x = metadata'
          \/ \E p \in past' : p.kind = "metadata" /\ p.until >= then /\ p.value = x
      BY <1>1, <2>1, <2>2
    <2> QED  BY <2>3 DEF ValuesSince
  <1>3. ASSUME NEW x \in ValuesSince("session", session, then)
        PROVE  x \in ValuesSince("session", session, then)'
    <2>1. x = session \/ \E p \in past : p.kind = "session" /\ p.until >= then /\ p.value = x
      BY ValueSince
    <2>2. (kind = "session" /\ value = session) \/ session' = session
      OBVIOUS
    <2>3. \/ x = session'
          \/ \E p \in past' : p.kind = "session" /\ p.until >= then /\ p.value = x
      BY <1>1, <2>1, <2>2
    <2> QED  BY <2>3 DEF ValuesSince
  <1>4. ASSUME NEW x \in ValuesSince("user", user, then)
        PROVE  x \in ValuesSince("user", user, then)'
    <2>1. x = user \/ \E p \in past : p.kind = "user" /\ p.until >= then /\ p.value = x
      BY ValueSince
    <2>2. (kind = "user" /\ value = user) \/ user' = user
      OBVIOUS
    <2>3. \/ x = user'
          \/ \E p \in past' : p.kind = "user" /\ p.until >= then /\ p.value = x
      BY <1>1, <2>1, <2>2
    <2> QED  BY <2>3 DEF ValuesSince
  <1> QED  BY <1>2, <1>3, <1>4

-----------------------------------------------------------------------------
(* A container that does not move.                                         *)

Still(c) ==
    /\ pc'[c] = pc[c] /\ call'[c] = call[c] /\ since'[c] = since[c]
    /\ seenSession'[c] = seenSession[c]
    /\ asked'[c] = asked[c] /\ pinned'[c] = pinned[c] /\ answer'[c] = answer[c]

Relies(c) ==
    /\ WasNamed(c) /\ AnswerIsPinned(c)
    /\ PolicyChecked(c) /\ SessionChecked(c) /\ UserChecked(c)

\* What an invocation in time looks back to is remembered.
LEMMA SinceIsRecent ==
    ASSUME AuthTypeOK, LooksBack, NEW c \in Containers, InTime(c), pc[c] # "idle",
           since'[c] = since[c]
    PROVE  /\ ValuesSince("metadata", metadata, since[c]) \subseteq
                 ValuesSince("metadata", metadata, since[c])'
           /\ ValuesSince("session", session, since[c] - MaxLag) \subseteq
                 ValuesSince("session", session, since[c] - MaxLag)'
           /\ ValuesSince("user", user, since[c] - MaxLag) \subseteq
                 ValuesSince("user", user, since[c] - MaxLag)'
  <1>1. PICK then \in Nat : then = since[c]
    BY DEF AuthTypeOK
  <1>2. /\ then \in Int /\ clock - Timeout - MaxLag <= then /\ then <= clock
        /\ then - MaxLag \in Int
        /\ clock - Timeout - MaxLag <= then - MaxLag /\ then - MaxLag <= clock
    BY <1>1, AuthTimes DEF AuthTypeOK, InTime
  <1>3. /\ ValuesSince("metadata", metadata, then) \subseteq
              ValuesSince("metadata", metadata, then)'
        /\ ValuesSince("session", session, then - MaxLag) \subseteq
              ValuesSince("session", session, then - MaxLag)'
        /\ ValuesSince("user", user, then - MaxLag) \subseteq
              ValuesSince("user", user, then - MaxLag)'
    BY <1>2 DEF LooksBack
  <1> QED  BY <1>1, <1>3 DEF ValuesSince

LEMMA StillRelies ==
    ASSUME AuthTypeOK, LooksBack, NEW c \in Containers, InTime(c), Relies(c), Still(c)
    PROVE  Relies(c)'
  <1> USE DEF Still
  <1>1. AnswerIsPinned(c)'
    BY DEF Relies, AnswerIsPinned, Whole
  <1>2. PolicyChecked(c)'
    BY DEF Relies, PolicyChecked, SpaceAdmits, ProfileAdmits, Space, Profile, Policy
  <1>3. CASE pc[c] = "idle"
    BY <1>1, <1>2, <1>3 DEF InTime, Relies, WasNamed, SessionChecked, UserChecked
  <1>4. CASE pc[c] # "idle"
    <2>1. /\ ValuesSince("metadata", metadata, since[c]) \subseteq
                ValuesSince("metadata", metadata, since[c])'
          /\ ValuesSince("session", session, since[c] - MaxLag) \subseteq
                ValuesSince("session", session, since[c] - MaxLag)'
          /\ ValuesSince("user", user, since[c] - MaxLag) \subseteq
                ValuesSince("user", user, since[c] - MaxLag)'
      BY <1>4, SinceIsRecent
    <2>2. WasNamed(c)'
      BY <2>1 DEF Relies, WasNamed
    <2>3. SessionChecked(c)'
      BY <2>1 DEF Relies, SessionChecked, Policy
    <2>4. UserChecked(c)'
      BY <2>1 DEF Relies, UserChecked, UserAdmits, SameVersion, Profile, RolesIn
    <2> QED  BY <1>1, <1>2, <2>2, <2>3, <2>4 DEF Relies
  <1> QED  BY <1>3, <1>4

-----------------------------------------------------------------------------
(* Every step keeps the invariant.                                         *)

InvFor(c) == InTime(c) /\ Relies(c)

LEMMA InvParts == AuthInv <=> AuthTypeOK /\ \A c \in Containers : InvFor(c)
  BY DEF AuthInv, InvFor, Relies

LEMMA AuthInitial == AuthInit => AuthInv
  <1> SUFFICES ASSUME AuthInit PROVE AuthInv
    OBVIOUS
  <1> USE DEF AuthInit, Init
  <1>1. AuthTypeOK
    <2>1. ValuesSince("session", session, 0) = {session}
      BY DEF ValuesSince
    <2>2. session = Absent \/ IsSession(session)
      BY SessionsAssumption
    <2> QED  BY <2>1, <2>2 DEF AuthTypeOK, IsMap, OrAbsent, Steps
  <1>2. ASSUME NEW c \in Containers PROVE InvFor(c)
    <2>1. /\ pc[c] = "idle" /\ asked[c] = Absent /\ pinned[c] = Absent
          /\ answer[c] = Absent
      OBVIOUS
    <2> QED
      BY <2>1
      DEF InvFor, InTime, Relies, WasNamed, AnswerIsPinned, PolicyChecked,
          SessionChecked, UserChecked
  <1> QED  BY <1>1, <1>2, InvParts

\* A step of one container leaves what the others rely on.
LEMMA OthersStill ==
    ASSUME AuthInv, UNCHANGED world, clock' = clock, NEW c \in Containers,
           AuthTypeOK', InvFor(c)',
           \A d \in Containers \ {c} : Still(d)
    PROVE  AuthInv'
  <1>1. ASSUME NEW d \in Containers \ {c} PROVE InvFor(d)'
    <2>1. AuthTypeOK /\ InTime(d) /\ Relies(d) /\ Still(d) /\ LooksBack
      BY WorldSame DEF AuthInv, Relies
    <2>2. Relies(d)'
      BY <2>1, StillRelies
    <2>3. InTime(d)'
      BY <2>1 DEF InTime, Still
    <2> QED  BY <2>2, <2>3 DEF InvFor
  <1>2. \A d \in Containers : InvFor(d)'
    BY <1>1
  <1> QED  BY <1>2 DEF AuthInv, InvFor, Relies

\* What is known of the values of the session when nobody writes it.
LEMMA SessionTypeKept ==
    ASSUME AuthTypeOK, UNCHANGED world
    PROVE  /\ \A p \in past' : p.until \in Nat
           /\ \A item \in ValuesSince("session", session, 0)' :
                 item = Absent \/ IsSession(item)
  BY DEF AuthTypeOK, world, ValuesSince

LEMMA BeginKeeps ==
    ASSUME AuthInv, NEW c \in Containers, Begin(c)
    PROVE  AuthInv'
  <1> USE DEF Begin, Ask, Goto, At
  <1>1. AuthTypeOK /\ InTime(c)
    BY DEF AuthInv
  <1>2. UNCHANGED world /\ clock' = clock
    BY DEF world
  <1>3. PICK request \in Requests : asked' = [asked EXCEPT ![c] = request]
    OBVIOUS
  <1>4. AuthTypeOK'
    BY <1>1, <1>2, <1>3, SessionTypeKept DEF AuthTypeOK, IsMap, OrAbsent, Steps
  <1>5. ASSUME NEW d \in Containers \ {c} PROVE Still(d)
    BY <1>1 DEF AuthTypeOK, IsMap, Still
  <1>6. /\ pc'[c] = "policy" /\ asked'[c] \in Requests /\ since'[c] = clock
        /\ pinned'[c] = Absent /\ answer'[c] = Absent /\ clock \in Nat
    BY <1>1, <1>3 DEF AuthTypeOK, InTime
  <1>7. InTime(c)'
    BY <1>2, <1>6, AuthTimes DEF InTime
  <1>8. Relies(c)'
    BY <1>6
    DEF Relies, WasNamed, AnswerIsPinned, PolicyChecked, SessionChecked, UserChecked
  <1> QED  BY <1>2, <1>4, <1>5, <1>7, <1>8, OthersStill DEF InvFor

LEMMA EndKeeps ==
    ASSUME AuthInv, NEW c \in Containers, End(c)
    PROVE  AuthInv'
  <1> USE DEF End, Leave, Goto
  <1>1. AuthTypeOK
    BY DEF AuthInv
  <1>2. UNCHANGED world /\ clock' = clock
    BY DEF world
  <1>3. AuthTypeOK'
    BY <1>1, <1>2, SessionTypeKept DEF AuthTypeOK, IsMap, OrAbsent, Steps
  <1>4. ASSUME NEW d \in Containers \ {c} PROVE Still(d)
    BY <1>1 DEF AuthTypeOK, IsMap, Still
  <1>5. /\ pc'[c] = "idle" /\ asked'[c] = Absent /\ pinned'[c] = Absent
        /\ answer'[c] = Absent
    BY <1>1 DEF AuthTypeOK, IsMap
  <1>6. InvFor(c)'
    BY <1>5
    DEF InvFor, InTime, Relies, WasNamed, AnswerIsPinned, PolicyChecked,
        SessionChecked, UserChecked
  <1> QED  BY <1>2, <1>3, <1>4, <1>6, OthersStill

LEMMA ResolvePolicyKeeps ==
    ASSUME AuthInv, NEW c \in Containers, ResolvePolicy(c)
    PROVE  AuthInv'
  <1> USE DEF ResolvePolicy, At
  <1>1. AuthTypeOK /\ InTime(c) /\ WasNamed(c) /\ AnswerIsPinned(c)
    BY DEF AuthInv
  <1>2. /\ UNCHANGED world /\ clock' = clock /\ pc[c] = "policy"
        /\ UNCHANGED <<pc, call, since, seenSession, asked>>
    BY DEF world, handler, Pin, Deliver
  <1>3. AuthTypeOK'
    BY <1>1, <1>2, SessionTypeKept DEF AuthTypeOK, IsMap, Pin, Deliver
  <1>4. ASSUME NEW d \in Containers \ {c} PROVE Still(d)
    BY <1>1, <1>2 DEF AuthTypeOK, IsMap, Still, Pin, Deliver
  <1>5. InTime(c)'
    BY <1>1, <1>2 DEF InTime
  <1>6. PolicyChecked(c)' /\ SessionChecked(c)' /\ UserChecked(c)'
    BY <1>2 DEF PolicyChecked, SessionChecked, UserChecked
  <1>7. asked[c] \in Requests /\ asked[c].auth = TRUE
    BY <1>1, <1>2, ProtectedAssumption, PolicyAssumption DEF InTime, RequestsAssumption
  <1>8. CASE Pin(c)
    <2>1. /\ pinned'[c] = Named(metadata, asked[c]) /\ pinned'[c] # Absent
          /\ answer'[c] = Absent
      BY <1>1, <1>8 DEF Pin, Waits, AuthTypeOK, IsMap
    <2>2. metadata' \in ValuesSince("metadata", metadata, since[c])'
      BY DEF ValuesSince
    <2>3. WasNamed(c)' /\ AnswerIsPinned(c)'
      BY <1>2, <2>1, <2>2 DEF WasNamed, AnswerIsPinned, world
    <2> QED  BY <1>2, <1>3, <1>4, <1>5, <1>6, <2>3, OthersStill DEF InvFor, Relies
  <1>9. CASE Deliver(c)
    <2>1. /\ pinned[c] # Absent /\ pinned' = pinned /\ Sound(pinned[c], TRUE)
          /\ answer'[c] = Whole(pinned[c], TRUE)
      BY <1>1, <1>7, <1>9 DEF Deliver, AuthTypeOK, IsMap
    <2>2. AnswerIsPinned(c)'
      BY <2>1 DEF AnswerIsPinned
    <2>3. WasNamed(c)'
      BY <1>1, <1>2, <2>1 DEF WasNamed, ValuesSince, world
    <2> QED  BY <1>2, <1>3, <1>4, <1>5, <1>6, <2>2, <2>3, OthersStill DEF InvFor, Relies
  <1> QED  BY <1>8, <1>9

\* The checks of the policy, the session and the user move pc only, but for
\* the session that is read.
CheckStep(c) ==
    /\ pc[c] # "idle" /\ pc'[c] # "idle" /\ pc'[c] \in Steps
    /\ pc' = [pc EXCEPT ![c] = pc'[c]]
    /\ seenSession' = [seenSession EXCEPT ![c] = seenSession'[c]]
    /\ UNCHANGED <<vars, call, since, session, user, clock, past>>

LEMMA CheckStepKeeps ==
    ASSUME AuthInv, NEW c \in Containers, CheckStep(c),
           PolicyChecked(c)', SessionChecked(c)', UserChecked(c)'
    PROVE  AuthInv'
  <1> USE DEF CheckStep, vars
  <1>1. AuthTypeOK /\ InTime(c) /\ WasNamed(c) /\ AnswerIsPinned(c)
    BY DEF AuthInv
  <1>2. UNCHANGED world /\ clock' = clock
    BY DEF world
  <1>3. AuthTypeOK'
    <2>1. IsMap(seenSession)'
      BY <1>1 DEF AuthTypeOK, IsMap
    <2> QED  BY <1>1, <1>2, <2>1, SessionTypeKept DEF AuthTypeOK, IsMap
  <1>4. ASSUME NEW d \in Containers \ {c} PROVE Still(d)
    BY <1>1 DEF AuthTypeOK, IsMap, Still
  <1>5. InTime(c)' /\ WasNamed(c)' /\ AnswerIsPinned(c)'
    BY <1>1 DEF InTime, WasNamed, AnswerIsPinned, ValuesSince
  <1> QED  BY <1>2, <1>3, <1>4, <1>5, OthersStill DEF InvFor, Relies

LEMMA CheckPolicyKeeps ==
    ASSUME AuthInv, NEW c \in Containers, CheckPolicy(c)
    PROVE  AuthInv'
  <1> USE DEF CheckPolicy, At, Goto
  <1>1. AuthTypeOK
    BY DEF AuthInv
  <1>2. pc[c] = "policy" /\ pc'[c] = "session"
    BY <1>1 DEF AuthTypeOK
  <1>3. CheckStep(c)
    BY <1>1, <1>2 DEF CheckStep, AuthTypeOK, IsMap, Steps
  <1>4. PolicyChecked(c)'
    BY DEF PolicyChecked, SpaceAdmits, ProfileAdmits, Space, Profile, Policy, vars
  <1>5. SessionChecked(c)' /\ UserChecked(c)'
    BY <1>2 DEF SessionChecked, UserChecked
  <1> QED  BY <1>3, <1>4, <1>5, CheckStepKeeps

\* A value that was current at most MaxLag ago was current at most MaxLag
\* before the invocation began.
LEMMA LagSinceBegin ==
    ASSUME AuthTypeOK, NEW c \in Containers, InTime(c), pc[c] # "idle",
           NEW kind, NEW now, NEW x \in ValuesSince(kind, now, clock - MaxLag)
    PROVE  x \in ValuesSince(kind, now, since[c] - MaxLag)
  <1>1. /\ since[c] \in Nat /\ clock \in Nat /\ MaxLag \in Nat /\ since[c] <= clock
        /\ \A p \in past : p.until \in Nat
    BY AuthTimes DEF AuthTypeOK, InTime
  <1>2. CASE x = now
    BY <1>2 DEF ValuesSince
  <1>3. CASE x # now
    <2>1. PICK p \in past : p.kind = kind /\ p.until >= clock - MaxLag /\ p.value = x
      BY <1>3, ValueSince
    <2>2. p.until >= since[c] - MaxLag
      BY <1>1, <2>1
    <2> QED  BY <2>1, <2>2 DEF ValuesSince
  <1> QED  BY <1>2, <1>3

LEMMA ReadSessionKeeps ==
    ASSUME AuthInv, NEW c \in Containers, ReadSession(c)
    PROVE  AuthInv'
  <1> USE DEF ReadSession, At, Goto
  <1>1. AuthTypeOK /\ InTime(c) /\ PolicyChecked(c)
    BY DEF AuthInv
  <1>2. pc[c] = "session" /\ pc'[c] = "user"
    BY <1>1 DEF AuthTypeOK
  <1>3. PICK item \in ValuesSince("session", session, clock - MaxLag) :
           ValidSession(c, item) /\ seenSession' = [seenSession EXCEPT ![c] = item]
    OBVIOUS
  <1>4. seenSession'[c] = item
    BY <1>1, <1>3 DEF AuthTypeOK, IsMap
  <1>5. CheckStep(c)
    BY <1>1, <1>2, <1>3, <1>4 DEF CheckStep, AuthTypeOK, IsMap, Steps
  <1>6. PolicyChecked(c)'
    BY <1>1, <1>2 DEF PolicyChecked, SpaceAdmits, ProfileAdmits, Space, Profile, Policy, vars
  <1>7. item \in ValuesSince("session", session, since[c] - MaxLag)
    BY <1>1, <1>2, LagSinceBegin
  <1>8. item.expiresAt > since[c]
    <2>1. item \in ValuesSince("session", session, 0)
      <3>1. \A p \in past : p.until >= 0
        BY <1>1 DEF AuthTypeOK
      <3> QED  BY <3>1 DEF ValuesSince
    <2>2. item.expiresAt \in Nat /\ item.expiresAt > clock
      BY <1>1, <1>3, <2>1 DEF AuthTypeOK, ValidSession, IsSession
    <2> QED  BY <1>1, <1>2, <2>2 DEF InTime, AuthTypeOK
  <1>9. SessionChecked(c)'
    BY <1>3, <1>4, <1>7, <1>8 DEF SessionChecked, ValidSession, ValuesSince, Policy, vars
  <1>10. UserChecked(c)'
    BY <1>2 DEF UserChecked
  <1> QED  BY <1>5, <1>6, <1>9, <1>10, CheckStepKeeps

LEMMA ReadUserKeeps ==
    ASSUME AuthInv, NEW c \in Containers, ReadUser(c)
    PROVE  AuthInv'
  <1> USE DEF ReadUser, At, Goto
  <1>1. AuthTypeOK /\ InTime(c) /\ PolicyChecked(c) /\ SessionChecked(c)
    BY DEF AuthInv
  <1>2. pc[c] = "user" /\ pc'[c] = "allowed"
    BY <1>1 DEF AuthTypeOK
  <1>3. PICK item \in ValuesSince("user", user, clock - MaxLag) : UserAdmits(c, item)
    OBVIOUS
  <1>4. CheckStep(c)
    BY <1>1, <1>2 DEF CheckStep, AuthTypeOK, IsMap, Steps
  <1>5. PolicyChecked(c)'
    BY <1>1, <1>2 DEF PolicyChecked, SpaceAdmits, ProfileAdmits, Space, Profile, Policy, vars
  <1>6. SessionChecked(c)'
    BY <1>1, <1>2 DEF SessionChecked, ValuesSince, Policy, vars
  <1>7. item \in ValuesSince("user", user, since[c] - MaxLag)
    BY <1>1, <1>2, LagSinceBegin
  <1>8. UserAdmits(c, item)'
    BY <1>3 DEF UserAdmits, SameVersion, Profile, RolesIn, vars
  <1>9. UserChecked(c)'
    BY <1>7, <1>8 DEF UserChecked, ValuesSince
  <1> QED  BY <1>4, <1>5, <1>6, <1>9, CheckStepKeeps

\* A write of another service: a container that runs still finds what it
\* relied on.
LEMMA WorldKeeps ==
    ASSUME AuthInv, LooksBack, clock' = clock, UNCHANGED <<handler, service>>,
           AuthTypeOK'
    PROVE  AuthInv'
  <1> USE DEF handler, service
  <1>1. ASSUME NEW c \in Containers PROVE InvFor(c)'
    <2>1. AuthTypeOK /\ InTime(c) /\ Relies(c) /\ Still(c)
      BY DEF AuthInv, Relies, Still
    <2>2. Relies(c)'
      BY <2>1, StillRelies
    <2>3. InTime(c)'
      BY <2>1 DEF InTime
    <2> QED  BY <2>2, <2>3 DEF InvFor
  <1> QED  BY <1>1 DEF AuthInv, InvFor, Relies

\* What is remembered after a write, and what the session may have been.
LEMMA WriteTypes ==
    ASSUME AuthTypeOK, NEW kind, NEW value, Remember(kind, value),
           kind = "session" => value = session,
           session' = session \/ session' = Absent \/ IsSession(session')
    PROVE  /\ \A p \in past' : p.until \in Nat
           /\ \A item \in ValuesSince("session", session, 0)' :
                 item = Absent \/ IsSession(item)
  <1> DEFINE new == [kind |-> kind, value |-> value, until |-> clock]
             Known(item) == item = Absent \/ IsSession(item)
  <1>1. past' \subseteq past \cup {new}
    BY DEF Remember, Recent
  <1>2. new.until \in Nat /\ new.kind = kind /\ new.value = value
    BY DEF AuthTypeOK
  <1>3. \A p \in past' : p.until \in Nat
    BY <1>1, <1>2 DEF AuthTypeOK
  <1>4. \A item \in ValuesSince("session", session, 0) : Known(item)
    BY DEF AuthTypeOK
  <1>5. Known(session)
    BY <1>4 DEF ValuesSince
  <1>6. \A p \in past : p.kind = "session" => Known(p.value)
    <2>1. \A p \in past : p.until >= 0
      BY DEF AuthTypeOK
    <2> QED  BY <1>4, <2>1 DEF ValuesSince
  <1>7. \A p \in past' : p.kind = "session" => Known(p.value)
    BY <1>1, <1>2, <1>5, <1>6
  <1>8. Known(session')
    BY <1>5
  <1>9. \A item \in ValuesSince("session", session, 0)' : Known(item)
    BY <1>7, <1>8 DEF ValuesSince
  <1> QED  BY <1>3, <1>9

LEMMA PublishPolicyKeeps ==
    ASSUME AuthInv, PublishPolicy
    PROVE  AuthInv'
  <1> USE DEF PublishPolicy, Publish, handler
  <1>1. AuthTypeOK
    BY DEF AuthInv
  <1>2. LooksBack
    BY <1>1, WriteLooksBack
  <1>3. AuthTypeOK'
    BY <1>1, WriteTypes DEF AuthTypeOK, IsMap
  <1> QED  BY <1>2, <1>3, WorldKeeps DEF service

LEMMA RevokeSessionKeeps ==
    ASSUME AuthInv, RevokeSession
    PROVE  AuthInv'
  <1> USE DEF RevokeSession, handler, vars
  <1>1. AuthTypeOK
    BY DEF AuthInv
  <1>2. LooksBack
    BY <1>1, WriteLooksBack
  <1>3. IsSession(session')
    <2>1. IsSession(session)
      BY <1>1 DEF AuthTypeOK, ValuesSince
    <2>2. session' = [revoked |-> TRUE, expiresAt |-> session.expiresAt,
                      sessionVersion |-> session.sessionVersion,
                      profile |-> session.profile, environment |-> session.environment,
                      tenant |-> session.tenant, csrf |-> session.csrf]
      BY <2>1 DEF IsSession
    <2> QED  BY <2>1, <2>2 DEF IsSession
  <1>4. AuthTypeOK'
    BY <1>1, <1>3, WriteTypes DEF AuthTypeOK, IsMap
  <1> QED  BY <1>2, <1>4, WorldKeeps DEF service

LEMMA WriteUserKeeps ==
    ASSUME AuthInv, WriteUser
    PROVE  AuthInv'
  <1> USE DEF WriteUser, handler, vars
  <1>1. AuthTypeOK
    BY DEF AuthInv
  <1>2. LooksBack
    BY <1>1, WriteLooksBack
  <1>3. AuthTypeOK'
    BY <1>1, WriteTypes DEF AuthTypeOK, IsMap
  <1> QED  BY <1>2, <1>3, WorldKeeps DEF service

LEMMA TickKeeps ==
    ASSUME AuthInv, Tick
    PROVE  AuthInv'
  <1> USE DEF Tick, handler, vars
  <1>1. AuthTypeOK /\ UNCHANGED world
    BY DEF AuthInv, world
  <1>2. AuthTypeOK'
    BY <1>1, SessionTypeKept DEF AuthTypeOK, IsMap
  <1>3. ASSUME NEW c \in Containers PROVE InvFor(c)'
    <2>1. InTime(c) /\ Relies(c) /\ Still(c) /\ LooksBack
      BY <1>1, WorldSame DEF AuthInv, Relies, Still
    <2>2. Relies(c)'
      BY <1>1, <2>1, StillRelies
    <2>3. InTime(c)'
      BY <1>1, <2>1, AuthTimes DEF InTime, AuthTypeOK
    <2> QED  BY <2>2, <2>3 DEF InvFor
  <1> QED  BY <1>2, <1>3 DEF AuthInv, InvFor, Relies

LEMMA AuthStep == AuthInv /\ [AuthNext]_allVars => AuthInv'
  <1> SUFFICES ASSUME AuthInv, [AuthNext]_allVars PROVE AuthInv'
    OBVIOUS
  <1>1. ASSUME NEW c \in Containers, Invoke(c) PROVE AuthInv'
    BY <1>1, BeginKeeps, ResolvePolicyKeeps, CheckPolicyKeeps, ReadSessionKeeps,
       ReadUserKeeps, EndKeeps DEF Invoke
  <1>2. CASE PublishPolicy  BY <1>2, PublishPolicyKeeps
  <1>3. CASE RevokeSession  BY <1>3, RevokeSessionKeeps
  <1>4. CASE WriteUser  BY <1>4, WriteUserKeeps
  <1>5. CASE Tick  BY <1>5, TickKeeps
  <1>6. CASE UNCHANGED allVars
    <2> USE <1>6 DEF allVars, handler, vars
    <2>1. AuthTypeOK /\ UNCHANGED world
      BY DEF AuthInv, world
    <2>2. AuthTypeOK'
      BY <2>1, SessionTypeKept DEF AuthTypeOK, IsMap
    <2> QED  BY <2>1, <2>2, WorldSame, WorldKeeps DEF service
  <1> QED  BY <1>1, <1>2, <1>3, <1>4, <1>5, <1>6 DEF AuthNext

LEMMA AuthHolds == AuthSpec => []AuthInv
  BY AuthInitial, AuthStep, PTL DEF AuthSpec

-----------------------------------------------------------------------------
(* The theorems.                                                           *)

\* What an allowed invocation knows of its package: the answer holds the
\* descriptors of the version that its policy names.
LEMMA AllowedPackage ==
    ASSUME AuthInv, NEW c \in Containers, Allowed(c)
    PROVE  /\ answer[c] # Absent /\ pinned[c] # Absent
           /\ Policy(c) = pinned[c]
           /\ Sound(Policy(c), TRUE)
           /\ Space(c) = Packages[Policy(c).version].spaces
           /\ Profile(c) = Packages[Policy(c).version].registry
           /\ SpaceAdmits(c) /\ ProfileAdmits(c)
  <1>1. /\ answer[c] # Absent /\ SpaceAdmits(c) /\ ProfileAdmits(c)
    BY DEF AuthInv, PolicyChecked, Allowed
  <1>2. pinned[c] # Absent /\ Sound(pinned[c], TRUE) /\ answer[c] = Whole(pinned[c], TRUE)
    BY <1>1 DEF AuthInv, AnswerIsPinned
  <1>3. /\ answer[c].policy = pinned[c]
        /\ answer[c].spaces = pinned[c].version
        /\ answer[c].registry = pinned[c].version
    BY <1>2 DEF Whole
  <1> QED  BY <1>1, <1>2, <1>3 DEF Policy, Space, Profile

\* The policy of an allowed invocation was named by the metadata at most
\* Timeout ago (resolve reads the metadata with ConsistentRead in each call),
\* for any publications meanwhile.
THEOREM PolicyIsRecent == AuthSpec => []PolicyAge
  <1>1. ASSUME AuthInv PROVE PolicyAge
    <2> SUFFICES ASSUME NEW c \in Containers, Allowed(c)
                 PROVE  \E item \in ValuesSince("metadata", metadata, clock - Timeout) :
                           Named(item, asked[c]) = answer[c].policy
      BY DEF PolicyAge
    <2>1. answer[c].policy = pinned[c] /\ pinned[c] # Absent
      BY <1>1, AllowedPackage DEF Policy
    <2>2. PICK item \in ValuesSince("metadata", metadata, since[c]) :
             Named(item, asked[c]) = pinned[c]
      BY <1>1, <2>1 DEF AuthInv, WasNamed
    <2>3. /\ clock - Timeout <= since[c] /\ since[c] \in Nat /\ clock - Timeout \in Int
          /\ \A p \in past : p.until \in Nat
      BY <1>1, AuthTimes DEF AuthInv, InTime, AuthTypeOK, Allowed
    <2>4. \A p \in past : p.until >= since[c] => p.until >= clock - Timeout
      BY <2>3
    <2>5. item \in ValuesSince("metadata", metadata, clock - Timeout)
      BY <2>4 DEF ValuesSince
    <2> QED  BY <2>1, <2>2, <2>5
  <1> QED  BY <1>1, AuthHolds, PTL

\* Whatever admitted an invocation was true at most Timeout and MaxLag ago: a
\* session that was not revoked, of the version of a user that may act under
\* the package (authorize_request reads them without ConsistentRead).
THEOREM RevocationIsSeen == AuthSpec => []RevocationTakesHold
  <1>1. ASSUME AuthInv PROVE RevocationTakesHold
    <2> DEFINE horizon == clock - Timeout - MaxLag
    <2> SUFFICES ASSUME NEW c \in Containers, Allowed(c)
                 PROVE  \E s \in ValuesSince("session", session, horizon),
                           u \in ValuesSince("user", user, horizon) :
                              /\ ~s.revoked
                              /\ s.sessionVersion = u.sessionVersion
                              /\ s.expiresAt > clock - Timeout
                              /\ MayAct(Packages[answer[c].policy.version], u)
      BY DEF RevocationTakesHold
    <2>1. /\ clock \in Nat /\ Timeout \in Nat /\ MaxLag \in Nat /\ since[c] \in Nat
          /\ clock <= since[c] + Timeout
          /\ \A p \in past : p.until \in Nat
      BY <1>1, AuthTimes DEF AuthInv, InTime, AuthTypeOK, Allowed
    <2>2. \A p \in past : p.until >= since[c] - MaxLag => p.until >= horizon
      BY <2>1
    <2>3. /\ ValuesSince("session", session, since[c] - MaxLag) \subseteq
                ValuesSince("session", session, horizon)
          /\ ValuesSince("user", user, since[c] - MaxLag) \subseteq
                ValuesSince("user", user, horizon)
      BY <2>2 DEF ValuesSince
    <2>4. /\ seenSession[c] \in ValuesSince("session", session, horizon)
          /\ seenSession[c] # Absent /\ ~seenSession[c].revoked
          /\ seenSession[c].expiresAt > since[c]
      BY <1>1, <2>3 DEF AuthInv, SessionChecked, Allowed
    <2>5. PICK u \in ValuesSince("user", user, horizon) : UserAdmits(c, u)
      BY <1>1, <2>3 DEF AuthInv, UserChecked, Allowed
    <2>6. seenSession[c].expiresAt \in Nat
      <3>1. \A p \in past : p.until >= since[c] - MaxLag => p.until >= 0
        BY <2>1
      <3>2. seenSession[c] \in ValuesSince("session", session, 0)
        BY <1>1, <3>1 DEF AuthInv, SessionChecked, Allowed, ValuesSince
      <3> QED  BY <1>1, <2>4, <3>2 DEF AuthInv, AuthTypeOK, IsSession
    <2>7. seenSession[c].expiresAt > clock - Timeout
      BY <2>1, <2>4, <2>6
    <2>8. MayAct(Packages[answer[c].policy.version], u)
      <3>1. /\ Space(c) = Packages[answer[c].policy.version].spaces
            /\ Profile(c) = Packages[answer[c].policy.version].registry
            /\ Space(c).status = "active" /\ Profile(c).status = "active"
        BY <1>1, AllowedPackage DEF Policy, SpaceAdmits, ProfileAdmits
      <3>2. /\ u.enabled /\ u.approved
            /\ RolesIn(u, Profile(c)) \cap Profile(c).adminGroups # {}
        BY <2>5 DEF UserAdmits
      <3>3. PICK role \in RolesIn(u, Profile(c)) : role \in Profile(c).adminGroups
        BY <3>2
      <3>4. /\ role \in u.roles
            /\ Profile(c).allowedGroups # {} => role \in Profile(c).allowedGroups
        BY <3>3 DEF RolesIn
      <3> QED  BY <3>1, <3>2, <3>3, <3>4 DEF MayAct
    <2>9. seenSession[c].sessionVersion = u.sessionVersion
      BY <2>5 DEF UserAdmits, SameVersion
    <2> QED  BY <2>4, <2>5, <2>7, <2>8, <2>9
  <1> QED  BY <1>1, AuthHolds, PTL

\* A session is used for its own tenant, environment and auth profile only
\* (_valid_session against the policy of the same call), wherever the domain
\* moves meanwhile.
THEOREM SessionsStayHome == AuthSpec => []SessionStaysHome
  <1>1. ASSUME AuthInv PROVE SessionStaysHome
    <2> SUFFICES ASSUME NEW c \in Containers, Allowed(c)
                 PROVE  LET package == Packages[answer[c].policy.version]
                        IN  /\ seenSession[c].tenant = Tenant[package.draft]
                            /\ seenSession[c].environment = package.environment
                            /\ seenSession[c].profile = package.registry.id
                            /\ package.registry.tenant = seenSession[c].tenant
      BY DEF SessionStaysHome
    <2>1. /\ seenSession[c].profile = call[c].profile
          /\ seenSession[c].environment = Policy(c).environment
          /\ seenSession[c].tenant = Tenant[Policy(c).draft]
      BY <1>1 DEF AuthInv, SessionChecked, Allowed
    <2>2. /\ Packages[Policy(c).version].draft = Policy(c).draft
          /\ Packages[Policy(c).version].environment = Policy(c).environment
          /\ Profile(c) = Packages[Policy(c).version].registry
          /\ Profile(c).id = call[c].profile
          /\ Profile(c).tenant = Tenant[Policy(c).draft]
      BY <1>1, AllowedPackage DEF Sound, SoundSpaces, ProfileAdmits
    <2> QED  BY <2>1, <2>2 DEF Policy
  <1> QED  BY <1>1, AuthHolds, PTL

=============================================================================
