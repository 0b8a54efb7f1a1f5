--------------------------- MODULE RetryingClient ---------------------------
(***************************************************************************)
(* Clients of the protected action endpoint.  A client has one request,    *)
(* sends it until it gets an answer that is not retryable, and uses the    *)
(* same idempotency key each time; the policy is resolved for each attempt *)
(* anew, and the attempt authorized anew, so that it may be refused before *)
(* it reaches the store.  A client may stop waiting for an invocation that *)
(* is slow, and send the request again while that invocation still runs.   *)
(* All attempts of a client are about one partition: the domain stays with *)
(* its draft and the session with its subject.                             *)
(***************************************************************************)
EXTENDS DataSpaceStore

CONSTANT MaxFailures    \* bound on the failures and lost answers of a behaviour

ASSUME FailuresBound == MaxFailures \in Nat

VARIABLES
    waits,          \* the invocation that a client waits for, or Absent
    verdict,        \* the status of the answer that it took as final, or Absent
    failures,       \* how many calls failed, crashed or were given up
    overlapped      \* auxiliary: who sent again while an attempt still ran

client == <<waits, verdict, failures, overlapped>>
clientVars == <<vars, client>>

\* A client is known by its key and its request.
Clients == {[key |-> m.key, request |-> m.request] : m \in Calls}

\* What an attempt may be answered before it reaches the store: the space is
\* not there or not active (404), there is no session, or its table failed
\* (401), a role is missing (403), the policy is unavailable (503).
DoorRefusals == {"not_found", "auth_required", "forbidden", "upstream_unavailable"}

\* The final answers, of the store or from before it.
Verdicts == {"ok", "conflict", "not_found", "validation_error", "auth_required", "forbidden"}

\* No verdict yet is told apart from every verdict.
ASSUME AbsentIsNoVerdict == Absent \notin Verdicts

ClientInit ==
    /\ Init
    /\ waits = [m \in Clients |-> Absent]
    /\ verdict = [m \in Clients |-> Absent]
    /\ failures = 0
    /\ overlapped = {}

\* The invocation serves the client, under whatever policy.
Attempts(i, m) == call[i] # Absent /\ call[i].key = m.key /\ call[i].request = m.request

\* An attempt of the client is not over: it may still take effect.
StillRuns(m) == \E i \in Invocations : Attempts(i, m) /\ Running(i)

\* The client has no final answer and waits for none: it sends its call.
Asks(m) ==
    /\ waits[m] = Absent /\ verdict[m] = Absent
    /\ overlapped' = IF StillRuns(m) THEN overlapped \cup {m} ELSE overlapped

\* The attempt passes the policy and the authorization and reaches the store.
Send(m) ==
    /\ Asks(m)
    /\ \E i \in Invocations :
          /\ Begin(i) /\ Attempts(i, m)'
          /\ waits' = [waits EXCEPT ![m] = i]
    /\ UNCHANGED <<verdict, failures>>

OneMoreFailure == failures < MaxFailures /\ failures' = failures + 1

\* A variant of Retryable: a conflict is sent again as well.
ConflictToo(status) == status \in {"internal_error", "upstream_unavailable", "conflict"}

\* The "retryable" of error_response.
Retryable(status) == status \in {"internal_error", "upstream_unavailable"}

\* The attempt ends before the store, and before the replay check: policy,
\* session and user are read anew for each attempt, whatever came of the last.
TurnAway(m) ==
    /\ Asks(m)
    /\ \E status \in DoorRefusals :
          \/ Retryable(status) /\ OneMoreFailure /\ UNCHANGED verdict
          \/ /\ ~Retryable(status)
             /\ verdict' = [verdict EXCEPT ![m] = status]
             /\ UNCHANGED failures
    /\ UNCHANGED <<vars, waits>>

Hear(m) ==
    /\ waits[m] # Absent /\ At(waits[m], "done")
    /\ Return(waits[m])
    /\ waits' = [waits EXCEPT ![m] = Absent]
    /\ verdict' = IF Retryable(reply[waits[m]].status) THEN verdict
                  ELSE [verdict EXCEPT ![m] = reply[waits[m]].status]
    /\ UNCHANGED <<failures, overlapped>>

\* Nobody waits for the answer any more.
Unheard(i) ==
    /\ \A m \in Clients : waits[m] # i
    /\ Return(i)
    /\ UNCHANGED client

\* Lost: the client cannot know whether its call took effect.
Deaf(i) == waits' = [m \in Clients |-> IF waits[m] = i THEN Absent ELSE waits[m]]

GiveUp(m) ==
    /\ waits[m] # Absent /\ Running(waits[m])
    /\ OneMoreFailure
    /\ waits' = [waits EXCEPT ![m] = Absent]
    /\ UNCHANGED <<vars, verdict, overlapped>>

Break(i) ==
    /\ OneMoreFailure
    /\ \/ BackendError(i) /\ UNCHANGED waits
       \/ Crash(i) /\ Deaf(i)
    /\ UNCHANGED <<verdict, overlapped>>

\* An invocation in the store goes on, whether its client still waits or not.
Work(i) ==
    /\ \/ Replay(i) \/ RefuseKeyReuse(i) \/ RefuseSchema(i) \/ Proceed(i)
       \/ NotFound(i)
       \/ CreateCollectionRead(i) \/ CreateCollection(i)
       \/ UpdateCollectionRead(i) \/ UpdateCollection(i)
       \/ CreateRecordRead(i) \/ CreateRecord(i)
       \/ UpdateRecordReadSchema(i) \/ UpdateRecordReadRecord(i) \/ UpdateRecord(i)
       \/ PublicationReadRecord(i) \/ PublicationReadSchema(i)
       \/ Publish(i) \/ Unpublish(i)
       \/ ConditionFailed(i)
    /\ UNCHANGED client

ClientNext ==
    \/ \E m \in Clients : Send(m) \/ TurnAway(m) \/ Hear(m) \/ GiveUp(m)
    \/ \E i \in Invocations : Work(i) \/ Break(i) \/ Unheard(i)
    \/ (Tick \/ \E k \in Keys : ExpireReceipt(k)) /\ UNCHANGED client

ClientSpec == ClientInit /\ [][ClientNext]_clientVars

\* Lambda runs every invocation to its end, and a client that has no final
\* answer sends again.
FairClientSpec ==
    /\ ClientSpec
    /\ \A i \in Invocations : WF_clientVars(Work(i)) /\ WF_clientVars(Unheard(i))
    /\ \A m \in Clients : WF_clientVars(Send(m)) /\ WF_clientVars(Hear(m))

-----------------------------------------------------------------------------
(* Properties.                                                             *)

TookEffect(m) == \E a \in applied : a.key = m.key /\ a.request = m.request

\* Its receipt may have expired and been deleted.
ReceiptMayBeGone(m) ==
    \E a \in applied : a.key = m.key /\ a.request = m.request /\ a.at + ReceiptTTL < clock

\* The codes of error_response that an attempt is answered only after the
\* replay check has found no receipt of it.  A 404 may also come from the
\* policy, and 401 and 403 never come from the store: these say of an earlier
\* attempt nothing.
BehindReplay == {"conflict", "validation_error"}

\* A client that waited for the end of each attempt and is told of a conflict
\* or of an invalid request can trust it: its call has not taken effect.  Not
\* so if an attempt was overtaken by the next one, and not for what it may be
\* told at the door, a 404, 401 or 403.
RefusalsAreTrue ==
    \A m \in Clients :
        verdict[m] \in BehindReplay /\ m \notin overlapped =>
            ~TookEffect(m) \/ ReceiptMayBeGone(m)

\* Every client gets a final answer, for failures come to an end.
EveryClientIsAnswered == \A m \in Clients : <>(verdict[m] # Absent)
=============================================================================
