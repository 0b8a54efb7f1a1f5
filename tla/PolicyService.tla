--------------------------- MODULE PolicyService ---------------------------
(***************************************************************************)
(* What the policy resolver promises a handler: the whole policy that the  *)
(* metadata named at some instant of the call, sound for the scope of that *)
(* instant, or no policy at all.  No cache and no descriptors to load.     *)
(***************************************************************************)
EXTENDS PublishedPolicy

VARIABLES
    metadata,       \* the METADATA item of the domain
    asked,          \* the request that a container serves, or Absent
    pinned,         \* the policy that the metadata named for it, or Absent
    answer          \* the policy it got, or Absent

vars == <<metadata, asked, pinned, answer>>

Init ==
    /\ metadata \in MetadataCases
    /\ asked = [c \in Containers |-> Absent]
    /\ pinned = [c \in Containers |-> Absent]
    /\ answer = [c \in Containers |-> Absent]

Publish == metadata' \in MetadataCases /\ UNCHANGED <<asked, pinned, answer>>

Ask(c) ==
    /\ asked[c] = Absent
    /\ \E request \in Requests : asked' = [asked EXCEPT ![c] = request]
    /\ UNCHANGED <<metadata, pinned, answer>>

Waits(c) == asked[c] # Absent /\ answer[c] = Absent

Pin(c) ==
    /\ Waits(c) /\ pinned[c] = Absent
    /\ Named(metadata, asked[c]) # Absent
    /\ pinned' = [pinned EXCEPT ![c] = Named(metadata, asked[c])]
    /\ UNCHANGED <<metadata, asked, answer>>

Deliver(c) ==
    /\ Waits(c) /\ pinned[c] # Absent
    /\ Sound(pinned[c], asked[c].auth)
    /\ answer' = [answer EXCEPT ![c] = Whole(pinned[c], asked[c].auth)]
    /\ UNCHANGED <<metadata, asked, pinned>>

\* The handler is done, has got no policy, or its container is gone.
Leave(c) ==
    /\ asked[c] # Absent
    /\ asked' = [asked EXCEPT ![c] = Absent]
    /\ pinned' = [pinned EXCEPT ![c] = Absent]
    /\ answer' = [answer EXCEPT ![c] = Absent]
    /\ UNCHANGED metadata

Serve(c) == Ask(c) \/ Pin(c) \/ Deliver(c) \/ Leave(c)

Next == Publish \/ \E c \in Containers : Serve(c)

Spec == Init /\ [][Next]_vars
=============================================================================
