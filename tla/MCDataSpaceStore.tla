-------------------------- MODULE MCDataSpaceStore --------------------------
(***************************************************************************)
(* Workloads for TLC: small sets of calls, each aimed at the races of a    *)
(* group of operations.  A call can be made any number of times, by any    *)
(* invocation, at any moment.                                              *)
(***************************************************************************)
EXTENDS DataSpaceStore, TLC

InvocationSymmetry == Permutations(Invocations)

AnyPolicy == [maxCollections |-> 2, maxFields |-> 3, maxRecords |-> 2, maxBytes |-> 3,
              allowed |-> Classifications]

Field(classification, required, accepts) ==
    [classification |-> classification, required |-> required, accepts |-> accepts]

Public == Field("public", FALSE, {"short", "long"})
Internal == Field("internal", FALSE, {"short", "long"})
Required == Field("public", TRUE, {"short"})

Call(key, request) == [key |-> key, request |-> request, policy |-> AnyPolicy]

CreateC(c, s) ==
    [action |-> "createCollection", actor |-> "ana", collection |-> c, schema |-> s]
UpdateC(c, e, s) ==
    [action |-> "updateCollection", actor |-> "ana", collection |-> c, schema |-> s,
     expected |-> e]
CreateR(c, r, d) ==
    [action |-> "createRecord", actor |-> "ana", collection |-> c, record |-> r, data |-> d]
UpdateR(c, r, e, d) ==
    [action |-> "updateRecord", actor |-> "ana", collection |-> c, record |-> r, data |-> d,
     expected |-> e]
PublishR(c, r, e) ==
    [action |-> "publishRecord", actor |-> "ana", collection |-> c, record |-> r,
     expected |-> e]
UnpublishR(c, r, e) ==
    [action |-> "unpublishRecord", actor |-> "ana", collection |-> c, record |-> r,
     expected |-> e]

\* Schema updates against the creation and publication of records, and
\* creations against each other.
Base == [title |-> Public, cost |-> Internal]
Reclassified == [title |-> Internal, cost |-> Public]
Extended == [title |-> Public, cost |-> Internal, lead |-> Required]

\* A policy of narrower limits, which an invocation may have resolved before or
\* after a change of the descriptor.  The calls that reach its limits, and those
\* that exceed them, are made under it alone: the collection of posts where there
\* is one already, a second record, a record, a schema or a field beyond it.
Narrow == [maxCollections |-> 1, maxFields |-> 2, maxRecords |-> 1, maxBytes |-> 1,
           allowed |-> {"public"}]
Narrowly(m) == [m EXCEPT !.policy = Narrow]

CreatePages == Call("k1", CreateC("pages", Base))
CreateHome == Call("k4", CreateR("pages", "home", [title |-> "short"]))

AtTheLimits ==
    {Narrowly(CreateHome),
     Narrowly(Call("k5", CreateR("pages", "about", [cost |-> "long"]))),
     Narrowly(Call("k5", CreateR("pages", "about", [title |-> "short", cost |-> "long"]))),
     Narrowly(Call("k8", CreateC("posts", [title |-> Public]))),
     Narrowly(Call("k9", CreateC("posts", [title |-> Public, cost |-> Internal]))),
     Narrowly(Call("k9", CreateC("posts", [title |-> Public, cost |-> Public,
                                           lead |-> Required])))}

SchemaRaceCalls ==
    {CreatePages,
     Call("k2", UpdateC("pages", 1, Reclassified)),
     Call("k3", UpdateC("pages", 1, Extended)),
     CreateHome,
     Call("k6", UpdateR("pages", "home", 1, [title |-> "long", lead |-> "short"])),
     Call("k7", PublishR("pages", "home", 1))} \cup AtTheLimits

\* One record through edits, publications and withdrawals at every revision,
\* while its collection gains a required field.
Tagged == [title |-> Public, cost |-> Internal, lead |-> Required]
Secret == [cost |-> "short"]
Headline == [title |-> "short", cost |-> "long"]
Complete == [title |-> "long", lead |-> "short"]

LifecycleCalls ==
    {Call("c1", CreateC("pages", Base)),
     Call("c2", UpdateC("pages", 1, Tagged)),
     Call("r1", CreateR("pages", "home", Headline)),
     Call("s1", UpdateR("pages", "home", 1, Secret)),
     Call("u2", UpdateR("pages", "home", 2, Complete)),
     Call("u3", UpdateR("pages", "home", 3, Headline)),
     Call("p1", PublishR("pages", "home", 1)),
     Call("p2", PublishR("pages", "home", 2)),
     Call("p3", PublishR("pages", "home", 3)),
     Call("w2", UnpublishR("pages", "home", 2)),
     Call("w3", UnpublishR("pages", "home", 3))}

\* The same request under two keys, two requests under one key, two actors,
\* and time enough for receipts to expire twice.
Renamed == [title |-> Public]
ByBruno(request) == [request EXCEPT !.actor = "bruno"]

RetryCalls ==
    {Call("k1", CreateC("pages", Base)),
     Call("k2", CreateC("pages", Base)),
     Call("k1", UpdateC("pages", 1, Renamed)),
     Call("k2", UpdateC("pages", 1, Renamed)),
     Call("k1", ByBruno(UpdateC("pages", 2, Base))),
     Call("k1", CreateR("pages", "home", [title |-> "short"]))}
=============================================================================
