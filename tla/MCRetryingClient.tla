-------------------------- MODULE MCRetryingClient --------------------------
(***************************************************************************)
(* Two clients for TLC: one creates the collection, one changes its        *)
(* schema, so that each may be refused for what the other has not done;    *)
(* the policy may forbid the change before it is sent again.               *)
(***************************************************************************)
EXTENDS RetryingClient

Limits(fields) ==
    [maxCollections |-> 1, maxFields |-> fields, maxRecords |-> 1, maxBytes |-> 1,
     allowed |-> Classifications]

Call(key, request, fields) == [key |-> key, request |-> request, policy |-> Limits(fields)]

Title(required) ==
    [title |-> [classification |-> "public", required |-> required, accepts |-> {"text"}]]

CreatePages ==
    Call("k1", [action |-> "createCollection", actor |-> "ana", collection |-> "pages",
                schema |-> Title(TRUE)], 1)

ChangePages(fields) ==
    Call("k3", [action |-> "updateCollection", actor |-> "ana", collection |-> "pages",
                expected |-> 1, schema |-> Title(FALSE)], fields)

TwoPolicies == {CreatePages, ChangePages(1), ChangePages(0)}
=============================================================================
