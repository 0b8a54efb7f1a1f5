---------------------------- MODULE MCRecordReads ----------------------------
(***************************************************************************)
(* One record for TLC, edited, published, withdrawn and published again by *)
(* two concurrent invocations, and the reads of it.                        *)
(***************************************************************************)
EXTENDS RecordReads, TLC

InvocationSymmetry == Permutations(Invocations)

AnyPolicy == [maxCollections |-> 1, maxFields |-> 2, maxRecords |-> 1, maxBytes |-> 2,
              allowed |-> Classifications]

Field(classification) ==
    [classification |-> classification, required |-> FALSE, accepts |-> {"short", "long"}]

\* The fields of a call on the one record.
Call(key, action, fields) ==
    [key |-> key, policy |-> AnyPolicy,
     request |-> fields @@ [action |-> action, actor |-> "ana", collection |-> "pages"]]

Home(more) == more @@ [record |-> "home"]

CallCases ==
    {Call("c1", "createCollection",
          [schema |-> [title |-> Field("public"), cost |-> Field("internal")]]),
     Call("r1", "createRecord", Home([data |-> [title |-> "short", cost |-> "long"]])),
     Call("u1", "updateRecord", Home([expected |-> 1, data |-> [title |-> "long"]])),
     Call("u2", "updateRecord", Home([expected |-> 2, data |-> [title |-> "long"]])),
     Call("p1", "publishRecord", Home([expected |-> 1])),
     Call("w2", "unpublishRecord", Home([expected |-> 2])),
     Call("p3", "publishRecord", Home([expected |-> 3]))}

Space(status, publicRead, maxFields) ==
    [status |-> status, publicRead |-> publicRead, maxFields |-> maxFields]

Spaces == {Space("active", TRUE, 1), Space("active", FALSE, 2), Space("disabled", TRUE, 2)}
=============================================================================
