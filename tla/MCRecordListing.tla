-------------------------- MODULE MCRecordListing --------------------------
(***************************************************************************)
(* Three records of one collection for TLC, each of them created,          *)
(* published and withdrawn once.                                           *)
(***************************************************************************)
EXTENDS RecordListing

AnyPolicy == [maxCollections |-> 2, maxFields |-> 1, maxRecords |-> 3, maxBytes |-> 1,
              allowed |-> Classifications]

Call(request) == [key |-> "k", request |-> request, policy |-> AnyPolicy]

Title == [title |-> [classification |-> "public", required |-> FALSE, accepts |-> {"text"}]]

CallCases ==
    {Call([action |-> "createCollection", actor |-> "ana", collection |-> c, schema |-> Title]) :
        c \in Collections}
    \cup
    {Call([action |-> "createRecord", actor |-> "ana", collection |-> 1, record |-> r,
           data |-> [title |-> "text"]]) : r \in Records}
    \cup
    {Call([action |-> "publishRecord", actor |-> "ana", collection |-> 1, record |-> r,
           expected |-> 1]) : r \in Records}
    \cup
    {Call([action |-> "unpublishRecord", actor |-> "ana", collection |-> 1, record |-> r,
           expected |-> 2]) : r \in Records}

Lists == {[kind |-> "collections", collection |-> Absent]}
            \cup [kind : {"records", "public-records"}, collection : {1}]

PageSizeOf == [p1 |-> 2, p2 |-> 1]
=============================================================================
