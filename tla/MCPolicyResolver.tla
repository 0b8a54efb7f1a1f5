-------------------------- MODULE MCPolicyResolver --------------------------
(***************************************************************************)
(* One domain for TLC: a version published, replaced, moved to another     *)
(* draft and to the other environment, and metadata the resolver refuses.  *)
(***************************************************************************)
EXTENDS PolicyResolver

Package(environment, draft, spaces, registry) ==
    [environment |-> environment, draft |-> draft, spaces |-> spaces, registry |-> registry]

\* v2 has no valid registry, v3 is a package for the test environment.
PackageCases ==
    [v1 |-> Package("production", "d1", "valid", "valid"),
     v2 |-> Package("production", "d1", "valid", Absent),
     v3 |-> Package("test", "d1", "valid", "valid")]

Pointer(v) == [version |-> v, prefix |-> v]

Item(draft, published, test, production) ==
    [scope |-> draft, published |-> published,
     environments |-> [test |-> test, production |-> production]]

Items ==
    {Item("d1", Pointer("v1"), Pointer("v3"), Absent),
     Item("d1", Absent, Pointer("v1"), Pointer("v2")),
     Item("d1", Pointer("v3"), Absent, Pointer("v1")),
     Item("d2", Pointer("v1"), Pointer("v3"), Absent),
     Item("d1", [version |-> "v1", prefix |-> "v2"], Absent, Pointer("v1")),
     Item(Absent, Pointer("v1"), Absent, Absent),
     Absent}

Asks ==
    [environment : {"production"}, auth : BOOLEAN, draft : {Absent}]
        \cup [environment : {"test"}, auth : {TRUE}, draft : {"d1"}]
=============================================================================
