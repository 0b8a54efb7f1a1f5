----------------------- MODULE MCSessionAuthorization -----------------------
(***************************************************************************)
(* One user with one session for TLC, while the space is disabled, the     *)
(* domain moves to another draft, of the same tenant or of another one.    *)
(***************************************************************************)
EXTENDS SessionAuthorization

TenantCases == [d1 |-> "t1", d2 |-> "t1", d3 |-> "t2"]

SpaceItem(status) ==
    [status |-> status, profile |-> "staff", capabilities |-> {"read", "write"}]

ProfileItem(tenant, admins, allowed) ==
    [id |-> "staff", status |-> "active", tenant |-> tenant, environment |-> Absent,
     adminGroups |-> admins, allowedGroups |-> allowed]

Package(draft, space, profile) ==
    [environment |-> "production", draft |-> draft, spaces |-> space, registry |-> profile]

PackageCases ==
    [v1 |-> Package("d1", SpaceItem("active"), ProfileItem("t1", {"admin"}, {})),
     v2 |-> Package("d1", SpaceItem("disabled"), ProfileItem("t1", {"admin"}, {})),
     v3 |-> Package("d2", SpaceItem("active"), ProfileItem("t1", {"admin", "editor"}, {"editor"})),
     v4 |-> Package("d3", SpaceItem("active"), ProfileItem("t2", {"admin"}, {}))]

Item(draft, v) ==
    [scope |-> draft, published |-> [version |-> v, prefix |-> v],
     environments |-> [test |-> Absent, production |-> Absent]]

Items == {Item("d1", "v1"), Item("d1", "v2"), Item("d2", "v3"), Item("d3", "v4")}

Asks == {[environment |-> "production", auth |-> TRUE, draft |-> Absent]}

CallCases ==
    {[capability |-> "read", mutation |-> FALSE, profile |-> "staff",
      header |-> Absent, cookie |-> Absent],
     [capability |-> "write", mutation |-> TRUE, profile |-> "staff",
      header |-> "token", cookie |-> "token"],
     [capability |-> "write", mutation |-> TRUE, profile |-> "staff",
      header |-> "other", cookie |-> "other"]}

Sessions ==
    {[revoked |-> FALSE, expiresAt |-> 3, sessionVersion |-> 1, profile |-> "staff",
      environment |-> "production", tenant |-> "t1", csrf |-> "token"]}

User(enabled, roles, version) ==
    [enabled |-> enabled, approved |-> TRUE, roles |-> roles, sessionVersion |-> version]

Users ==
    {User(TRUE, {"admin"}, 1), User(TRUE, {"editor"}, 1), User(FALSE, {"admin"}, 1),
     User(TRUE, {"admin"}, 2)}
=============================================================================
