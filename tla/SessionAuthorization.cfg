SPECIFICATION AuthSpec
CONSTANTS
    Containers = {"c1"}
    Drafts = {"d1", "d2", "d3"}
    Versions = {"v1", "v2", "v3", "v4"}
    Packages <- PackageCases
    MetadataCases <- Items
    Requests <- Asks
    Absent = Absent
    Calls <- CallCases
    Tenant <- TenantCases
    SessionCases <- Sessions
    UserCases <- Users
    Timeout = 1
    MaxLag = 1
    MaxWrites = 2
    MaxClock = 3
INVARIANTS
    PolicyAge
    RevocationTakesHold
    SessionStaysHome
