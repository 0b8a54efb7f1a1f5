SPECIFICATION FairListSpec
CONSTANTS
    Collections = {1, 2}
    Records = {1, 2, 3}
    Fields = {"title"}
    Values = {"text"}
    Keys = {"k"}
    Actors = {"ana"}
    Calls <- CallCases
    MaxRevision = 3
    Absent = Absent
    Listings <- Lists
    PolicyVersions = {"p1", "p2"}
    MaxPageSize <- PageSizeOf
    PageSizes = {Absent, 1}
    DefaultPage = 2
INVARIANTS
    ShownInOrder
    WalkComplete
PROPERTIES
    WalksEnd
    OneListingPerWalk
