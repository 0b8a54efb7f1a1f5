SPECIFICATION FairClientSpec
CONSTANTS
    Collections = {"pages"}
    Records = {"home"}
    Fields = {"title"}
    Values = {"text"}
    Keys = {"k1", "k3"}
    Actors = {"ana"}
    Calls <- TwoPolicies
    MaxRevision = 2
    Absent = Absent
    Invocations = {"i1", "i2"}
    ReceiptTTL = 2
    Timeout = 1
    MaxClock = 3
    MaxFailures = 1
INVARIANTS
    RefusalsAreTrue
PROPERTIES
    EveryClientIsAnswered
CHECK_DEADLOCK FALSE
