SPECIFICATION ReadSpec
CONSTANTS
    Collections = {"pages"}
    Records = {"home"}
    Fields = {"title", "cost"}
    Values = {"short", "long"}
    Keys = {"c1", "r1", "u1", "u2", "p1", "w2", "p3"}
    Actors = {"ana"}
    Calls <- CallCases
    MaxRevision = 4
    Absent = Absent
    Invocations = {i1, i2}
    ReceiptTTL = 1
    Timeout = 0
    MaxClock = 0
    Callers = {"commerce", "other"}
    SnapshotRole = "commerce"
    SpaceCases <- Spaces
SYMMETRY InvocationSymmetry
INVARIANTS
    AnswersAreHistory
PROPERTIES
    ReadsMoveForward
