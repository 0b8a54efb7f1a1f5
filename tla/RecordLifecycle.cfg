SPECIFICATION Spec
CONSTANTS
    Collections = {"pages"}
    Records = {"home"}
    Fields = {"title", "cost", "lead"}
    Values = {"short", "long"}
    Keys = {"c1", "c2", "r1", "s1", "u2", "u3", "p1", "p2", "p3", "w2", "w3"}
    Actors = {"ana"}
    Calls <- LifecycleCalls
    MaxRevision = 4
    Absent = Absent
    Invocations = {i1, i2}
    ReceiptTTL = 2
    Timeout = 1
    MaxClock = 0
SYMMETRY InvocationSymmetry
INVARIANTS
    HistoryComplete
    PublicationMatchesRecord
    RevisionsConform
    NoLostUpdate
PROPERTIES
    HistoryImmutable
