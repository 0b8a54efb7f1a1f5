SPECIFICATION Spec
CONSTANTS
    Collections = {"pages", "posts"}
    Records = {"home", "about"}
    Fields = {"title", "cost", "lead"}
    Values = {"short", "long"}
    Keys = {"k1", "k2", "k3", "k4", "k5", "k6", "k7", "k8", "k9"}
    Actors = {"ana"}
    Calls <- SchemaRaceCalls
    MaxRevision = 2
    Absent = Absent
    Invocations = {i1, i2}
    ReceiptTTL = 2
    Timeout = 1
    MaxClock = 0
SYMMETRY InvocationSymmetry
INVARIANTS
    TypeOK
    CountersExact
    SnapshotsTrue
    PublicFieldsStillPublic
PROPERTIES
    ImplementsContract
    ActsUnderItsPolicy
