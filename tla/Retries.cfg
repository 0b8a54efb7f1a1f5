SPECIFICATION Spec
CONSTANTS
    Collections = {"pages"}
    Records = {"home"}
    Fields = {"title", "cost", "lead"}
    Values = {"short", "long"}
    Keys = {"k1", "k2"}
    Actors = {"ana", "bruno"}
    Calls <- RetryCalls
    MaxRevision = 3
    Absent = Absent
    Invocations = {i1, i2}
    ReceiptTTL = 2
    Timeout = 1
    MaxClock = 4
SYMMETRY InvocationSymmetry
INVARIANTS
    KeyNamesOneMutation
    EveryMutationAudited
    AnswersAreTrue
    OutcomesAreKept
PROPERTIES
    AppliedAtMostOnce
