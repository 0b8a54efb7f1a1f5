SPECIFICATION FairSpec
CONSTANTS
    Containers = {"c1"}
    Drafts = {"d1", "d2"}
    Versions = {"v1", "v2", "v3"}
    Packages <- PackageCases
    MetadataCases <- Items
    Requests <- Asks
    Absent = Absent
INVARIANTS
    TypeOK
    CacheSound
    AnswersFit
PROPERTIES
    ImplementsService
    NewPolicyTakesHold
