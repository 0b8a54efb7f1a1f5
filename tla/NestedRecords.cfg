SPECIFICATION Spec
CONSTANTS
    MaxFields = 5
    MaxDepth = 4
    Missing = Missing
    Null = Null
    SchemaCases <- NestedSchemas
    DataCases <- NestedDatas
    Absent = Absent
    Definitions <- NestedDefinitions
    Values <- NestedValues
    DefinitionHeight <- HeightOfDefinition
    ValueHeight <- HeightOfValue
INVARIANTS
    LimitsHold
    OnlyPublicShown
    ValidationDecides
PROPERTIES
    EveryPublicShown
