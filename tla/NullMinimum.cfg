SPECIFICATION Spec
CONSTANTS
    MaxFields = 5
    MaxDepth = 4
    Missing = Missing
    Null = Null
    SchemaCases <- NullSchemas
    DataCases <- NumberDatas
    Absent = Absent
    Definitions <- NullDefinitions
    Values <- NumberValues
    DefinitionHeight <- HeightOfDefinition
    ValueHeight <- HeightOfValue
INVARIANTS
    ValidationDecides
