SPECIFICATION Spec
CONSTANTS
    MaxFields = 5
    MaxDepth = 4
    Missing = Missing
    Null = Null
    SchemaCases <- TableSchemas
    DataCases <- TableDatas
    Absent = Absent
    Definitions <- TableDefinitions
    Values <- TableValues
    DefinitionHeight <- HeightOfDefinition
    ValueHeight <- HeightOfValue
INVARIANTS
    OnlyPublicShown
