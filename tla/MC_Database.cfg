\* lookup, iteration and nested reports over all small databases
CONSTANTS
    Databases <- MCDatabases
    Buckets = 3
    MaxDepth = 4
    Paths <- MCPaths
    PathsId = 23
    MetadataId = 25
    MaxChanges = 1
    SizeModulus = 1024
    RspSizes = {14, 50}
    HeaderLengths = {0, 14, 50}
    Lengths = {4, 7}
    ErrorCodes = {175, 225}
SPECIFICATION Spec
CHECK_DEADLOCK FALSE
INVARIANTS
    TypeOK
    LookupFindsFirst
    PathsLeadBack
    FoundIsNamed
    IdsFindAllButParts
    IterationIsComplete
    WellFormed
    ItemsUnderTheirPaths
    EveryMemberOnce
    EndsInside
