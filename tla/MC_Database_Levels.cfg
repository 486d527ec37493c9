\* items in G/S, H and H/T, one after the other
CONSTANTS
    Databases <- TwoBranches
    Buckets = 3
    MaxDepth = 4
    Paths <- MCPaths
    PathsId = 23
    MetadataId = 25
    MaxChanges = 1
    SizeModulus = 1024
    RspSizes = {50}
    HeaderLengths = {0}
    Lengths = {4}
    ErrorCodes = {225}
SPECIFICATION Spec
CHECK_DEADLOCK FALSE
INVARIANTS
    TwoLevelsSupported
