\* UPDATE, EXEC and the import of a record in text mode
CONSTANTS
    Objects <- MCObjects
    Type <- MCType
    Modulus <- MCModulus
    Capacity <- MCCapacity
    Writable <- MCWritable
    Parameters <- MCParameters
    InitData <- MCInitData
    MaxLong = 15
    MaxTokens = 8
    Messages <- MCMessages
    Broken = {TRUE, FALSE}
    Left = {0}
    StaleTokens <- MCStale
    Entries = {"update", "exec", "record"}
SPECIFICATION Spec
INVARIANTS
    TypeOK
    SuccessIsComplete
    TwoPassesAgree
PROPERTIES
    RecordTakesItems
    TextEnds
