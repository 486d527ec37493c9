\* a record with an item that is not known
CONSTANTS
    Objects <- MCObjects
    Type <- MCType
    Modulus <- MCModulus
    Capacity <- MCCapacity
    Writable <- MCWritable
    Parameters <- MCParameters
    InitData <- MCInitData
    MaxLong = 15
    MaxTokens = 8
    Messages <- UnknownFirst
    Broken = {FALSE}
    Left = {0}
    StaleTokens <- MCStale
    Entries = {"record"}
SPECIFICATION Spec
INVARIANTS
    UnknownIsIgnored
