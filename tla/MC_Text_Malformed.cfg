\* what is no JSON, after a message of three tokens
CONSTANTS
    Objects <- MCObjects
    Type <- MCType
    Modulus <- MCModulus
    Capacity <- MCCapacity
    Writable <- MCWritable
    Parameters <- MCParameters
    InitData <- MCInitData
    MaxLong = 15
    MaxTokens = 8
    Messages <- TwoNumbers
    Broken = {TRUE}
    Left = {3}
    StaleTokens <- MCStale
    Entries = {"record"}
SPECIFICATION Spec
INVARIANTS
    MalformedIsRefused
