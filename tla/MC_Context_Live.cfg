\* sessions over three objects: chunks, progress, and an end to every call
CONSTANTS
    t1 = t1
    t2 = t2
    t3 = t3
    Threads = {t1, t2}
    NumObjects = 3
    Values = {0}
    InitData <- AllZero
    NoValue = NoValue
    Scopes <- WideScopes
    Ops <- MixedOps
    Bufs = {1}
    NoBuf = NoBuf
    UnknownIds <- OneUnknownId
    CallersCheckFormat = TRUE
    CallersKeepBuffer = TRUE
SPECIFICATION FairSpec
INVARIANTS
    ProgressiveExportComplete
    ContinuationKeepsLock
PROPERTIES
    CallsReturn
    LockComesFree
