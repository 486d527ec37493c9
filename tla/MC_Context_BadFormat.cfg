\* callers may pass a format thingset_export_subsets has no case for
CONSTANTS
    t1 = t1
    t2 = t2
    t3 = t3
    Threads = {t1, t2}
    NumObjects = 2
    Values = {0}
    InitData <- AllZero
    NoValue = NoValue
    Scopes <- TwoSubsets
    Ops <- ExportOps
    Bufs = {1}
    NoBuf = NoBuf
    UnknownIds <- NoIds
    CallersCheckFormat = FALSE
    CallersKeepBuffer = TRUE
SPECIFICATION Spec
INVARIANTS
    NoLockLeak
