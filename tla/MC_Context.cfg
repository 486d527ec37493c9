\* every entry point, two threads
CONSTANTS
    t1 = t1
    t2 = t2
    t3 = t3
    Threads = {t1, t2}
    NumObjects = 2
    Values = {0, 1}
    InitData <- AllZero
    NoValue = NoValue
    Scopes <- TwoSubsets
    Ops <- EveryOp
    Bufs = {1}
    NoBuf = NoBuf
    UnknownIds <- OneUnknownId
    CallersCheckFormat = TRUE
    CallersKeepBuffer = TRUE
SPECIFICATION Spec
SYMMETRY ThreadSymmetry
INVARIANTS
    TypeOK
    MutualExclusion
    NoLockLeak
    BuffersCurrent
    ExportIsSnapshot
PROPERTIES
    CallsAreAtomic
    Undisturbed
