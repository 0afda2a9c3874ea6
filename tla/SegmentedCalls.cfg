\* Every launch path over small batches: chunks of two, subgroups of two.
SPECIFICATION Spec
CONSTANTS
    I32Limit = 8
    WarpMax = 1
    ChunkMax = 2
    Subgroup = 2
    Slots = 2
    MultiProcessors = 2
    ValueCount = 6
    Words <- MCWords
    FirstWords <- MCFirstWords
    MaxSegments = 3
    Batches <- MCBatches
    Features = {0, 1, 5}
    TaskLists <- MCTaskLists
    MaxFaults = 2
    MaxLaunches = 2
INVARIANTS
    LeasesReturned
    QueuedWorkKeepsItsMemory
    WritesAreCounted
    FirstErrorRaised
    RefusalTouchesNothing
    BothFormsAgree
    ResultRight
    AccessInBounds
    GradientUsesForwardOffsets
CHECK_DEADLOCK FALSE
