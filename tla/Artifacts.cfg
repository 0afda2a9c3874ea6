\* Two runs of the writer, two directories, two threads of one loading process.
SPECIFICATION Spec
CONSTANTS
    Writers = {w1, w2}
    Threads = {t1, t2}
    Dirs = {d1, d2}
    KernelFiles <- MCKernelFiles
    Builds <- MCBuilds
    OwnText = "own"
    OwnLimits = 1
    Targets = {"sm_86"}
    MaxEdits = 2
    MaxCalls = 2
INVARIANTS
    TypeOK
    PublishedWhole
    FailedRunLeavesNothing
    ArtifactIsOneRun
    ServedKernelFits
SYMMETRY Symmetry
CHECK_DEADLOCK FALSE
