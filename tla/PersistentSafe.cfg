\* Two threads and two streams, every failure but one during a capture.
SPECIFICATION Spec
CONSTANTS
    Threads = {t1, t2}
    Streams = {s1, s2}
    Home = s1
    NoStream = NoStream
    MaxLaunches = 3
    MaxEdits = 1
    CaptureFaults = FALSE
INVARIANTS
    TasksUploadedFirst
    VersionsInStep
PROPERTIES
    ImplementsScratchOwner
SYMMETRY Symmetry
CHECK_DEADLOCK FALSE
