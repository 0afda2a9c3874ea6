\* Two threads and two streams, a launch may also fail during a capture.
SPECIFICATION Spec
CONSTANTS
    Threads = {t1, t2}
    Streams = {s1, s2}
    Home = s1
    NoStream = NoStream
    MaxLaunches = 3
    MaxEdits = 1
    CaptureFaults = TRUE
INVARIANTS
    OneStreamUsesScratch
SYMMETRY Symmetry
CHECK_DEADLOCK FALSE
