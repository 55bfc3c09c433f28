SPECIFICATION FairSpec
CONSTANTS
    r1 = r1
    r2 = r2
    idle = idle
    NULL = NULL
    Thread <- ThreadsUsed
    idle_thread = idle
    Priority <- NoSlice
    Reader = {r1, r2}
    Char = {"a", "b"}
    bufsize = 4
INVARIANTS
    SleepersReachable
PROPERTY
    IsFifo
    ReaderServed
