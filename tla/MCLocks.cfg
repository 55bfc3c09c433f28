SPECIFICATION FairSpec
CONSTANTS
    p1 = p1
    p2 = p2
    main = main
    idle = idle
    NULL = NULL
    Thread <- ThreadsUsed
    idle_thread = idle
    Priority <- NoSlice
    Lock = {hd}
    Process = {p1, p2}
    Kthread = {main}
    MaxWork = 2
INVARIANTS
    NoPanic
    OneList
    MutualExclusion
    Serialized
    NoLostWakeup
    OneCompletion
PROPERTY
    ImplementsMutex
    LockReturned
