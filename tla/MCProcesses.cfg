SPECIFICATION FairSpec
CONSTANTS
    i = i
    m = m
    idle = idle
    c1 = c1
    c2 = c2
    c3 = c3
    Thread <- ThreadsUsed
    init = i
    main = m
    idle_thread = idle
    Slot = {c1, c2, c3}
    Priority <- NoSlice
    KernelPages = 12
    PG_SIZE = 2
    BtmpLen = 3
\* After a page fault the machine stops.
CHECK_DEADLOCK FALSE
INVARIANTS
    NoPanic
    ReadyList
    PidsUnique
    ParentAlive
PROPERTY
    WaitReturns
