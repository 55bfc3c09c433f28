SPECIFICATION FairSpec
CONSTANTS
    p1 = p1
    p2 = p2
    p3 = p3
    idle = idle
    NULL = NULL
    Worker = {p1, p2, p3}
    Thread <- ThreadsUsed
    idle_thread = idle
    Priority <- Slice
    TimeLimit = 4
    SleepTicks = 2
\* A panic stops the machine.
CHECK_DEADLOCK FALSE

    
PROPERTY
    PollEnds
