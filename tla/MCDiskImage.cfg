SPECIFICATION Spec
CONSTANTS
    n1 = n1
    n2 = n2
    x1 = x1
    y1 = y1
    Name = {n1, n2}
    Byte = {x1, y1}
    MAX_FILES = 4
    UINT8 = 3
    BITS = 4
    BLOCKS = 7
    DIRECT = 2
    INDIRECT = 2
    ENTRIES = 3
    MAX_CRASHES = 1
SYMMETRY Symmetry
INVARIANTS
    CrashSafe
    Durable
    NothingLost
\* The behaviour ends where a crash leaves the disk torn.
CHECK_DEADLOCK FALSE
