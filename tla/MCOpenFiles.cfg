SPECIFICATION Spec
CONSTANTS
    p1 = p1
    p2 = p2
    f1 = f1
    NULL = NULL
    Process = {p1, p2}
    Name = {f1}
    MAX_INODES = 1
    MAX_FILE_OPEN = 3
    MAX_FDS = 2
    MAX_CACHED = 2
    MAX_PIPES = 1
    MAX_COUNT = 3
    MAX_HURT = 1
SYMMETRY Symmetry
INVARIANTS
    Covered
    Accounted
    
    OneWriter
    NoFault
PROPERTY
    DescriptorsKeep
\* A fault stops the machine, and lost slots fill the table.
CHECK_DEADLOCK FALSE
