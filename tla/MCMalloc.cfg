SPECIFICATION Spec
CONSTANTS
    NULL = NULL
    NPages = 4
    NFrames = 3
    Units = 2
    Sizes = {1, 2}
    LargeCnts = {2}
\* A panic stops the machine.
CHECK_DEADLOCK FALSE
INVARIANTS
    Backed
    Accounted
PROPERTY
    ImplementsHeap
