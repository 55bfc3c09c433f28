SPECIFICATION Spec
CONSTANTS
    n1 = n1
    n2 = n2
    n3 = n3
    n4 = n4
    NULL = NULL
    Name = {n1, n2, n3, n4}
    Block = {1, 2, 3, 4, 5, 6}
    ENTRIES = 2
    NDirect = 2
    NIndirect = 2
SYMMETRY Symmetry
\* A reader at the end of a directory that nothing can be added to.
CHECK_DEADLOCK FALSE
INVARIANTS
    Accounted
    ReadsAll
    
