SPECIFICATION Spec
CONSTANTS
    p1 = p1
    p2 = p2
    n1 = n1
    n2 = n2
    NULL = NULL
    Process = {p1, p2}
    Name = {n1, n2}
    Inode = {0, 1, 2}
    Block = {0, 1, 2}
    MaxDepth = 2
    MaxOpen = 2
    MaxRefs = 1
SYMMETRY Symmetry
\* An ASSERT that fails stops the machine.
CHECK_DEADLOCK FALSE
INVARIANTS
    
    
    GetcwdResolves
PROPERTY
    ImplementsTree
