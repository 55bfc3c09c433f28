SPECIFICATION Spec
CONSTANTS
    f1 = f1
    f2 = f2
    NULL = NULL
    File = {f1, f2}
    Block = {1, 2, 3, 4, 5, 6}
    BLOCK_SIZE = 2
    NDirect = 2
    NIndirect = 2
    WriteSizes = {0, 1, 3}
    ReadSizes = {3}
    Offsets = {0}
    MaxOpen = 1
    Word = 64
SYMMETRY Symmetry
\* A panic stops the machine.
CHECK_DEADLOCK FALSE
INVARIANTS
    BlocksAccounted
    AssertedUnlessTorn
PROPERTY
    ReadsBack
