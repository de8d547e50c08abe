CONSTANTS
    NumSectors = 3
    BufSectors = 1
    MaxWork = 2
    Kinds = {"read", "write"}
SPECIFICATION Spec
INVARIANT NoBlockIsLost
CHECK_DEADLOCK FALSE
