\* Every call with L <= 10, three sizes of a head, two of an element and up to 9 heads.
CONSTANTS
    NumPch = 1
    NumRank = 1
    NumBg = 2
    NumBank = 2
    NumCol = 2
    TxBytes = 2
    ValueOffset = 64
    NumChannel = 2
    Tile = 2
    MaxL = 10
    LongestL = 8
    Dheads = {1, 2, 6}
    Dbytes = {1, 2}
    MaxHeads = 9
    Inputs <- AllInputs
SPECIFICATION Spec
INVARIANTS VectorWritten
\* A script ends.
CHECK_DEADLOCK FALSE
