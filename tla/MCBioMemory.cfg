\* Three cells of two bytes; blocks of one to three cells, and a replica count too many.
SPECIFICATION Spec
CONSTANTS
    Cells = 3
    CellSize = 2
    CellWord = 8
    ZeroBase = FALSE
    PressureShare = 2
    MaxReplicas = 2
    MaxAllocations = 2
    Sizes = {1, 3}
    Counts = {0, 1, 2, 3}
    Values = {1, 2}
    MaxReads = 1
INVARIANTS Exclusive NoLeak RecordsAgree ReadsBack
