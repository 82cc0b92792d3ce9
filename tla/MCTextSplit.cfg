SPECIFICATION Spec
CONSTANTS
    Limits = {0, 1, 2, 3, 4}
    MaxLength = 6
INVARIANTS Lossless PiecesFit RunesKept
CHECK_DEADLOCK FALSE
