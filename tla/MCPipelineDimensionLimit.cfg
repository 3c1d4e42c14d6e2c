SPECIFICATION Spec
CONSTANTS
    U32_MAX = 2147483647
    NaN = NaN
    LongEdgeMax = 20000
    MAX_BYTES = 2
    MAX_DIMENSION = 16384
    WebpLimit = 16383
    DefaultPolicy <- RealDefault
    InputBytes = {2, 3}
    InputSides <- RealSides
    Texts <- RealTexts
INVARIANT
    DimensionLimitInBothModes
CHECK_DEADLOCK FALSE
