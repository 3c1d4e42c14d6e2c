SPECIFICATION Spec
CONSTANTS
    U32_MAX = 60
    NaN = NaN
    LongEdgeMax = 9
    MAX_BYTES = 2
    MAX_DIMENSION = 8
    WebpLimit = 7
    DefaultPolicy <- SmallDefault
    InputBytes = {2, 3}
    InputSides <- SmallSides
    Texts <- SmallTexts
INVARIANTS
    TypeOK
    PolicyAsAsked
    ReportedPolicyReparses
    NeverEnlarged
    FitsItsBox
    AspectKept
    TargetIsExact
    TargetHalfReached
    
    SingleKindTellsStage
    PanicTakesHugeSide
    AlphaReachesOutput
CHECK_DEADLOCK FALSE
