SPECIFICATION Spec
CONSTANTS
    Chunks = 3
    MAX_STDIN_BYTES = 4
    Quality = {50, 85}
    DefaultQuality = 85
    JpegOptions = {"default", "tuned"}
    DefaultJpeg = "default"
    InputSizes <- SizesAroundLimit
    Messages <- SomeMessages
INVARIANTS
    TypeOK
    OneReport
    SuccessIsDelivered
    StdoutOnlyAfterEncode
    ReportNeverExceeds
    ReportedQualityIsUsed
    MessageIsReadBack
CHECK_DEADLOCK FALSE
