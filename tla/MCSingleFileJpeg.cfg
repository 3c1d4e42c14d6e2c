SPECIFICATION Spec
CONSTANTS
    Chunks = 3
    MAX_STDIN_BYTES = 4
    Quality = {50, 85}
    DefaultQuality = 85
    JpegOptions = {"default", "tuned"}
    DefaultJpeg = "default"
    InputSizes <- SizesAroundLimit
    Messages <- FewMessages
INVARIANT
    JpegOptionsReachEncoder
CHECK_DEADLOCK FALSE
