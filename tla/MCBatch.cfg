SPECIFICATION Spec
CONSTANTS
    a = a
    b = b
    c = c
    Image = {a, b, c}
    Stem <- StemDistinct
    Size <- SizeDistinct
    Threads = 2
    MaxRuns = 3
    Foreign = Foreign
    Hole = Hole
INVARIANTS
    TypeOK
    NoImageLost
    ExitZeroMeansConverted
    TotalMatchesDisk
PROPERTY
    StoreSpec
CHECK_DEADLOCK FALSE
