SPECIFICATION Spec
CONSTANTS
    a = a
    b = b
    c = c
    Image = {a, b}
    Stem <- StemOfTwoSame
    Size <- SizeOfTwo
    Threads = 2
    MaxRuns = 1
    Foreign = Foreign
    Hole = Hole
INVARIANT
    OutBytesIsFileLength
CHECK_DEADLOCK FALSE
