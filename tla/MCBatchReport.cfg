SPECIFICATION ReportSpec
CONSTANTS
    a = a
    b = b
    c = c
    Image = {a, b, c}
    Stem <- StemShared
    Size <- SizeShared
    Threads = 2
    MaxRuns = 1
    Foreign = Foreign
    Hole = Hole
    Bytes <- LineLength
    MAX_EINTR_RETRIES = 0
    MAX_EAGAIN_RETRIES = 0
    Newline = Newline
    Nobody = Nobody
INVARIANTS
    ReportTypeOK
    FailedKeepsSource
    SummaryAccounts
    RecordsTellTheTruth
    StreamMatchesSummary
PROPERTY
    RunEnds
CHECK_DEADLOCK FALSE
