SPECIFICATION AliasSpec
CONSTANTS
    Argument <- Words
    MaxArguments = 5
    Dashed <- Dashes
    Slashed = {"/dir"}
    Number <- Numbers
    FitWord = {"fit=cover"}
    FitMode = {"fit=cover"}
    LongEdge = {"long-edge=8"}
    Legacy = {"none"}
    I32_MAX = 9
    MaxForwarded = 3
    Signal = {6, 9}
INVARIANTS
    TypeOK
    AcceptsWellFormed
    LastOptionWins
    ReportsAvoidStdout
    ExitCodeTellsGate
    ForwarderTellsHowItEnded
CHECK_DEADLOCK FALSE
