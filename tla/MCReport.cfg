SPECIFICATION FairSpec
CONSTANTS
    r1 = r1
    r2 = r2
    r3 = r3
    Record = {r1, r2, r3}
    Bytes <- BytesOfThree
    MAX_EINTR_RETRIES = 1
    MAX_EAGAIN_RETRIES = 1
    Newline = Newline
    Nobody = Nobody
INVARIANTS
    TypeOK
    NoInterleaving
    DamageIsContained
PROPERTY
    EveryCallReturns
CHECK_DEADLOCK FALSE
