SPECIFICATION ReceiptSpec
CONSTANTS
    Keys = {1, 2}
    Submissions = {s1, s2}
    TX_HISTORY_DEPTH = 2
    NoKey = NoKey
INVARIANTS
    PaidOnce
