SPECIFICATION FairSpec
CONSTANTS
    k1 = k1
    k2 = k2
    k3 = k3
    v1 = v1
    v2 = v2
    Keys = {k1, k2, k3}
    Vals = {v1, v2}
    Draws <- MCDraws
    NoVal = NoVal
    NumTxs = 3
    MaxAttempts = 2
    Faults = {"drop", "exec", "rpc", "slow"}
INVARIANT TypeOK
INVARIANT SeenIsCommitted
INVARIANT SeenInOrder
INVARIANT ReportsWhenDone
PROPERTY Countdown
PROPERTY Ends
