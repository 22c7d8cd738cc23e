SPECIFICATION Spec
CONSTANTS
    k1 = k1
    k2 = k2
    k3 = k3
    v1 = v1
    v2 = v2
    Keys = {k1, k2, k3}
    Vals = {v1, v2}
    Draws <- MCDraws
    NoVal = NoVal
    NumTxs = 2
    MaxAttempts = 2
    Faults = {"exec"}
INVARIANT SuccessLineIsTrue
