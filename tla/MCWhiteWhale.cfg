SPECIFICATION Spec
CONSTANTS
    r1 = r1
    a1 = a1
    Runs = {r1}
    Accounts = {a1}
    Names <- WhiteWhaleNames
    Fields <- WhiteWhaleFields
    Faults = {"drop", "exec", "ante", "rpc", "slow", "kill"}
    MaxNested = 0
    MaxPolls = 2
    NoTx = NoTx
    NoSalt = NoSalt
    Signer <- WhiteWhaleSigner
    Plan <- WhiteWhalePlan
    Salts <- WhiteWhaleSalts
INVARIANT FollowsDiagram
