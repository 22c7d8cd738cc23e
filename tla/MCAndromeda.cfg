SPECIFICATION FairSpec
CONSTANTS
    r1 = r1
    a1 = a1
    Runs = {r1}
    Accounts = {a1}
    Names <- AndromedaNames
    Fields <- AndromedaFields
    Faults = {"drop", "exec", "ante", "rpc", "slow", "kill"}
    MaxNested = 1
    MaxPolls = 2
    NoTx = NoTx
    NoSalt = NoSalt
    Signer <- AndromedaSigner
    Plan <- AndromedaPlan
    Salts <- AndromedaSalts
INVARIANT FollowsReadme
PROPERTY ActsAsDeployer
PROPERTY Countdown
PROPERTY EveryRunEnds
