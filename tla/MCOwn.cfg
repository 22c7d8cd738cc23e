SPECIFICATION FairSpec
CONSTANTS
    r1 = r1
    r2 = r2
    a1 = a1
    a2 = a2
    lair = lair
    vault = vault
    factory = factory
    Runs = {r1, r2}
    Accounts = {a1, a2}
    Names = {lair, vault, factory}
    Faults = {"drop", "exec", "ante", "rpc", "slow", "kill"}
    MaxNested = 0
    MaxPolls = 2
    NoTx = NoTx
    NoSalt = NoSalt
    Signer <- OwnSigner
    Fields <- MCFields
    Plan <- MCPlan
    Salts <- MCSalts
INVARIANT CurrentSequence
INVARIANT AtMostOnce
PROPERTY Countdown
PROPERTY Terminates
