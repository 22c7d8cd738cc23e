SPECIFICATION Spec
CONSTANTS
    r1 = r1
    r2 = r2
    a1 = a1
    a2 = a2
    lair = lair
    vault = vault
    factory = factory
    Runs = {r1, r2}
    Accounts = {a1}
    Names = {lair, vault, factory}
    Faults = {"drop", "exec", "ante", "rpc", "slow", "kill"}
    MaxNested = 1
    MaxPolls = 2
    NoTx = NoTx
    NoSalt = NoSalt
    Signer <- SharedSigner
    Fields <- MCFields
    Plan <- MCPlan
    Salts <- MCSalts
INVARIANT TypeOK
INVARIANT NoSequenceGap
PROPERTY AdvanceOnlyAfterCommit
PROPERTY ImplementsDeployment
