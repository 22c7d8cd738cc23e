SPECIFICATION FairSpec
CONSTANTS
    MaxPolls = 30
    Faults = {"drop", "exec", "rpc", "slow"}
INVARIANT TypeOK
INVARIANT SuccessIsCommitted
INVARIANT TransferShown
INVARIANT ShowsTransfer
PROPERTY Ends
INVARIANT PassesWhenDone
PROPERTY Countdown
