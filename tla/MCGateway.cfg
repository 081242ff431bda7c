SPECIFICATION FairSpec
CONSTANTS
    d1 = d1
    d2 = d2
    NoRule = NoRule
    Rule <- MCRule
    CmdTimeout = 1
    MaxTime = 4
    MaxFaults = 2
INVARIANTS
    TypeOK
    AppliedIsEnforced
    ExpiryIsEnforced
PROPERTIES
    OnlyPersistedIsInstalled
    PeersChangeUnderDeny
    LocalRepair
