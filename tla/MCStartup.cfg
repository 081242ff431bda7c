SPECIFICATION FairSpec
CONSTANTS
    old = old
    new = new
    cli = cli
    None = None
    Process = {old, new, cli}
    Server = {old, new}
    Supported <- MCSupported
    VPNEnabled = TRUE
    MaxKeys = 6
    MaxFaults = 4
INVARIANTS
    LedgerIsTrue
    OpensMigrated
    SealedIsReadable
PROPERTIES
    ComesUp
