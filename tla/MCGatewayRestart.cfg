SPECIFICATION RSpec
CONSTANTS
    d1 = d1
    d2 = d2
    NoRule = NoRule
    Rule <- MCRule
    CmdTimeout = 1
    MaxTime = 1
    MaxFaults = 2
PROPERTIES
    ReceivedRevocationHolds
