SPECIFICATION NetSpec
CONSTANTS
    m1 = m1
    s1 = s1
    t1 = t1
    a1 = a1
    g1 = g1
    g2 = g2
    None = None
    NoRule = NoRule
    Member = {m1}
    Admin = {}
    Audience = {{m1}}
    Service = {s1}
    Target = {t1}
    Device = {a1}
    Grant = {g1}
    Dest = {x1}
    OwnerOf <- MCOwnerOf
    DeviceOf <- MCDeviceOf
    TargetOf <- MCTargetOf
    ServiceOf <- MCServiceOf
    MaxDevices = 1
    MaxActive = 1
    PackLife = 1
    MaxLife = 1
    Fresh = 1
    MaxTime = 1
    MaxTargetVersion = 1
    CmdTimeout = 1
    MaxFaults = 0
INVARIANTS
    ConfirmedMeansRemoved
