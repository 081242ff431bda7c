SPECIFICATION Spec
CONSTANTS
    m1 = m1
    s1 = s1
    s2 = s2
    t1 = t1
    t2 = t2
    a1 = a1
    a2 = a2
    g1 = g1
    g2 = g2
    x1 = x1
    x2 = x2
    None = None
    NoRule = NoRule
    Member = {m1}
    Admin = {}
    Audience = {{}, {m1}}
    Service = {s1, s2}
    Target = {t1, t2}
    Device = {a1, a2}
    Grant = {g1, g2}
    Dest = {x1, x2}
    OwnerOf <- MCOwnerOf
    DeviceOf <- MCDeviceOf
    TargetOf <- MCTargetOf
    ServiceOf <- MCServiceOf
    MaxDevices = 1
    MaxActive = 1
    PackLife = 1
    MaxLife = 1
    Fresh = 0
    MaxTime = 1
    MaxTargetVersion = 2
INVARIANTS
    TypeOK
    RetiredHoldNothing
    HistoryIsComplete
    PolicyServable
PROPERTIES
    ApprovedAsReviewed
    PermissionLifecycle
CONSTRAINT
    OneIsEdited
