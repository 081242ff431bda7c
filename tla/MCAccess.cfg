SPECIFICATION FairSpec
CONSTANTS
    m1 = m1
    s1 = s1
    r1 = r1
    r2 = r2
    r3 = r3
    c1 = c1
    c2 = c2
    None = None
    Member = {m1}
    Service = {s1}
    Request = {r1, r3}
    Call = {c1}
    UserOf <- MCUserOf
    ServiceOf <- MCServiceOf
    KindOf <- MCKindOf
    EndDates = {None, 1}
    MaxTime = 1
    MaxVersion = 3
INVARIANTS
    TypeOK
    LogsAreComplete
    EndedAccessIsReminded
    DisabledHoldNoAccess
PROPERTIES
    LapseIsRecorded
