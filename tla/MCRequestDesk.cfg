SPECIFICATION Spec
CONSTANTS
    m1 = m1
    s1 = s1
    r1 = r1
    r2 = r2
    r3 = r3
    c1 = c1
    c2 = c2
    None = None
    Member = {m1}
    Service = {s1}
    Request = {r1}
    Call = {c1, c2}
    UserOf <- MCUserOf
    ServiceOf <- MCServiceOf
    KindOf <- MCKindOf
    EndDates = {None}
    MaxTime = 0
    MaxVersion = 4
PROPERTIES
    MovesAreLegal
SYMMETRY CallSymmetry
