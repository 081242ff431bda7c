SPECIFICATION ScopedSpec
CONSTANTS
    u1 = u1
    u2 = u2
    t1 = t1
    t2 = t2
    c1 = c1
    c2 = c2
    h1 = h1
    h2 = h2
    k1 = k1
    l1 = l1
    NoUser = NoUser
    NoKey = NoKey
    NoToken = NoToken
    NoChallenge = NoChallenge
    NewToken = NewToken
    User = {u1, u2}
    Key = {k1}
    Token = {t1, t2}
    Challenge = {h1, h2}
    Link = {l1}
    Call = {c1, c2}
    Step = {1, 2}
    MaxGen = 4
INVARIANTS
    LiveIsProven
    LockedHasNoWayIn
PROPERTIES
    FactorsAddedSignedIn
    EndedStaysEnded
    AdministratorRemains
CONSTRAINT
    FewChallenges
SYMMETRY Symmetry
