SPECIFICATION SignInSpec
CONSTANTS
    u1 = u1
    u2 = u2
    t1 = t1
    t2 = t2
    c1 = c1
    c2 = c2
    h1 = h1
    h2 = h2
    k1 = k1
    l1 = l1
    NoUser = NoUser
    NoKey = NoKey
    NoToken = NoToken
    NoChallenge = NoChallenge
    NewToken = NewToken
    User = {u1}
    Key = {}
    Token = {t1, t2}
    Challenge = {h1}
    Link = {}
    Call = {c1, c2}
    Step = {1, 2}
    MaxGen = 3
INVARIANTS
    TypeOK
    LiveIsProven
    CodesAreSpent
    ChallengesAreSpent
SYMMETRY Symmetry
