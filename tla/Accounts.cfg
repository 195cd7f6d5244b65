SPECIFICATION TimedSpec
CONSTANTS
    u1 = u1
    w1 = w1
    p1 = p1
    User = {u1}
    Unit = {w1, p1}
    LevelOf <- Levels
    LgaOf <- Lgas
    Session = {s1}
    Token = {t1, t2}
    Call = {c1, c2}
    AccessLife = 1
    RefreshLife = 2
    Nothing = Nothing
INVARIANTS
    TypeOK
    RoleFitsScope
    SessionHasOneToken
    RowsAgree
PROPERTIES
    OverUntilLogin
    LostOfficeFades
CHECK_DEADLOCK FALSE
