SPECIFICATION AsyncSpec
CONSTANTS
    p1 = p1
    p2 = p2
    w1 = w1
    w2 = w2
    l1 = l1
    s1 = s1
    f1 = f1
    f2 = f2
    a1 = a1
    a2 = a2
    b1 = b1
    b2 = b2
    c1 = c1
    Unit <- OneWardUnits
    LevelOf <- OneWardLevels
    Parent <- OneWardParent
    Client <- Clients
    OfficerOf <- Officers
    InProgress = 2
    Figures = {f1}
PROPERTIES
    ApprovedWardStays
CHECK_DEADLOCK FALSE
