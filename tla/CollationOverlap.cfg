SPECIFICATION AsyncSpec
CONSTANTS
    p1 = p1
    p2 = p2
    w1 = w1
    w2 = w2
    l1 = l1
    s1 = s1
    f1 = f1
    f2 = f2
    a1 = a1
    a2 = a2
    b1 = b1
    b2 = b2
    c1 = c1
    Unit <- OneWardUnits
    LevelOf <- OneWardLevels
    Parent <- OneWardParent
    Client <- MoreClients
    OfficerOf <- MoreOfficers
    InProgress = 2
    Figures = {f1}
PROPERTIES
    ApprovedPuReopensOnlyInReturnedWard
CHECK_DEADLOCK FALSE
