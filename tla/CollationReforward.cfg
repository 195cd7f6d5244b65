SPECIFICATION Spec
CONSTANTS
    p1 = p1
    p2 = p2
    w1 = w1
    w2 = w2
    l1 = l1
    s1 = s1
    f1 = f1
    f2 = f2
    Unit <- OneWardUnits
    LevelOf <- OneWardLevels
    Parent <- OneWardParent
    Figures = {f1}
PROPERTIES
    ReforwardedOnlyComplete
CHECK_DEADLOCK FALSE
