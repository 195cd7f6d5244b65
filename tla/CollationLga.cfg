SPECIFICATION Spec
CONSTANTS
    p1 = p1
    p2 = p2
    w1 = w1
    w2 = w2
    l1 = l1
    s1 = s1
    f1 = f1
    f2 = f2
    Unit <- TwoWardsUnits
    LevelOf <- TwoWardsLevels
    Parent <- TwoWardsParent
    Figures = {f1}
    ours = ours
    theirs = theirs
    PartyColumns <- Columns
    Client = ours
    VotesOf <- Votes
INVARIANTS
    LgaCountsApprovedWards
    CountedIsReported
    OutcomeIsMajority
    WonEverywhereIsWon
PROPERTIES
    CertifiesOnceAndForGood
CHECK_DEADLOCK FALSE
