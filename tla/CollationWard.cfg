SPECIFICATION Spec
CONSTANTS
    p1 = p1
    p2 = p2
    w1 = w1
    w2 = w2
    l1 = l1
    s1 = s1
    f1 = f1
    f2 = f2
    Unit <- OneWardUnits
    LevelOf <- OneWardLevels
    Parent <- OneWardParent
    Figures = {f1, f2}
    ours = ours
    theirs = theirs
    PartyColumns <- Columns
    Client = ours
    VotesOf <- Votes
INVARIANTS
    TypeOK
    WardTallyFaithful
    SubmittedHasEc8a
    AuditTrailAccounts
    OffersAreAccepted
    SomebodyIsAsked
    ScreensAgree
PROPERTIES
    AuditTrailContinuous
CHECK_DEADLOCK FALSE
