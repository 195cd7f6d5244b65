SPECIFICATION DesksSpec
CONSTANTS
    p1 = p1
    p2 = p2
    p3 = p3
    w1 = w1
    w2 = w2
    l1 = l1
    f1 = f1
    a1 = a1
    a2 = a2
    a3 = a3
    b1 = b1
    b2 = b2
    b3 = b3
    c1 = c1
    c2 = c2
    g1 = g1
    g2 = g2
    d1 = d1
    d2 = d2
    Unit <- Units
    LevelOf <- Levels
    Parent <- Parents
    Client <- Clients
    OfficerOf <- OfficersHere
    InProgress = 2
    Figures = {f1}
    Campaign = {k1, k2}
    Jigawa = {k1}
    Group = {g1, g2}
    Commitment = {m1}
    Most = 2
    Patch = {d1, d2}
    Keep = keep
    StateLgas <- TheLgas
    WardsOf <- TheWards
    UnitCodes <- TheUnits
    Hadejia = "Hadejia"
    Atafi = "Atafi"
    Competitive <- TheTargets
    Overrides <- TheOverrides
    Take = 2
    Officers <- TheOfficers
    SampleRows <- TheSamples
    Placeholders <- ThePlaceholders
    PartyCodes <- TheParties
    Busy <- BusyUnits
    CampaignRow = "campaign"
SYMMETRY Alike
VIEW WithoutUnread
INVARIANTS
    DeliveredWithinTarget
    CommitmentOfItsGroup
    SomebodyIsAskedAtRest
    SeedingSettles
    SamplesTellTheirStory
PROPERTIES
    RunsAsOneStep
CHECK_DEADLOCK FALSE
