SPECIFICATION Spec
CONSTANTS
    agent = agent
    ward = ward
    lga = lga
    w1 = w1
    l1 = l1
    User = {agent, ward, lga}
    Ward = {w1}
    Lga = {l1}
    LgaOf <- OneLga
    Officers <- OneOfficerEach
    Headquarters = {}
    Entity = {r1}
    Token = {t1}
    Holder = {agent, ward}
    Reader = {lga}
    None = None
    Dispatch = {d1, d2}
    ChunkSize = 1
SYMMETRY Alike
INVARIANTS
    TypeOK
    ReportsAreTold
    PushedOnce
    SilentForAReason
PROPERTIES
    ReadStaysRead
CHECK_DEADLOCK FALSE
