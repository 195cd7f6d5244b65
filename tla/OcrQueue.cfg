SPECIFICATION BothSpec
CONSTANTS
    partyVotes = partyVotes
    votesCast = votesCast
    Result = {r1}
    Field = {partyVotes, votesCast}
    Value = {x, y}
    None = None
    Obeys <- Agree
    Photo = {h1}
    Local = {j1}
    MaxJobs = 2
    MaxCrashes = 1
    Ballot <- TheBallot
    Tracked = {"AA", "ADC"}
    OneLetter = {"A"}
    Enough = 2
    Near = 3
    Close = 2
    Boxed = 20
    AgentName <- TheAgents
    VotesOfParty = {0, 3, 12, 25}
    Rejected = {3}
    MaxAmount = 2100
INVARIANTS
    
    NumbersReadBack
    ClearFormReadExactly
    GapsStayGaps
    AdviceFollowsForm
PROPERTIES
    OcrCompletes
