SPECIFICATION OcrSpec
CONSTANTS
    partyVotes = partyVotes
    votesCast = votesCast
    Result = {r1}
    Field = {partyVotes, votesCast}
    Value = {x, y}
    None = None
    Obeys <- Agree
    Photo = {h1}
    Local = {j1, j2}
    MaxJobs = 2
    MaxCrashes = 0
INVARIANTS
    VerdictAboutPresent
