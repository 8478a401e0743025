SPECIFICATION FairSpec
CONSTANTS
    j1 = j1
    j2 = j2
    p1 = p1
    JobIds = {j1}
    NoJob = NoJob
    Paths = {p1}
    InMemory = InMemory
    Output <- OneJob
    Watched = {j1}
    Pieces = 2
PROPERTIES JobEnds StreamEnds
CHECK_DEADLOCK FALSE
