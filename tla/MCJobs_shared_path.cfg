SPECIFICATION Spec
CONSTANTS
    j1 = j1
    j2 = j2
    p1 = p1
    JobIds = {j1, j2}
    NoJob = NoJob
    Paths = {p1}
    InMemory = InMemory
    Output <- SharedOutput
    Watched = {}
    Pieces = 1
PROPERTY DiscardsOwnOutput
CHECK_DEADLOCK FALSE
