SPECIFICATION Spec
CONSTANTS
    j1 = j1
    j2 = j2
    p1 = p1
    JobIds = {j1, j2}
    NoJob = NoJob
    Paths = {p1}
    InMemory = InMemory
    Output <- OwnOutput
    Watched = {j1}
    Pieces = 1
INVARIANTS FinishedHasOutput NoOutputUnlessFinished StopReachesAll RunningWorkerIsJoinable StreamNeverCut
PROPERTY FirstTerminalWins
CHECK_DEADLOCK FALSE
