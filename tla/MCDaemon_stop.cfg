SPECIFICATION FairSpec
CONSTANTS
    Conns = {c1, c2, c3}
    MaxPending = 2
    MaxRuns = 2
    Env = {"crash", "engineFails", "bindFails", "badConfig"}
INVARIANTS EngineLeftAlone LeftoversNeverBlock
PROPERTIES StopEnds PermitReturned
CHECK_DEADLOCK FALSE
