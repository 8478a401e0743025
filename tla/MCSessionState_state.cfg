SPECIFICATION Spec
CONSTANTS
    Calls = {c1, c2}
    Live = live
    Final = final
    Nobody = nobody
    Names = {a}
    Filter = filter
    Dht = dht
    QueueCap = 2
    MaxClock = 1
    MaxStarts = 2
SYMMETRY CallSymmetry
CHECK_DEADLOCK FALSE
INVARIANTS FailedChangedNothing FinalStateKept
PROPERTIES ImplementsDurable
