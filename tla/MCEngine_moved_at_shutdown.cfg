SPECIFICATION Spec
CONSTANTS
    Torrents = {t1}
    Tokens = {k1, k2}
    NoToken = NoToken
    QueueCap = 1
    MaxVer = 1
    Env = {"moved", "shutdown"}
SYMMETRY Symmetry
INVARIANTS CleanFlushIsComplete
CHECK_DEADLOCK FALSE
