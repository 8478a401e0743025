SPECIFICATION Spec
CONSTANTS
    Torrents = {t1}
    Tokens = {k1, k2}
    NoToken = NoToken
    QueueCap = 1
    MaxVer = 1
    Env = {"add", "writeFails"}
SYMMETRY Symmetry
INVARIANTS FailedAddIsForgotten
CHECK_DEADLOCK FALSE
