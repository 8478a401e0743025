SPECIFICATION Spec
CONSTANTS
    Torrents = {t1, t2}
    Tokens = {k1, k2}
    NoToken = NoToken
    QueueCap = 1
    MaxVer = 1
    Env = {"remove", "change", "moved", "writeFails"}
SYMMETRY Symmetry
INVARIANTS RemovedStaysRemoved NoChangeForgotten
CHECK_DEADLOCK FALSE
