SPECIFICATION Spec
CONSTANTS
    Torrents = {t1}
    Tokens = {k1, k2}
    NoToken = NoToken
    QueueCap = 1
    MaxVer = 1
    Env = {"add", "race", "finished"}
SYMMETRY Symmetry
INVARIANTS NoChangeForgotten
CHECK_DEADLOCK FALSE
