SPECIFICATION Spec
CONSTANTS
    Torrents = {t1}
    Tokens = {k1, k2}
    NoToken = NoToken
    QueueCap = 1
    MaxVer = 1
    Env = {"add", "drop"}
SYMMETRY Symmetry
INVARIANTS NoTokenLeak
CHECK_DEADLOCK FALSE
