SPECIFICATION Spec
CONSTANTS
    Torrents = {t1}
    Tokens = {k1, k2}
    NoToken = NoToken
    QueueCap = 1
    MaxVer = 1
    Env = {"add", "remove", "race", "drop", "shutdown", "timeout", "writeFails", "deleteFails", "serializeFails", "moved"}
SYMMETRY Symmetry
INVARIANTS InflightExact AckedAddIsDurable RemovedStaysRemoved
CHECK_DEADLOCK FALSE
