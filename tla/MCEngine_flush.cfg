SPECIFICATION Spec
CONSTANTS
    Torrents = {t1}
    Tokens = {k1, k2}
    NoToken = NoToken
    QueueCap = 1
    MaxVer = 2
    Env = {"save", "remove", "change", "finished", "shutdown", "timeout", "writeFails"}
SYMMETRY Symmetry
INVARIANTS CleanFlushIsComplete ZeroMeansQuiet NoChangeForgotten
PROPERTIES ImplementsStore
CHECK_DEADLOCK FALSE
