SPECIFICATION FairSpec
CONSTANTS
    Torrents = {t1}
    Tokens = {k1, k2}
    NoToken = NoToken
    QueueCap = 1
    MaxVer = 1
    Env = {"add", "remove", "shutdown", "change"}
PROPERTIES TokensReturn ShutdownCompletes RemovalReachesDisk
CHECK_DEADLOCK FALSE
