SPECIFICATION FairSpec
CONSTANTS
    Torrents = {t1}
    NoTorrent = NoTorrent
    Subs = {s1, s2}
    BusCap = 1
    MaxVer = 1
    MaxNoise = 1
    Env = {"unwind"}
INVARIANTS NoGhosts NothingStale
PROPERTY CaughtUp
CHECK_DEADLOCK FALSE
