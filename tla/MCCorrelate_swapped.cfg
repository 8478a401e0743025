SPECIFICATION Spec
CONSTANTS
    t1 = t1
    t2 = t2
    t3 = t3
    v1 = v1
    v2 = v2
    k1 = k1
    k2 = k2
    Calls = {c1, c2, c3}
    NoCall = NoCall
    Torrents = {t1, t2, t3}
    NoTorrent = NoTorrent
    Hashes <- ThreeTorrents
    Keys = {k1, k2}
    Trackers = {k1}
    NoKey = NoKey
    Jobs <- Removals
    BusCap = 3
    MaxNoise = 0
    Env = {"readd"}
SYMMETRY Symmetry
INVARIANT DeletedMeansGone
CHECK_DEADLOCK FALSE
