SPECIFICATION Spec
CONSTANTS
    t1 = t1
    t2 = t2
    t3 = t3
    v1 = v1
    v2 = v2
    k1 = k1
    k2 = k2
    Calls = {c1, c2}
    NoCall = NoCall
    Torrents = {t1, t2}
    NoTorrent = NoTorrent
    Hashes <- SameContent
    Keys = {k1, k2}
    Trackers = {k1}
    NoKey = NoKey
    Jobs <- AllJobs
    BusCap = 2
    MaxNoise = 1
    Env = {"timeout", "drop", "shutdown", "readd"}
SYMMETRY Symmetry
INVARIANTS OneInFlight OwnAnswer AnswerNotMissed DeletedMeansGone
CHECK_DEADLOCK FALSE
