SPECIFICATION Spec
CONSTANTS
    Torrents = {t1, t2}
    Uuids = {u1, u2, u3, u4}
    NoUuid = noUuid
    OldNames = {o1, o2}
    None = none
    MaxFaults = 3
SYMMETRY RestoreSymmetry
CHECK_DEADLOCK FALSE
INVARIANTS RecordKept SameUuid NoStaleFile RemovedStaysRemoved
