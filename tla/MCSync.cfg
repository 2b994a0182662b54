SPECIFICATION MCSpec
CONSTANTS
    None = None
    Keys = {1, 2}
    Beats = {2}
    OwnBeat = 2
    Values = {a}
    Absent = Absent
    Tasks = {t1, t2}
    Ttl = 1
    MaxTime = 2
    MaxVersion = 2
    MaxConnects = 2
    MaxFaults = 1
    SerialHost = FALSE
    MaxLate = 1
    PageLimits = {1, 2}
    MaxAttempts = 1
    Sessions <- TwoSessions
    Turns <- TwoTurns
    Instances <- SafetyInstances
SYMMETRY TaskSymmetry
CHECK_DEADLOCK FALSE
INVARIANTS SyncInv ChatsInv NothingLeaks
PROPERTY MirrorMovesForward
