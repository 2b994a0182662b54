SPECIFICATION LiveSpec
CONSTANTS
    None = None
    Keys = {1, 2}
    Beats = {1, 2}
    OwnBeat = 2
    Values = {a}
    Absent = Absent
    Tasks = {t1, t2}
    Ttl = 1
    MaxTime = 2
    MaxVersion = 2
    MaxConnects = 3
    MaxFaults = 0
    SerialHost = TRUE
    MaxLate = 1
    PageLimits = {1, 2}
    MaxAttempts = 1
    Sessions <- OneSession
    Turns <- OneTurn
    Instances <- LiveInstances
INVARIANT SeesPrefix
PROPERTIES CatchesUp DeletedIsForgotten
CHECK_DEADLOCK FALSE
