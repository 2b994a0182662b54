CONSTANTS
    t1 = t1
    t2 = t2
    Tasks = {t1, t2}
    Commanders = {t2}
    MaxCalls <- TwoAndOne
    ChanCap = 1
    OutCap = 1
    Loops <- CounterLoops
    Scans = {t2}
SPECIFICATION Spec
INVARIANTS TypeOK ReplyIsOwn AbortedOnlyOnShutdown
PROPERTIES ImplementsRpcSpec EveryRequestIsHandled
