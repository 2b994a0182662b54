SPECIFICATION Spec
CONSTANTS
    plain = plain
    gated = gated
    NoLimit = NoLimit
    Workers = {w1, w2}
    Tools = {plain, gated}
    Gated = {gated}
    Instances <- MCInstances
INVARIANTS GatedNeedsApproval OrderlyInv
PROPERTIES RunsEnd FinishedIsFinal
