SPECIFICATION Spec
CONSTANTS
    a1 = a1
    a2 = a2
    i1 = i1
    i2 = i2
    i3 = i3
    i4 = i4
    NoId = NoId
    Agents = {a1, a2}
    Names = {a1, a2}
    Ids = {i1, i2, i3, i4}
    Callers <- MCCallers
    NameOf <- MCNameOf
    HasTargets = FALSE
    MaxStarts <- Restarted
    MaxFaults = 0
    MaxForgets = 0
CHECK_DEADLOCK FALSE
INVARIANTS RegisterOwnName UsesOwnRow
