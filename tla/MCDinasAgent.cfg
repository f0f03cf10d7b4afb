SPECIFICATION Spec
CONSTANTS
    a1 = a1
    a2 = a2
    i1 = i1
    i2 = i2
    i3 = i3
    i4 = i4
    NoId = NoId
    Agents = {a1}
    Names = {a1}
    Ids = {i1, i2, i3, i4}
    Callers <- MCCallers
    NameOf <- MCNameOf
    HasTargets = TRUE
    MaxStarts <- Once
    MaxFaults = 2
    MaxForgets = 2
CHECK_DEADLOCK FALSE
INVARIANTS TypeOK NotFoundOnlyAfterLoss OneRowPerCaller
