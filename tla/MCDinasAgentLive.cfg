SPECIFICATION FairSpec
CONSTANTS
    a1 = a1
    a2 = a2
    i1 = i1
    i2 = i2
    i3 = i3
    i4 = i4
    NoId = NoId
    Agents = {a1}
    Names = {a1}
    Ids = {i1, i2, i3}
    Callers <- MCCallers
    NameOf <- MCNameOf
    HasTargets = TRUE
    MaxStarts <- Once
    MaxFaults = 1
    MaxForgets = 1
CHECK_DEADLOCK FALSE
PROPERTIES KnownAgainOrEnded ReregistersUnlessFaults StaleRecovers GhostsGoStale
