SPECIFICATION Spec
CONSTANTS
    p1 = p1
    s1 = s1
    r1 = r1
    r2 = r2
    r3 = r3
    h1 = h1
    a1 = a1
    a2 = a2
    i1 = i1
    i2 = i2
    Passes = {p1}
    Singles = {s1}
    Reports = {r1, r2, r3}
    AgentOf <- MCAgentOf
    Payloads <- MCPayloads
    Ips = {h1}
    Agents = {a1, a2}
    NoAgent = NoAgent
    Ids = {i1, i2}
    NoId = NoId
    MaxStarted = 3
    MaxFaults = 1
CHECK_DEADLOCK FALSE
SYMMETRY MCSymmetry
INVARIANTS TypeOK LastReportStands AvailabilityTellsStatus CompletedPassIsWhole
           OneDeviceUnlessCrossed
