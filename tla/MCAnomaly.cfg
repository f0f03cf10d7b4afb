SPECIFICATION Spec
CONSTANTS
    da = da
    db = db
    latency = latency
    jitter = jitter
    r1 = r1
    r2 = r2
    u1 = u1
    u2 = u2
    All = All
    Devices = {da, db}
    Scopes = {da, All}
    Types = {latency, jitter}
    Limited = {latency}
    Beginnings <- MCBeginnings
    Recorded <- MCRecorded
    Runs = {r1, r2}
    Updates = {u1, u2}
    Statuses = {"open", "false_positive"}
    MaxSamples = 1
    MaxStarted = 3
SYMMETRY MCSymmetry
CHECK_DEADLOCK FALSE
INVARIANTS TypeOK RunTellsMetrics TotalsTellRows UpdateStands
