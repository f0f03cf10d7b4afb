SPECIFICATION Spec
CONSTANTS
    Usual = 10
    Unusual = {11, 100}
    MinSamples = 10
    WindowLimit = 100
    MaxMetrics = 12
    MaxUnusual = 2
    Precision = 100
INVARIANTS OutlierFlagged
CHECK_DEADLOCK FALSE
