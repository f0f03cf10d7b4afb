SPECIFICATION Spec
CONSTANTS
    Usual = 10
    Unusual = {11, 60}
    MinSamples = 10
    WindowLimit = 29
    MaxMetrics = 32
    MaxUnusual = 2
    Precision = 100
INVARIANTS SeverityNeedsSamples MaskingOnly
CHECK_DEADLOCK FALSE
