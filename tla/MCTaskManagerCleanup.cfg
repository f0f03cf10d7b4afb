SPECIFICATION Spec
CONSTANTS
    d1 = d1
    t1 = t1
    JobTaskIds = {d1}
    SharedTaskIds = {t1}
    NoTask = NoTask
    MaxRuns = 3
PROPERTIES CleanupPreservesRunning
