SPECIFICATION Spec
CONSTANTS
    Jobs = {j1, j2, j3}
    Sources = {s1, s2}
    NoSource = NoSource
    MaxConcurrent = 2
    MaxInstants = 0
    MaxCancels = 1
    MaxRestarts = 1
    MaxFaults = 0
    MaxPageFailures = 0
SYMMETRY Symmetry
INVARIANTS
    EngagedIsActive
    OneCrawlPerSource
    MonitoringWithinCap
