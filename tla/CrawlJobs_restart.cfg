SPECIFICATION FairSpec
CONSTANTS
    Jobs = {j1, j2}
    Sources = {s1}
    NoSource = NoSource
    MaxConcurrent = 1
    MaxInstants = 0
    MaxCancels = 0
    MaxRestarts = 1
    MaxFaults = 0
    MaxPageFailures = 0
PROPERTY DueIsServed
