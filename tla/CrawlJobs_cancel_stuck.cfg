SPECIFICATION FairSpec
CONSTANTS
    Jobs = {j1}
    Sources = {s1}
    NoSource = NoSource
    MaxConcurrent = 1
    MaxInstants = 1
    MaxCancels = 1
    MaxRestarts = 0
    MaxFaults = 0
    MaxPageFailures = 0
PROPERTY CancelTerminates
