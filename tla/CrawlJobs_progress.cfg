SPECIFICATION FairSpec
CONSTANTS
    Jobs = {j1, j2}
    Sources = {s1}
    NoSource = NoSource
    MaxConcurrent = 1
    MaxInstants = 1
    MaxCancels = 1
    MaxRestarts = 0
    MaxFaults = 1
    MaxPageFailures = 1
PROPERTIES
    SlotsComeBack
    JobsFinish
    DueIsServed
