SPECIFICATION FairSpec
CONSTANTS
    s1 = s1
    s2 = s2
    NoObject = NoObject
    Steps <- TwoSteps
    MaxCreated = 2
    MaxFaults = 0
PROPERTY StackGetsGuarded
CHECK_DEADLOCK FALSE
