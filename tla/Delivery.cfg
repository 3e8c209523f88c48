SPECIFICATION FairSpec
CONSTANTS
    s1 = s1
    s2 = s2
    NoObject = NoObject
    Steps <- OneStep
    MaxCreated = 3
    MaxFaults  = 1
INVARIANTS
    TypeOK
    Coherent
PROPERTIES
    HeldStepKeepsCloud
    ChainKeepsGuard
    ChainKeepsMembership
    BuildDeployed
    DeletionArrives
CHECK_DEADLOCK FALSE
