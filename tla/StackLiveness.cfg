SPECIFICATION FairSpec
CONSTANTS
    t1 = t1
    t2 = t2
    b1 = b1
    e1 = e1
    Templates      <- AllTemplates
    Buckets        <- NoResources
    Repositories   <- NoResources
    SpecFinalizers <- StackOnly
    NoObject = NoObject
    NoStack  = NoStack
    MaxEdits  = 1
    MaxFaults = 1
PROPERTIES
    EditDeployed
    DeletionCompletes
    TeardownHappens
