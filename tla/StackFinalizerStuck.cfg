SPECIFICATION ResyncFairSpec
CONSTANTS
    t1 = t1
    t2 = t2
    b1 = b1
    e1 = e1
    Templates      <- OneTemplate
    Buckets        <- OneBucket
    Repositories   <- NoResources
    SpecFinalizers <- StackAndBuckets
    NoObject = NoObject
    NoStack  = NoStack
    MaxEdits  = 0
    MaxFaults = 0
PROPERTY AllFinalizersRemoved
