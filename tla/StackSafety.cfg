SPECIFICATION Spec
CONSTANTS
    t1 = t1
    t2 = t2
    b1 = b1
    e1 = e1
    Templates      <- AllTemplates
    Buckets        <- OneBucket
    Repositories   <- OneRegistry
    SpecFinalizers <- Finalizers
    NoObject = NoObject
    NoStack  = NoStack
    MaxEdits  = 1
    MaxFaults = 2
SYMMETRY TemplateSymmetry
INVARIANTS
    TypeOK
    GuardedIsNamed
    Consistent
PROPERTIES
    OperatorKeepsSpec
    TeardownBeforeRelease
    ResourceGoneBeforeRelease
    NoTeardownOfWantedStack
    ImplementsGuardedStack
