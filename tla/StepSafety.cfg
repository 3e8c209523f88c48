SPECIFICATION Spec
CONSTANTS
    s1 = s1
    s2 = s2
    p1 = p1
    x = x
    z = z
    v1 = v1
    v2 = v2
    NoObject <- AbsentObject
    NoOwner = NoOwner
    Steps          <- TwoSteps
    Pipelines      <- OnePipeline
    SpecBuilds     <- BuildPerStep
    PipelineBuilds <- OwnBuilds
    MaxUids      = 1
    MaxEdits     = 0
    MaxPipeEdits = 1
    MaxFaults    = 1
SYMMETRY StepSymmetry
INVARIANTS
    TypeOK
    HeldStepHasPipeline
    NoDuplicateBuilds
PROPERTIES
    OthersKept
    PartedBeforeRelease
    OwnBuildsWritten
