SPECIFICATION FairSpec
CONSTANTS
    s1 = s1
    s2 = s2
    p1 = p1
    x = x
    z = z
    v1 = v1
    v2 = v2
    NoObject <- AbsentObject
    NoOwner = NoOwner
    Steps          <- OneStep
    Pipelines      <- OnePipeline
    SpecBuilds     <- PlainBuilds
    PipelineBuilds <- NoBuilds
    MaxUids      = 1
    MaxEdits     = 1
    MaxPipeEdits = 0
    MaxFaults    = 0
PROPERTIES
    MarkedStepGoes
