SPECIFICATION FairSpec
CONSTANTS
    v1 = v1
    v2 = v2
    u1 = u1
    u2 = u2
    NoObject = NoObject
    NoUid = NoUid
    Specs <- TwoSpecs
    Uids  <- TwoUids
    MaxEdits  = 1
    MaxFaults = 1
INVARIANTS
    TypeOK
    CopiesAgree
PROPERTIES
    WritesOnlySpec
    SpecReachesStack
    StackProvided
    NoStackLeftBehind
