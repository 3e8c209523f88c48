SPECIFICATION OperatorFairSpec
CONSTANTS
    a = a
    b = b
    repo = repo
    Scheme = Scheme
    Account = Account
    NoAccount = NoAccount
    NoWorkload = NoWorkload
    NoPod = NoPod
    Pods          <- TwoPods
    Processes     <- TwoPods
    Workloads     <- SomeWorkloads
    Zones         <- TwoZones
    DefaultRegion <- EuWest1
    MaxFaults   = 1
    MaxWrites   = 3
    MaxFailures = 1
INVARIANTS
    TypeOK
    ImagesTypeOK
    OnlyFaultsPass
    HostsAreNamed
PROPERTIES
    PassOnlyResolves
    SomebodyLeads
    ImagesResolved
