SPECIFICATION Spec
CONSTANTS
    a = a
    b = b
    c = c
    d = d
    NoPod = NoPod
    Pods <- FourPods
    MaxFaults = 1
INVARIANT SingleLeader
