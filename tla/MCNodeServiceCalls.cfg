\* One node and one pod, with commands that fail and an expansion.
CONSTANTS
    n1 = n1
    n2 = n2
    t1 = t1
    t2 = t2
    Nodes <- MCOneNode
    Targets <- MCOneTarget
    Home <- MCHome
    Tenanted <- MCOneNode
    MultiNode = {}
    LsblkFails = TRUE
    UmountFails = TRUE
    FormatTimeout = 1
    SizeTimeout = 2
    GiB = 8
    Word = 256
    MdLimit = 3
    MaxPods = 1
    MaxSize = 2
    MaxFaults = 1
    MaxDeaths = 1
SPECIFICATION FairSpec
INVARIANT GrownDevice
PROPERTY NodeCallsAnswered
