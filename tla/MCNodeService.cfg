\* One volume that moves between two nodes, with two pods on the first.
CONSTANTS
    n1 = n1
    n2 = n2
    t1 = t1
    t2 = t2
    Nodes <- MCNodes
    Targets <- MCTargets
    Home <- MCHome
    Tenanted <- MCOneNode
    MultiNode = {}
    LsblkFails = FALSE
    UmountFails = FALSE
    FormatTimeout = 0
    SizeTimeout = 0
    GiB = 8
    Word = 256
    MdLimit = 3
    MaxPods = 2
    MaxSize = 1
    MaxFaults = 1
    MaxDeaths = 1
SPECIFICATION Spec
INVARIANTS
    NodeTypeOK
    PublishedReachable
    CleanLeave
    RecordTrue
PROPERTY DataKept
