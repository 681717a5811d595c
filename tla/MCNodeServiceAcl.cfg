\* A node that could not be removed from the ACL, and then another one.
CONSTANTS
    n1 = n1
    n2 = n2
    t1 = t1
    t2 = t2
    Nodes <- MCNodes
    Targets <- MCOneTarget
    Home <- MCHome
    Tenanted = {}
    MultiNode = {}
    LsblkFails = FALSE
    UmountFails = FALSE
    FormatTimeout = 0
    SizeTimeout = 0
    GiB = 8
    Word = 256
    MdLimit = 3
    MaxPods = 1
    MaxSize = 1
    MaxFaults = 1
    MaxDeaths = 0
SPECIFICATION FairSpec
PROPERTY UnregisterRemovesOne
