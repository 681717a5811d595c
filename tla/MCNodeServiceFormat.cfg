\* A failure of lsblk on a volume that was made from a snapshot.
CONSTANTS
    n1 = n1
    n2 = n2
    t1 = t1
    t2 = t2
    Nodes <- MCOneNode
    Targets <- MCOneTarget
    Home <- MCHome
    Tenanted <- MCOneNode
    MultiNode = {}
    LsblkFails = TRUE
    UmountFails = FALSE
    FormatTimeout = 0
    SizeTimeout = 0
    GiB = 8
    Word = 256
    MdLimit = 3
    MaxPods = 1
    MaxSize = 1
    MaxFaults = 0
    MaxDeaths = 0
SPECIFICATION FairSpec
PROPERTY SourceNeverFormatted
