\* Ranges, templates, sources and bad arguments of CreateVolume, and its
\* retries across a failing call and a restart.
CONSTANTS
    p1 = p1
    p2 = p2
    p3 = p3
    v1 = v1
    v2 = v2
    s1 = s1
    s2 = s2
    NoKey = NoKey
    Procs <- MCOneProc
    Keys <- SourceRequests
    Volumes <- MCTwoVolumes
    SnapNames <- MCSnapNames
    GiB = 2
    DefaultSize = 4
    TemplateSize = 3
    PollLimit = 2
    MaxUid = 2
    MaxTs = 2
    MaxFaults = 1
    MaxRestarts = 1
SPECIFICATION FairSpec
INVARIANT CapacityReported
PROPERTIES
    RetryAccepted
    EveryCallAnswered
