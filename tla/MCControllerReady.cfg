\* A retried CreateSnapshot and the availability of the snapshot.
CONSTANTS
    p1 = p1
    p2 = p2
    p3 = p3
    v1 = v1
    v2 = v2
    s1 = s1
    s2 = s2
    NoKey = NoKey
    Procs <- MCOneProc
    Keys <- LossRequests
    Volumes <- MCVolumes
    SnapNames <- MCSnapNames
    GiB = 2
    DefaultSize = 4
    TemplateSize = 3
    PollLimit = 2
    MaxUid = 1
    MaxTs = 2
    MaxFaults = 1
    MaxRestarts = 0
SPECIFICATION Spec
INVARIANT ReadyMeansAvailable
