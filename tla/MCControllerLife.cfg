\* Creation and deletion of a volume and its snapshots, with failing calls.
CONSTANTS
    p1 = p1
    p2 = p2
    p3 = p3
    v1 = v1
    v2 = v2
    s1 = s1
    s2 = s2
    NoKey = NoKey
    Procs <- MCProcs
    Keys <- LifeRequests
    Volumes <- MCVolumes
    SnapNames <- MCSnapNames
    GiB = 2
    DefaultSize = 4
    TemplateSize = 3
    PollLimit = 2
    MaxUid = 2
    MaxTs = 1
    MaxFaults = 1
    MaxRestarts = 0
SPECIFICATION Spec
SYMMETRY ProcSymmetry
INVARIANTS
    TypeOK
    SnapshotBlocksDelete
    DeleteReported
    SnapshotDeleteReported
PROPERTIES
    OnlyItsOwnIsDeleted
    RetryAccepted
    GuardSpec
