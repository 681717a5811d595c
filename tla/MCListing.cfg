\* Walks over the pages of ListSnapshots while snapshots come and go.
CONSTANTS
    v1 = v1
    v2 = v2
    w = w
    Volumes <- MCVolumes
    Missing <- MCMissing
    Queries <- MCQueries
    PageSizes <- MCPageSizes
    MaxTakes = 3
    MaxDrops = 1
    MaxFaults = 1
SPECIFICATION Spec
INVARIANT ListingTypeOK
INVARIANT ReportedOnce
