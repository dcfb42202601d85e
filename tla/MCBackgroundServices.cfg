CONSTANTS
    Addresses = {a1, a2}
    Names = {n1, n2}
    MaxHosts = 2
    Expiry = 2
    MaxGeneration = 3
    MaxRevision = 6
    pc1 = pc1
    pc2 = pc2
    Hosts = {pc1, pc2}
    Lists <- MCLists
    Refresh = 1
    Fresh = 2
    MaxScans = 4
SPECIFICATION Spec
INVARIANTS
    RevisionTellsChange
    AvailableIsFresh
    BarrierCoversQueue
PROPERTIES
    SearchFollowsRequests
