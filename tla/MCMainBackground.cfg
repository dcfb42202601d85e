CONSTANTS
    Addresses = {a1}
    Names = {n1}
    MaxHosts = 1
    Expiry = 1
    MaxGeneration = 2
    MaxRevision = 3
    pc1 = pc1
    Hosts = {pc1}
    Lists <- MCLists
    Refresh = 0
    Fresh = 0
    MaxScans = 1
SPECIFICATION Spec
PROPERTIES
    BackgroundYields
INVARIANTS
    NetworkQuiet
    DialogsOverIdleSearch
