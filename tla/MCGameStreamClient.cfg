CONSTANTS
    Addresses = {1, 2}
    Names = {3}
    Machines = {pc1, pc2}
    Placeholder = zero_mac
    None = none
    MaxHosts = 2
    MaxOps = 4
SYMMETRY MachineSymmetry
SPECIFICATION Spec
INVARIANTS
    RestartKeepsHosts
    TrustProven
    PeerAuthenticated
PROPERTIES
    PinAndMarkAgree
CHECK_DEADLOCK FALSE
