\* The setup of the next session meets the free loop of the last one.
CONSTANTS
    Frames = 3
    Delay = 2
    MaxPools = 3
    MaxWaiting = 1
SPECIFICATION Spec
INVARIANT
    ReleaseSparesNewPool
