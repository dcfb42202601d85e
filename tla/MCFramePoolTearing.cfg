\* The main thread falls three decoder outputs behind.
CONSTANTS
    Frames = 3
    Delay = 2
    MaxPools = 3
    MaxWaiting = 1
SPECIFICATION Spec
INVARIANT
    ShownFrameIntact
