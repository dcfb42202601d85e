\* Three buffers as in the renderer, three sessions, a release two frames late.
CONSTANTS
    Frames = 3
    Delay = 2
    MaxPools = 3
    MaxWaiting = 1
SPECIFICATION FairSpec
INVARIANTS
    SampledMemoryLives
    PoolsApart
PROPERTIES
    PoolReleased
