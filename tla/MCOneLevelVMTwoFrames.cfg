SPECIFICATION Spec
CONSTANTS
    numProcess = 2
    Vpns <- ThreeVpns
    FrameCounts <- TwoFrames
    MaxTraces = 5
INVARIANTS
    LRUKeepsMostRecent
