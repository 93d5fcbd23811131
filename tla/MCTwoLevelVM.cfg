SPECIFICATION Spec
CONSTANTS
    numProcess = 2
    FVpns <- TwoVpns
    SVpns <- TwoVpns
    Vpns <- VpnPairs
    FrameCounts <- SmallFrameCounts
    MaxTraces = 4
INVARIANTS
    TypeOK
    PageTableMatchesFrames
    TablesOnDemand
PROPERTIES
    ImplementsLRU
