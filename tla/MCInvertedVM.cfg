SPECIFICATION Spec
CONSTANTS
    numProcess = 2
    Vpns <- ThreeVpns
    FrameCounts <- SmallFrameCounts
    MaxTraces = 5
INVARIANTS
    TypeOK
    HashMatchesFrames
    NoNullDereference
    AccessesAddUp
