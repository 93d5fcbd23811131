SPECIFICATION Spec
CONSTANTS
    SFS_NDIRECT = 2
    SFS_DBPERIDB = 1
    SFS_DENTRYPERBLOCK = 2
    SFS_BLOCKSIZE = 2
    WORDBITS = 2
    MAPWORDS = 5
    nblocks = 10
    Names = {a, b, c}
    HostFiles <- SmallHost
    HostSize <- SmallHostSize
SYMMETRY AnyNames
INVARIANTS
    RootStays
