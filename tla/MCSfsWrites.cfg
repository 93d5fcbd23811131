SPECIFICATION WSpec
CONSTANTS
    SFS_NDIRECT = 2
    SFS_DBPERIDB = 1
    SFS_DENTRYPERBLOCK = 3
    SFS_BLOCKSIZE = 2
    WORDBITS = 2
    MAPWORDS = 3
    nblocks = 10
    Names = {a, b}
    HostFiles <- OneHost
    HostSize <- OneHostSize
    MaxCrashes = 1
SYMMETRY AnyNames
INVARIANTS
    CommandsComplete
    ImageSafe
    FilesReadBackMeanwhile
