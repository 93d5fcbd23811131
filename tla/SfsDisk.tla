------------------------------ MODULE SfsDisk ------------------------------
(***************************************************************************)
(* The disk image of src/os_c_linux/file_simulation: its blocks, and what  *)
(* the directories, inodes and tables on it say.                           *)
(*                                                                         *)
(* Blocks are numbers.  A block is an inode, a directory block, an         *)
(* indirect block or a data block; the disk is one partial function for    *)
(* each kind.  Directory sizes are counted in entries, file sizes in       *)
(* bytes.                                                                  *)
(***************************************************************************)
EXTENDS Integers, Sequences, FiniteSetsExt

CONSTANTS
    SFS_NDIRECT, SFS_DBPERIDB, SFS_DENTRYPERBLOCK, SFS_BLOCKSIZE,
    WORDBITS, MAPWORDS,      \* bits in a word of the free map, words in a block of it
    nblocks,                 \* spb.sp_nblocks
    Names,                   \* what the user names files and directories
    HostFiles, HostSize      \* files outside of the image; -1: does not exist

ASSUME SfsAssumption ==
    /\ SFS_NDIRECT \in Nat \ {0}
    /\ SFS_DBPERIDB \in Nat \ {0}
    /\ SFS_DENTRYPERBLOCK \in Nat \ {0, 1}
    /\ SFS_BLOCKSIZE \in Nat \ {0}
    /\ WORDBITS \in Nat \ {0}
    /\ MAPWORDS \in Nat \ {0}
    /\ nblocks \in Nat
    /\ {".", ".."} \cap Names = {}
    /\ HostSize \in [HostFiles -> Nat \cup {-1}]

SFS_NOINO == 0
SFS_ROOT_LOCATION == 1
SFS_MAP_LOCATION == 2

SFS_BLOCKBITS == WORDBITS * MAPWORDS
SFS_BITBLOCKS == (nblocks + SFS_BLOCKBITS - 1) \div SFS_BLOCKBITS

Blocks == 0 .. SFS_BITBLOCKS * SFS_BLOCKBITS - 1
RootBlock == SFS_MAP_LOCATION + SFS_BITBLOCKS

\* A volume has room for what formatting puts there.
ASSUME VolumeAssumption == RootBlock < nblocks

\* The superblock, the free map, and the bits of the map past the volume.
System == {0} \cup (SFS_MAP_LOCATION .. RootBlock - 1) \cup {n \in Blocks : n >= nblocks}

VARIABLES
    bitmap,       \* the blocks whose bit is set in the free map
    inode, dirBlock, indirect, data

disk == <<bitmap, inode, dirBlock, indirect, data>>

----------------------------------------------------------------------------
\* Directories: their blocks and the entries in them.

Slots(d) == {s \in (1 .. SFS_NDIRECT) \X (1 .. SFS_DENTRYPERBLOCK) : inode[d].direct[s[1]] # 0}

At(d, s) == dirBlock[inode[d].direct[s[1]]][s[2]]

Entries(d) == {s \in Slots(d) : At(d, s).sfd_ino # SFS_NOINO}

----------------------------------------------------------------------------
\* Files: what sfs_cpout reads of them.

\* A file's bytes by the block: chunk i of host file h is <<h, i>>.
ChunksOf(size) == (size + SFS_BLOCKSIZE - 1) \div SFS_BLOCKSIZE

\* A table of blocks up to the first missing one.
UpToMissing(blocks) ==
    SubSeq(blocks, 1, Min({k \in 0 .. Len(blocks) : k = Len(blocks) \/ blocks[k + 1] = 0}))

\* The blocks read; the indirect block only when no direct one was missing.
FileBlocks(ino) ==
    LET i == inode[ino]
        present == UpToMissing(i.direct)
    IN  IF Len(present) = SFS_NDIRECT /\ i.indirect # 0
          THEN present \o UpToMissing(indirect[i.indirect])
          ELSE present

\* sfi_size bytes are written, as long as there are blocks.
Content(ino) ==
    LET blocks == FileBlocks(ino)
        size == inode[ino].size
        n == Min({ChunksOf(size), Len(blocks)})
    IN  [size |-> Min({size, Len(blocks) * SFS_BLOCKSIZE}),
         chunks |-> [k \in 1 .. n |-> data[blocks[k]]]]

----------------------------------------------------------------------------
\* Pointers.

Dirs == {i \in DOMAIN inode : inode[i].type = "dir"}
FilesOn == {i \in DOMAIN inode : inode[i].type = "file"}

IsDot(d, s) == At(d, s).sfd_name \in {".", ".."}

\* Every pointer on the disk: what it is part of, where in it, the block it names.
EntryPointers ==
    UNION {{<<d, s, At(d, s).sfd_ino>> : s \in {t \in Entries(d) : ~IsDot(d, t)}} : d \in Dirs}
DirectPointers ==
    UNION {{<<i, <<k, 0>>, inode[i].direct[k]>> : k \in 1 .. SFS_NDIRECT} : i \in DOMAIN inode}
TablePointers == {<<i, <<0, 0>>, inode[i].indirect>> : i \in DOMAIN inode}
RowPointers ==
    UNION {{<<b, <<k, 0>>, indirect[b][k]>> : k \in 1 .. SFS_DBPERIDB} : b \in DOMAIN indirect}

Pointers == EntryPointers \cup DirectPointers \cup TablePointers \cup RowPointers
LivePointers == {p \in Pointers : p[3] # 0}
Pointed == {p[3] : p \in LivePointers}

===========================================================================
