----------------------------- MODULE SfsWrites -----------------------------
(***************************************************************************)
(* The commands of sfs_func_my.c as the block writes they make, in their   *)
(* order, and the death of the program between two of them.                *)
(*                                                                         *)
(* The variables of Sfs are the disk as the command under way will leave   *)
(* it; image is what it has written so far, which is all that the next     *)
(* mount sees.                                                             *)
(***************************************************************************)
EXTENDS Sfs

CONSTANT MaxCrashes     \* a bound

ASSUME WritesAssumption == MaxCrashes \in Nat

VARIABLES
    image,      \* the blocks, by kind
    writes,     \* the calls of disk_write that are left
    fresh,      \* the inode the command makes, or was making when the program died, else 0
    crashes

writeVars == <<vars, image, writes, fresh, crashes>>

Disk == [bitmap |-> bitmap, inode |-> inode, dirBlock |-> dirBlock,
         indirect |-> indirect, data |-> data]

WInit ==
    /\ Init
    /\ image = Disk
    /\ writes = << >> /\ fresh = 0 /\ crashes = 0

----------------------------------------------------------------------------
\* The writes of each command; primed, the disk as the command leaves it.

Write(kind, block, value) == [kind |-> kind, block |-> block, value |-> value]

\* The whole map is written, block by block.
MapWrites(bits) ==
    [k \in 1 .. SFS_BITBLOCKS |->
        Write("bitmap", k - 1, {n \in bits : n \div SFS_BLOCKBITS = k - 1})]

InodeWrite(i) == Write("inode", i, inode'[i])
DirWrite(b) == Write("dirBlock", b, dirBlock'[b])

\* The inode a command makes, and the block of the working directory it changes.
Created == CHOOSE i \in DOMAIN inode' : i \notin DOMAIN inode
Changed ==
    CHOOSE b \in Range(inode'[cwd].direct) \ {0} :
        b \in DOMAIN dirBlock => dirBlock'[b] # dirBlock[b]

\* Slip: the name is in the directory before its block is taken.
EnteringMapLast(bits) == <<InodeWrite(cwd), DirWrite(Changed)>> \o MapWrites(bits)

\* The map comes before what points into it, the size before the entry.
Entering(bits) == MapWrites(bits) \o <<InodeWrite(cwd), DirWrite(Changed)>>

TouchWrites == Entering(bitmap') \o <<InodeWrite(Created)>>

MkdirWrites ==
    Entering(bitmap') \o <<InodeWrite(Created), DirWrite(inode'[Created].direct[1])>>

\* rmdir and rm: the entry goes before the blocks, the size last.
RemoveWrites == <<DirWrite(Changed)>> \o MapWrites(bitmap') \o <<InodeWrite(cwd)>>

MvWrites == <<DirWrite(Changed)>>

\* The file's inode when k of its blocks have been stored.
CopiedUpTo(stored, k, ind) ==
    Inode("file", Min({inode'[Created].size, k * SFS_BLOCKSIZE}),
          SubSeq(stored, 1, Min({k, SFS_NDIRECT})), ind)

IndirectUpTo(stored, k) ==
    [i \in 1 .. SFS_DBPERIDB |->
        IF SFS_NDIRECT + i <= k THEN stored[SFS_NDIRECT + i] ELSE 0]

\* Slip: the inode counts the block before the block is written.
CopyDirectInodeFirst(stored, k) ==
    <<Write("inode", Created, CopiedUpTo(stored, k, 0)),
      Write("data", stored[k], data'[stored[k]])>>

CopyDirect(stored, k) ==
    <<Write("data", stored[k], data'[stored[k]]),
      Write("inode", Created, CopiedUpTo(stored, k, 0))>>

StartIndirect(stored, ind) ==
    <<Write("indirect", ind, IndirectUpTo(stored, SFS_NDIRECT)),
      Write("inode", Created, CopiedUpTo(stored, SFS_NDIRECT, ind))>>

\* Slip: the indirect block is written before it names the new one.
CopyIndirectBehind(stored, k, ind) ==
    <<Write("data", stored[k], data'[stored[k]]),
      Write("inode", Created, CopiedUpTo(stored, k, ind)),
      Write("indirect", ind, IndirectUpTo(stored, k - 1))>>

CopyIndirect(stored, k, ind) ==
    <<Write("data", stored[k], data'[stored[k]]),
      Write("inode", Created, CopiedUpTo(stored, k, ind)),
      Write("indirect", ind, IndirectUpTo(stored, k))>>

\* The loops over the blocks: the writes of one after those of another.
CopyingDirect(stored, blocks) ==
    [p \in 1 .. 2 * blocks |-> CopyDirect(stored, (p + 1) \div 2)[1 + ((p - 1) % 2)]]

CopyingIndirect(stored, blocks, ind) ==
    [p \in 1 .. 3 * blocks |->
        CopyIndirect(stored, SFS_NDIRECT + ((p + 2) \div 3), ind)[1 + ((p - 1) % 3)]]

\* An empty file is made, as touch does, and grows block by block; the map
\* learns of these blocks at the end.
CpinWrites ==
    LET i == inode'[Created]
        direct == UpToMissing(i.direct)
        stored == IF i.indirect = 0 THEN direct ELSE direct \o UpToMissing(indirect'[i.indirect])
        copied == ({i.indirect} \cup ToSet(stored)) \ {0}
    IN  Entering(bitmap' \ copied)
        \o <<Write("inode", Created, NewFile)>>
        \o CopyingDirect(stored, Len(direct))
        \o (IF i.indirect = 0 THEN << >>
            ELSE StartIndirect(stored, i.indirect)
                 \o CopyingIndirect(stored, Len(stored) - SFS_NDIRECT, i.indirect))
        \o MapWrites(bitmap')

----------------------------------------------------------------------------
\* What the image says.  A block nothing has been written to since it was free holds
\* whatever it held before, of which nothing is claimed: it is read here as
\* a block without entries, or as Stale, which is no host file's.

Stale == <<"stale">>
Reading(blocks, unwritten) ==
    [b \in Blocks |-> IF b \in DOMAIN blocks THEN blocks[b] ELSE unwritten]

Image == INSTANCE SfsDisk WITH
    bitmap <- image.bitmap,
    inode <- image.inode,
    dirBlock <- Reading(image.dirBlock, NewDirBlock(<< >>)),
    indirect <- Reading(image.indirect, [i \in 1 .. SFS_DBPERIDB |-> 0]),
    data <- Reading(image.data, Stale)

\* The inodes that have a name.
Linked == {SFS_ROOT_LOCATION} \cup {p[3] : p \in Image!EntryPointers}

\* Pointers found on the way from a name, without those out of the inode except.
LinkedPointers(except) ==
    LET inodes == (Linked \cap DOMAIN image.inode) \ {except}
        tables == {image.inode[i].indirect : i \in inodes} \ {0}
    IN  {p \in Image!LivePointers :
            \/ p \in Image!RowPointers /\ p[1] \in tables
            \/ p \in Image!EntryPointers \cup Image!DirectPointers \cup Image!TablePointers
               /\ p[1] \in inodes}

\* The blocks of directory d, and whether all of them have been written.
HasBlocks(d) == Range(image.inode[d].direct) \ {0} \subseteq DOMAIN image.dirBlock

\* Names lead to inodes and directories to blocks that have been written, and all
\* that names lead to is marked.
Intact ==
    /\ Linked \subseteq DOMAIN image.inode
    /\ \A d \in Image!Dirs \cap Linked : HasBlocks(d)
    /\ {p[3] : p \in LinkedPointers(0)} \subseteq image.bitmap

----------------------------------------------------------------------------
\* A command works out what to write; its writes follow one at a time.  One that
\* is refused writes nothing and is no step here.  What commands do to an image
\* that is not Intact, which a death may leave, is not modelled: a stale inode or
\* directory block is read, or the blocks of a half-copied file are given out again.

Writing(list, new) ==
    /\ disk' # disk
    /\ writes' = list
    /\ fresh' = new
    /\ UNCHANGED <<image, crashes>>

\* As in Sfs, nothing follows rmdir of ".." in an empty root or mv of a dot, which
\* write what rmdir and mv always do: they are left out here.
Begin ==
    /\ writes = << >> /\ Intact
    /\ \/ \E path \in Names : Touch(path) /\ Writing(TouchWrites, Created)
       \/ \E path \in Names : Mkdir(path) /\ Writing(MkdirWrites, Created)
       \/ \E path \in Paths : Rmdir(path) /\ ~RootLost' /\ Writing(RemoveWrites, 0)
       \/ \E path \in Paths : Rm(path) /\ Writing(RemoveWrites, 0)
       \/ \E src, dst \in Names : Mv(src, dst) /\ Writing(MvWrites, 0)
       \/ \E path \in Names, h \in HostFiles : Cpin(path, h) /\ Writing(CpinWrites, Created)

\* The commands that only move.  (ls, cpout and dump only read.)
Move ==
    /\ writes = << >>
    /\ \/ Mount
       \/ Umount
       \/ Intact /\ (CdRoot \/ \E path \in Paths : Cd(path))
    /\ cwd' # cwd
    /\ UNCHANGED <<image, writes, fresh, crashes>>

\* A block whose bit is cleared is forgotten, as in Sfs.
MapWritten(img, w) ==
    LET bits == {n \in img.bitmap : n \div SFS_BLOCKBITS # w.block} \cup w.value
        freed == img.bitmap \ bits
    IN  [bitmap |-> bits,
         inode |-> Forget(img.inode, freed), dirBlock |-> Forget(img.dirBlock, freed),
         indirect |-> Forget(img.indirect, freed), data |-> Forget(img.data, freed)]

\* disk_write
Written(img, w) ==
    IF w.kind = "bitmap" THEN MapWritten(img, w)
    ELSE [img EXCEPT ![w.kind] = Put(@, w.block, w.value)]

WriteNext ==
    /\ writes # << >>
    /\ image' = Written(image, Head(writes))
    /\ writes' = Tail(writes)
    /\ fresh' = IF writes' = << >> THEN 0 ELSE fresh
    /\ UNCHANGED <<vars, crashes>>

----------------------------------------------------------------------------
(***************************************************************************)
(* The program dies (an interrupt, an assertion) before any of the writes, *)
(* and nothing is repaired: the image is what the next mount finds.        *)
(***************************************************************************)
Crash ==
    /\ writes # << >> /\ crashes < MaxCrashes
    /\ cwd' = SFS_NOINO
    /\ bitmap' = image.bitmap /\ inode' = image.inode /\ dirBlock' = image.dirBlock
    /\ indirect' = image.indirect /\ data' = image.data
    /\ Done
    /\ writes' = << >>
    /\ fresh' = IF Intact THEN 0 ELSE fresh
    /\ crashes' = crashes + 1
    /\ UNCHANGED image

WNext == Begin \/ Move \/ WriteNext \/ Crash

WSpec == WInit /\ [][WNext]_writeVars

----------------------------------------------------------------------------
\* Properties.

(***************************************************************************)
(* When a command's last write is done the image is what the command as a  *)
(* whole promises: the order and the intermediate writes of an inode or an *)
(* indirect block lose nothing.                                            *)
(***************************************************************************)
CommandsComplete == writes = << >> => image = Disk

(***************************************************************************)
(* After every single write, so wherever the program dies, and on through  *)
(* the commands that follow a death which left the image Intact: what the  *)
(* written entries lead to is marked in the map and belongs to one file or *)
(* directory, except for what the inode names that touch, mkdir or cpin is *)
(* making (cpin marks its blocks last); and no directory, if its blocks    *)
(* have been written, has more entries than its sfi_size counts, so that   *)
(* rmdir removes none that has entries.                                    *)
(***************************************************************************)
ImageSafe ==
    /\ LET live == LinkedPointers(fresh)
           blocks == {p[3] : p \in live}
       IN  /\ Cardinality(live) = Cardinality(blocks)
           /\ blocks \subseteq image.bitmap \ (System \cup {SFS_ROOT_LOCATION})
    /\ \A d \in Image!Dirs \cap Linked :
          HasBlocks(d) => image.inode[d].size >= Cardinality(Image!Entries(d))

(***************************************************************************)
(* After every single write, so wherever the program dies, and on through  *)
(* the commands that follow a death which left the image Intact: each file *)
(* that was there has its content, and the file that cpin is copying, or   *)
(* was when the program died, reads as the start of the host file, from    *)
(* blocks that have been written.  (Its blocks may not be marked yet: then *)
(* the image is not Intact, and the next commands would write over it.)    *)
(***************************************************************************)
FilesReadBackMeanwhile ==
    \A i \in Image!FilesOn \cap Linked :
        /\ image.inode[i].indirect \in {0} \cup DOMAIN image.indirect
        /\ FromHost(Image!Content(i))
        /\ i \in DOMAIN inode \ {fresh} => Image!Content(i) = Content(i)

===========================================================================
