-------------------------------- MODULE Sfs --------------------------------
(***************************************************************************)
(* The simple file system of src/os_c_linux/file_simulation: the commands  *)
(* of sfs_func_my.c on a disk image, one action per command that changes   *)
(* the disk or the working directory.  (ls and dump only print.)           *)
(*                                                                         *)
(* A freed block is always written in full before it is read again, so the *)
(* model forgets what it held.                                             *)
(***************************************************************************)
EXTENDS SfsDisk, FiniteSets, SequencesExt, Functions

MaxFileSize == (SFS_NDIRECT + SFS_DBPERIDB) * SFS_BLOCKSIZE     \* 73216

VARIABLES
    cwd,          \* sd_cwd.sfd_ino; SFS_NOINO when no image is mounted
    lacking,      \* after "No block available": the blocks still wanted, else 0
    output        \* after cpout: the file it wrote outside of the image, else NoFile

report == <<lacking, output>>
vars == <<cwd, disk, report>>

----------------------------------------------------------------------------
\* What blocks hold.

Inode(type, size, direct, ind) ==
    [type |-> type, size |-> size, indirect |-> ind,
     direct |-> [i \in 1 .. SFS_NDIRECT |-> IF i <= Len(direct) THEN direct[i] ELSE 0]]

NewFile == Inode("file", 0, << >>, 0)

Entry(ino, name) == [sfd_ino |-> ino, sfd_name |-> name]
FreeEntry == Entry(SFS_NOINO, "")

\* A block of entries, zero filled.
NewDirBlock(entries) ==
    [j \in 1 .. SFS_DENTRYPERBLOCK |-> IF j <= Len(entries) THEN entries[j] ELSE FreeEntry]

\* disk_write
Put(blocks, b, value) == [c \in DOMAIN blocks \cup {b} |-> IF c = b THEN value ELSE blocks[c]]

\* A file outside of the image.
NoFile == [size |-> -1, chunks |-> << >>]
HostFile(h) ==
    IF HostSize[h] = -1 THEN NoFile
    ELSE [size |-> HostSize[h], chunks |-> [i \in 1 .. ChunksOf(HostSize[h]) |-> <<h, i>>]]

\* The image as the external formatting program leaves it.
Init ==
    /\ cwd = SFS_NOINO
    /\ bitmap = System \cup {SFS_ROOT_LOCATION, RootBlock}
    /\ inode = Put(<< >>, SFS_ROOT_LOCATION, Inode("dir", 2, <<RootBlock>>, 0))
    /\ dirBlock = Put(<< >>, RootBlock,
                      NewDirBlock(<<Entry(SFS_ROOT_LOCATION, "."), Entry(SFS_ROOT_LOCATION, "..")>>))
    /\ indirect = << >>
    /\ data = << >>
    /\ lacking = 0 /\ output = NoFile

----------------------------------------------------------------------------
\* Looking into a directory, in the order of the blocks and of their entries.

FreeSlots(d) == {s \in Slots(d) : At(d, s).sfd_ino = SFS_NOINO}

Before(s, t) == s[1] < t[1] \/ (s[1] = t[1] /\ s[2] <= t[2])
FirstOf(S) == CHOOSE s \in S : \A t \in S : Before(s, t)

Named(d, name) == {s \in Slots(d) : At(d, s).sfd_ino # SFS_NOINO /\ At(d, s).sfd_name = name}
Exists(name) == Named(cwd, name) # {}
Slot(name) == FirstOf(Named(cwd, name))
Ino(name) == At(cwd, Slot(name)).sfd_ino
IsFile(name) == inode[Ino(name)].type = "file"

----------------------------------------------------------------------------
\* The commands.  Without an image disk_read's assertion ends the program.

Mounted == cwd # SFS_NOINO

Done == lacking' = 0 /\ output' = NoFile

\* error_message and return; nothing has been written.
Refuse(message) ==
    /\ Done
    /\ UNCHANGED <<cwd, disk>>

RefuseForRoom(needed) ==
    /\ lacking' = needed /\ output' = NoFile
    /\ UNCHANGED <<cwd, disk>>

\* sfs_mount of the image, mounted already or not.
Mount ==
    /\ cwd' = SFS_ROOT_LOCATION
    /\ Done
    /\ UNCHANGED disk

\* sfs_umount; also exit, which leaves nothing behind in memory.
Umount ==
    /\ cwd # SFS_NOINO
    /\ cwd' = SFS_NOINO
    /\ Done
    /\ UNCHANGED disk

\* cd without a path.
CdRoot ==
    /\ Mounted
    /\ cwd' = SFS_ROOT_LOCATION
    /\ Done
    /\ UNCHANGED disk

Cd(path) ==
    /\ Mounted
    /\ \/ ~Exists(path) /\ Refuse("No such file or directory")
       \/ /\ Exists(path)
          /\ \/ IsFile(path) /\ Refuse("Not a directory")
             \/ /\ ~IsFile(path)
                /\ cwd' = Ino(path)
                /\ Done
                /\ UNCHANGED disk

\* Entering a name: in the first free entry, else in a new block of the directory.

Free == Blocks \ bitmap

NeedsBlock == FreeSlots(cwd) = {}
Holes == {i \in 1 .. SFS_NDIRECT : inode[cwd].direct[i] = 0}
DirectoryFull == NeedsBlock /\ Holes = {}

\* The blocks a command takes: n of its own and one if the directory must grow.
Need(n) == IF NeedsBlock THEN n + 1 ELSE n

\* The scan of the free map takes the lowest free blocks.
Lowest(n) == [k \in 1 .. n |-> CHOOSE b \in Free : Cardinality({c \in Free : c < b}) = k - 1]

\* Slip: the new entry is not counted.
InodesEnteredUncounted(block) ==
    IF NeedsBlock THEN [inode EXCEPT ![cwd].direct[Min(Holes)] = block] ELSE inode

InodesEntered(block) ==
    IF NeedsBlock
      THEN [inode EXCEPT ![cwd].size = @ + 1, ![cwd].direct[Min(Holes)] = block]
      ELSE [inode EXCEPT ![cwd].size = @ + 1]

DirBlocksEntered(entry, block) ==
    IF NeedsBlock
      THEN Put(dirBlock, block, NewDirBlock(<<entry>>))
      ELSE LET s == FirstOf(FreeSlots(cwd))
           IN  [dirBlock EXCEPT ![inode[cwd].direct[s[1]]][s[2]] = entry]

\* Neither the directory nor the volume has room for a name and n blocks.
NoRoom(n) ==
    \/ DirectoryFull /\ Refuse("Directory full")
    \/ ~DirectoryFull /\ Cardinality(Free) < Need(n) /\ RefuseForRoom(Need(n))

Room(n) == ~DirectoryFull /\ Cardinality(Free) >= Need(n)

\* sfs_touch: the inode takes the lowest block.
Touch(path) ==
    /\ Mounted
    /\ \/ Exists(path) /\ Refuse("Already exists")
       \/ ~Exists(path) /\ NoRoom(1)
       \/ /\ ~Exists(path) /\ Room(1)
          /\ LET emptyi == Lowest(Need(1))
                 block == Last(emptyi)
             IN  /\ bitmap' = bitmap \cup ToSet(emptyi)
                 /\ inode' = Put(InodesEntered(block), emptyi[1], NewFile)
                 /\ dirBlock' = DirBlocksEntered(Entry(emptyi[1], path), block)
          /\ Done
          /\ UNCHANGED <<cwd, indirect, data>>

\* sfs_mkdir: a new block of the parent comes before the inode.
Mkdir(path) ==
    /\ Mounted
    /\ \/ Exists(path) /\ Refuse("Already exists")
       \/ ~Exists(path) /\ NoRoom(2)
       \/ /\ ~Exists(path) /\ Room(2)
          /\ LET emptyi == Lowest(Need(2))
                 ino == emptyi[Need(1)]
                 first == emptyi[Need(2)]
             IN  /\ bitmap' = bitmap \cup ToSet(emptyi)
                 /\ inode' = Put(InodesEntered(emptyi[1]), ino, Inode("dir", 2, <<first>>, 0))
                 /\ dirBlock' = Put(DirBlocksEntered(Entry(ino, path), emptyi[1]), first,
                                    NewDirBlock(<<Entry(ino, "."), Entry(cwd, "..")>>))
          /\ Done
          /\ UNCHANGED <<cwd, indirect, data>>

\* Removing a name: the entry is freed, the blocks' bits are cleared.

DirBlocksWithout(s) == [dirBlock EXCEPT ![inode[cwd].direct[s[1]]][s[2]] = FreeEntry]

Forget(f, blocks) == Restrict(f, DOMAIN f \ blocks)

Release(path, blocks) ==
    /\ bitmap' = bitmap \ blocks
    /\ inode' = Forget([inode EXCEPT ![cwd].size = @ - 1], blocks)
    /\ dirBlock' = Forget(DirBlocksWithout(Slot(path)), blocks)
    /\ indirect' = Forget(indirect, blocks)
    /\ data' = Forget(data, blocks)

\* Slip: the test lets a directory with one entry of its own pass.
HasManyEntries(ino) == inode[ino].size > 3

\* sfs_rmdir's test for emptiness: more than "." and "..".
HasEntries(ino) == inode[ino].size > 2

\* The blocks sfs_rmdir frees: only the first of a directory's blocks.
RmdirBlocks(ino) == {ino, inode[ino].direct[1]}

Rmdir(path) ==
    /\ Mounted
    /\ \/ path = "." /\ Refuse("Invalid argument")
       \/ path # "." /\ ~Exists(path) /\ Refuse("No such file or directory")
       \/ /\ path # "." /\ Exists(path)
          /\ \/ IsFile(path) /\ Refuse("Not a directory")
             \/ ~IsFile(path) /\ HasEntries(Ino(path)) /\ Refuse("Directory not empty")
             \/ /\ ~IsFile(path) /\ ~HasEntries(Ino(path))
                /\ Release(path, RmdirBlocks(Ino(path)))
                /\ Done
                /\ UNCHANGED cwd

\* Slip: the blocks behind the indirect block stay marked.
RmBlocksDirectOnly(ino) == ({ino, inode[ino].indirect} \cup Range(inode[ino].direct)) \ {0}

\* The blocks sfs_rm frees: all that the inode leads to.
RmBlocks(ino) ==
    LET i == inode[ino]
    IN  ({ino, i.indirect} \cup Range(i.direct)
           \cup (IF i.indirect # 0 THEN Range(indirect[i.indirect]) ELSE {})) \ {0}

Rm(path) ==
    /\ Mounted
    /\ \/ ~Exists(path) /\ Refuse("No such file or directory")
       \/ /\ Exists(path)
          /\ \/ ~IsFile(path) /\ Refuse("Is a directory")
             \/ /\ IsFile(path)
                /\ Release(path, RmBlocks(Ino(path)))
                /\ Done
                /\ UNCHANGED cwd

Mv(src, dst) ==
    /\ Mounted
    /\ \/ Exists(dst) /\ Refuse("Already exists")
       \/ ~Exists(dst) /\ ~Exists(src) /\ Refuse("No such file or directory")
       \/ /\ ~Exists(dst) /\ Exists(src)
          /\ dirBlock' = LET s == Slot(src)
                         IN  [dirBlock EXCEPT ![inode[cwd].direct[s[1]]][s[2]].sfd_name = dst]
          /\ Done
          /\ UNCHANGED <<cwd, bitmap, inode, indirect, data>>

----------------------------------------------------------------------------
\* sfs_cpin: copying a host file in.

\* Where the scan for the next block resumes: bitcheck.
After(n) ==
    LET word == (n + 1) \div WORDBITS
    IN  <<word \div MAPWORDS, word % MAPWORDS, (n + 1) % WORDBITS>>

\* Each of the scan's three loops starts at its bitcheck every time it is
\* entered, so the inner ones skip the start of every later word and block.
Scanned(bitcheck) ==
    {n \in Blocks : /\ n \div SFS_BLOCKBITS >= bitcheck[1]
                    /\ (n \div WORDBITS) % MAPWORDS >= bitcheck[2]
                    /\ n % WORDBITS >= bitcheck[3]}

\* Slip: the map is the one read before the inode took its block.
ScanStaleMap(taken, n) ==
    LET open == Blocks \ bitmap
    IN  [k \in 1 .. Min({n, Cardinality(open)}) |->
            CHOOSE b \in open : Cardinality({c \in open : c < b}) = k - 1]

\* The blocks the scans find when n are wanted, fewer if a scan finds none.
Scan(taken, n) ==
    LET found[k \in 0 .. n] ==
          IF k = 0 THEN << >>
          ELSE LET so_far == found[k - 1]
                   bitcheck == IF so_far = << >> THEN <<0, 0, 0>> ELSE After(Last(so_far))
                   open == Scanned(bitcheck) \ (taken \cup ToSet(so_far))
               IN  IF Len(so_far) < k - 1 \/ open = {} THEN so_far ELSE Append(so_far, Min(open))
    IN  found[n]

\* Blocks read from the host file: the end is noticed in a block that is not
\* full, so a last full block is followed by an empty one, if there may be more.
ReadBlocks(size) == Min({size \div SFS_BLOCKSIZE + 1, SFS_NDIRECT + SFS_DBPERIDB})

\* Blocks wanted: those and the indirect block, which comes after the direct ones.
Wanted(size) == LET n == ReadBlocks(size) IN IF n > SFS_NDIRECT THEN n + 1 ELSE n

Direct(found) == SubSeq(found, 1, Min({Len(found), SFS_NDIRECT}))
Indirect(found) == SubSeq(found, SFS_NDIRECT + 2, Len(found))
Stored(found) == Direct(found) \o Indirect(found)

\* Slip: the size is that of the host file whether or not it all fitted.
CopiedInodeFullSize(file, found) ==
    Inode("file", file.size, Direct(found),
          IF Len(found) > SFS_NDIRECT THEN found[SFS_NDIRECT + 1] ELSE 0)

CopiedInode(file, found) ==
    Inode("file", Min({file.size, Len(Stored(found)) * SFS_BLOCKSIZE}), Direct(found),
          IF Len(found) > SFS_NDIRECT THEN found[SFS_NDIRECT + 1] ELSE 0)

CopiedIndirect(found) ==
    IF Len(found) <= SFS_NDIRECT THEN indirect
    ELSE Put(indirect, found[SFS_NDIRECT + 1],
             [i \in 1 .. SFS_DBPERIDB |-> IF i <= Len(Indirect(found)) THEN Indirect(found)[i] ELSE 0])

EmptyChunk == << >>
CopiedData(file, found) ==
    [b \in DOMAIN data \cup ToSet(Stored(found)) |->
        IF b \notin ToSet(Stored(found)) THEN data[b]
        ELSE LET i == CHOOSE k \in DOMAIN Stored(found) : Stored(found)[k] = b
             IN  IF i <= Len(file.chunks) THEN file.chunks[i] ELSE EmptyChunk]

\* Slip: the map is not written after the copy.
MarkedBeforeCopy(emptyi, found) == bitmap \cup ToSet(emptyi)

Marked(emptyi, found) == bitmap \cup ToSet(emptyi) \cup ToSet(found)

Cpin(local_path, path) ==
    LET file == HostFile(path)
    IN
    /\ Mounted
    /\ \/ Exists(local_path) /\ Refuse("Already exists")
       \/ /\ ~Exists(local_path)
          /\ \/ file = NoFile /\ Refuse("can't open input file")
             \/ file.size > MaxFileSize /\ Refuse("exceeds the max file size")
             \/ file # NoFile /\ file.size <= MaxFileSize /\ NoRoom(1)
             \/ /\ file # NoFile /\ file.size <= MaxFileSize /\ Room(1)
                /\ LET emptyi == Lowest(Need(1))
                       ino == Last(emptyi)
                       found == Scan(bitmap \cup ToSet(emptyi), Wanted(file.size))
                   IN  /\ bitmap' = Marked(emptyi, found)
                       /\ inode' = Put(InodesEntered(emptyi[1]), ino, CopiedInode(file, found))
                       /\ dirBlock' = DirBlocksEntered(Entry(ino, local_path), emptyi[1])
                       /\ indirect' = CopiedIndirect(found)
                       /\ data' = CopiedData(file, found)
                       /\ lacking' = IF Len(found) < Wanted(file.size) THEN 1 ELSE 0
                /\ output' = NoFile
                /\ UNCHANGED cwd

----------------------------------------------------------------------------
\* sfs_cpout: copying a file out.

\* Whether the name is taken outside of the image is not this program's to say.
Cpout(local_path) ==
    /\ Mounted
    /\ \/ ~Exists(local_path) /\ Refuse("No such file or directory")
       \/ /\ Exists(local_path)
          /\ \/ ~IsFile(local_path) /\ Refuse("Is not a file")
             \/ IsFile(local_path) /\ Refuse("Already exists")
             \/ /\ IsFile(local_path)
                /\ output' = Content(Ino(local_path))
                /\ lacking' = 0
                /\ UNCHANGED <<cwd, disk>>

----------------------------------------------------------------------------
\* Two commands break the tree, since nothing is checked: rmdir of ".." in an empty
\* root directory frees the root (RootStays), and mv renames "." and ".." like any
\* other name: after mv . x in a directory, rmdir x there frees the working
\* directory.  These commands are steps; what commands do to the disk they leave
\* is not modelled, and the properties say nothing of it.

\* The names in directories: where, the name, the inode it stands for.
Links ==
    UNION {{<<d, At(d, s).sfd_name, At(d, s).sfd_ino>> : s \in {s \in Entries(d) : ~IsDot(d, s)}} :
              d \in Dirs}

RootLost == SFS_ROOT_LOCATION \notin bitmap

\* By a name other than "." or ".." a directory holds itself, or its parent.
DotRenamed ==
    LET links == Links
    IN  \E l, k \in links : l[1] = k[3] /\ l[3] = k[1]

Lost == RootLost \/ DotRenamed

Paths == Names \cup {".", ".."}

Command ==
    /\ ~Lost
    /\ \/ CdRoot
       \/ \E path \in Paths : Cd(path) \/ Rmdir(path) \/ Rm(path)
       \/ \E src, dst \in Paths : Mv(src, dst)
       \/ \E path \in Names : Touch(path) \/ Mkdir(path) \/ Cpout(path)
       \/ \E path \in Names, h \in HostFiles : Cpin(path, h)

Next == Mount \/ Umount \/ Command

Spec == Init /\ [][Next]_vars

----------------------------------------------------------------------------
\* Properties, of what has not been Lost.

InodeRecords ==
    [type : {"file", "dir"}, size : Nat, indirect : Blocks, direct : [1 .. SFS_NDIRECT -> Blocks]]

TypeOK ==
    /\ cwd \in Blocks
    /\ bitmap \subseteq Blocks
    /\ Range(inode) \subseteq InodeRecords
    /\ \A b \in DOMAIN dirBlock :
          dirBlock[b] \in [1 .. SFS_DENTRYPERBLOCK ->
                              [sfd_ino : Blocks, sfd_name : Paths \cup {""}]]
    /\ \A b \in DOMAIN indirect : indirect[b] \in [1 .. SFS_DBPERIDB -> Blocks]
    /\ lacking \in Nat
    /\ output = NoFile \/ output.size \in 0 .. MaxFileSize

(***************************************************************************)
(* No block belongs to two files or directories, and none that belongs to  *)
(* one is free in the map: the hand-written scans and the bits cleared by  *)
(* rm and rmdir keep the map in step with the inodes and entries.          *)
(***************************************************************************)
BlocksOwnedOnce ==
    ~Lost =>
        /\ Cardinality(LivePointers) = Cardinality(Pointed)
        /\ Pointed \subseteq bitmap \ (System \cup {SFS_ROOT_LOCATION})

(***************************************************************************)
(* What is lost is only room: every inode, indirect block and data block   *)
(* of the disk can be reached by name or pointer, so that rm frees it; the *)
(* blocks rmdir leaves behind hold no entry.                               *)
(***************************************************************************)
NothingOrphaned ==
    ~Lost =>
        /\ (DOMAIN inode \cup DOMAIN indirect \cup DOMAIN data) \ {SFS_ROOT_LOCATION} \subseteq Pointed
        /\ bitmap \ System = DOMAIN inode \cup DOMAIN dirBlock \cup DOMAIN indirect \cup DOMAIN data
        /\ \A b \in DOMAIN dirBlock \ Pointed : dirBlock[b] = NewDirBlock(<< >>)

Parent(d) == {e \in Dirs : \E s \in Entries(e) : At(e, s).sfd_ino = d /\ ~IsDot(e, s)}

(***************************************************************************)
(* As long as rmdir .. has not freed the root and mv has renamed no "." or *)
(* "..", directories form a tree that cd can walk: names are unique, "."   *)
(* is the directory and ".." the one that holds it, and the working        *)
(* directory is never removed under the user.  sfi_size counts the         *)
(* entries, so rmdir's test of it is a test for emptiness.                 *)
(***************************************************************************)
DirectoryTree ==
    ~Lost =>
        /\ cwd # SFS_NOINO => cwd \in Dirs
        /\ \A d \in Dirs :
              /\ inode[d].size = Cardinality(Entries(d))
              /\ \A s, t \in Entries(d) : At(d, s).sfd_name = At(d, t).sfd_name => s = t
              /\ \E s \in Named(d, ".") : At(d, s).sfd_ino = d
              /\ \E s \in Named(d, "..") :
                    {At(d, s).sfd_ino} = IF d = SFS_ROOT_LOCATION THEN {d} ELSE Parent(d)

\* The file is h up to some length.
IsPrefixOf(file, h) ==
    /\ file.size <= HostSize[h]
    /\ file.chunks = [i \in 1 .. ChunksOf(file.size) |-> <<h, i>>]

\* What touch makes or cpin copies.
FromHost(file) ==
    \/ file = [size |-> 0, chunks |-> << >>]
    \/ \E h \in HostFiles : IsPrefixOf(file, h)

(***************************************************************************)
(* Files read back as they were written: the bytes cpout takes from a file *)
(* are sfi_size many and the start of some host file (all of it, unless    *)
(* cpin found no more blocks; none if touch made the file), also when its  *)
(* blocks were used before.                                                *)
(***************************************************************************)
FilesReadBack ==
    /\ output # NoFile => FromHost(output)
    /\ ~Lost =>
          \A i \in FilesOn :
              /\ Content(i).size = inode[i].size
              /\ FromHost(Content(i))

----------------------------------------------------------------------------
\* What the user sees of it.

\* Each path from the root with the inode it leads to.
Deeper(paths, links) ==
    paths \cup UNION {{<<Append(r[1], l[2]), l[3]>> : l \in {k \in links : k[1] = r[2]}} : r \in paths}

PathsAlong(links) ==
    LET depth == Cardinality({l[1] : l \in links})
        upTo[k \in 0 .. depth] ==
            IF k = 0 THEN {<< << >>, SFS_ROOT_LOCATION>>} ELSE Deeper(upTo[k - 1], links)
    IN  upTo[depth]

Reached == PathsAlong(Links)

ADirectory == [size |-> -1, chunks |-> <<"directory">>]

VisibleTree ==
    {<<r[1], IF inode[r[2]].type = "file" THEN Content(r[2]) ELSE ADirectory>> : r \in Reached}

WorkingPath ==
    IF cwd \in {SFS_NOINO, SFS_ROOT_LOCATION} THEN << >>
    ELSE (CHOOSE r \in Reached : r[2] = cwd)[1]

\* What touch makes, and cpin of a host file, also if it runs out of blocks.
Beginnings ==
    {[size |-> 0, chunks |-> << >>]}
    \cup UNION {{[size |-> n, chunks |-> [i \in 1 .. ChunksOf(n) |-> <<h, i>>]] : n \in 0 .. HostSize[h]} :
              h \in HostFiles}

Tree == INSTANCE NameTree WITH
            Contents <- Beginnings, Directory <- ADirectory,
            tree <- VisibleTree, mounted <- cwd # SFS_NOINO, here <- WorkingPath

(***************************************************************************)
(* The commands do what their names say to a tree of names, and nothing    *)
(* else: no command changes a file or directory other than the one it      *)
(* names, mv takes along what is below, cpout gives what cpin stored, and  *)
(* a refused command changes nothing.  Only rmdir of ".." and mv of "." or *)
(* ".." can break the tree.                                                *)
(***************************************************************************)
ImplementsNameTree ==
    /\ Tree!Init
    /\ [][~Lost /\ <<disk, cwd, output>>' # <<disk, cwd, NoFile>> =>
             IF Lost' THEN Rmdir("..") \/ \E dst \in Names : Mv(".", dst) \/ Mv("..", dst)
             ELSE Tree!Next]_vars

----------------------------------------------------------------------------
\* What the source says and the commands do not keep.

(***************************************************************************)
(* sfs.h:11 gives block 1 to the root directory's inode for good: it is    *)
(* never free.                                                             *)
(***************************************************************************)
RootStays == SFS_ROOT_LOCATION \in bitmap

(***************************************************************************)
(* sfs_func_my.c:45 reports "No block available": fewer blocks are free    *)
(* than the command still wanted.                                          *)
(***************************************************************************)
NoBlockMeansNone == lacking > 0 => Cardinality(Free) < lacking

===========================================================================
