-------------------------- MODULE SfsWritesProofs --------------------------
(***************************************************************************)
(* Proofs about SfsWrites: what the image is between any two writes.       *)
(*                                                                         *)
(* Sane, the first part, holds of the image between two commands; in       *)
(* between, each write that is left leads from one image to another which  *)
(* is sane too, up to the one the command promises.                        *)
(***************************************************************************)
EXTENDS SfsWrites, SfsProofs

----------------------------------------------------------------------------
(***************************************************************************)
(* Disks of which only what has a name counts.                             *)
(*                                                                         *)
(* A death of the program leaves blocks marked that nothing leads to, and  *)
(* inodes without a name, so DiskOK does not hold any more. Sane is what   *)
(* does: it speaks of the inodes that have a name, and of none but these.  *)
(* What follows is about any disk and about one step of it; the image is   *)
(* followed through the writes with it.                                    *)
(***************************************************************************)

\* Some entry gives inode i a name.
Given(e, i) == \E c \in Blocks, j \in Columns : Gives(e, c, j) /\ e[c][j].sfd_ino = i

\* The inodes that have a name, without g, which is being made (0: none is).
Live(n, e, g) == {i \in DOMAIN n : i # g /\ (i = SFS_ROOT_LOCATION \/ Given(e, i))}

\* At place k, l inode i names the block c: in its fields, in its table, or in
\* an entry.
Place(n, e, y, i, k, l, c) ==
    \/ k \in Rows /\ l = 0 /\ c = n[i].direct[k]
    \/ k = 0 /\ l = 0 /\ c = n[i].indirect
    \/ k = 0 /\ l \in IndirectRows /\ n[i].indirect # 0 /\ c = y[n[i].indirect][l]
    \/ /\ n[i].type = "dir"
       /\ k \in Rows /\ l \in Columns /\ n[i].direct[k] # 0
       /\ Gives(e, n[i].direct[k], l) /\ c = e[n[i].direct[k]][l].sfd_ino

LeadsTo(n, e, y, i, c) == c # 0 /\ \E k, l : Place(n, e, y, i, k, l, c)

Typed(n, e, y, m) ==
    /\ n \in [DOMAIN n -> InodeRecords]
    /\ e \in [Blocks -> [Columns -> EntryRecords]]
    /\ y \in [Blocks -> [IndirectRows -> Blocks]]
    /\ m \subseteq Blocks /\ System \cup DOMAIN n \subseteq m /\ 0 \notin DOMAIN n
    /\ SFS_ROOT_LOCATION \in DOMAIN n /\ n[SFS_ROOT_LOCATION].type = "dir"

\* Directory d has the block c.
HasBlock(n, d, c) == n[d].type = "dir" /\ c # 0 /\ \E k \in Rows : n[d].direct[k] = c

NamesLead(n, e, g) ==
    \A c \in Blocks, j \in Columns :
        Gives(e, c, j) =>
            /\ e[c][j].sfd_ino \in DOMAIN n \cup {g}
            /\ \E d \in Live(n, e, g) : HasBlock(n, d, c)

TargetsMarked(n, e, y, m, g) ==
    \A i \in Live(n, e, g) : \A c : LeadsTo(n, e, y, i, c) => c \in m \ (System \cup {SFS_ROOT_LOCATION})

TargetsOnce(n, e, y, g) ==
    \A i, h \in Live(n, e, g) : \A k, l, p, q, c :
        c # 0 /\ Place(n, e, y, i, k, l, c) /\ Place(n, e, y, h, p, q, c) => i = h /\ k = p /\ l = q

\* The entries "." and ".." of d; p is its parent.
DotsIn(n, e, d, p) ==
    LET f == n[d].direct[1]
    IN  /\ f # 0
        /\ e[f][1] = Entry(d, ".")
        /\ e[f][2] = Entry(p, "..")
        /\ IF d = SFS_ROOT_LOCATION THEN p = d ELSE Holds(n, e, p, d)
        /\ \A k \in Rows, j \in Columns :
              Used(n, e, d, k, j) /\ e[n[d].direct[k]][j].sfd_name \in Dots => k = 1 /\ j \in {1, 2}

DirsFormed(n, e, g) ==
    \A d \in Live(n, e, g) :
        n[d].type = "dir" => \E p \in Live(n, e, g) : n[p].type = "dir" /\ DotsIn(n, e, d, p)

FileHeld(n, y, X, T, i) ==
    /\ n[i].indirect # 0 =>
          /\ n[i].indirect \in X
          /\ \A k \in IndirectRows : y[n[i].indirect][k] # 0 => y[n[i].indirect][k] \in T
    /\ \A k \in Rows : n[i].direct[k] # 0 => n[i].direct[k] \in T

FilesHeld(n, e, y, X, T, g) ==
    \A i \in Live(n, e, g) : n[i].type = "file" => FileHeld(n, y, X, T, i)

\* The size of a directory counts its entries, a file is the start of a host file.
Sized(n, e, y, z, i) ==
    /\ n[i].type = "dir" => Cardinality(UsedSlots(n, e, i)) <= n[i].size
    /\ n[i].type = "file" => FromHost(ContentIn(n, y, z, i))

AllSized(n, e, y, z) == \A i \in Live(n, e, 0) : Sized(n, e, y, z, i)

\* What the files hold, without h.
Files(n, e, y, z, h) == [i \in {j \in Live(n, e, h) : n[j].type = "file"} |-> ContentIn(n, y, z, i)]

Sane(n, e, y, z, m, X, T, g) ==
    /\ Typed(n, e, y, m) /\ g # SFS_ROOT_LOCATION
    /\ NamesLead(n, e, g)
    /\ TargetsMarked(n, e, y, m, g) /\ TargetsOnce(n, e, y, g)
    /\ DirsFormed(n, e, g)
    /\ FilesHeld(n, e, y, X, T, g)
    /\ AllSized(n, e, y, z)

----------------------------------------------------------------------------
\* Facts about one disk.

LEMMA LiveFacts ==
    ASSUME NEW n, NEW e, NEW y, NEW m, Typed(n, e, y, m), NEW g
    PROVE  /\ \A i \in Live(n, e, g) : /\ i \in DOMAIN n /\ i \in Blocks /\ i \in m /\ n[i] \in InodeRecords
                                       /\ n[i].type \in {"file", "dir"}
                                       /\ n[i].direct \in [Rows -> Blocks]
                                       /\ n[i].indirect \in Blocks /\ n[i].size \in Nat
                                       /\ i # g
           /\ g # SFS_ROOT_LOCATION => SFS_ROOT_LOCATION \in Live(n, e, g)
           /\ \A i \in DOMAIN n : Given(e, i) /\ i # g => i \in Live(n, e, g)
           /\ \A c \in Blocks : e[c] \in [Columns -> EntryRecords] /\ y[c] \in [IndirectRows -> Blocks]
BY DEF Typed, Live, InodeRecords, Rows

\* The block leads to is a block.
LEMMA PlaceBlock ==
    ASSUME NEW n, NEW e, NEW y, NEW m, Typed(n, e, y, m), NEW i \in DOMAIN n, NEW k, NEW l, NEW c,
           Place(n, e, y, i, k, l, c)
    PROVE  c \in Blocks
<1>1. /\ n[i].direct \in [Rows -> Blocks] /\ n[i].indirect \in Blocks
      /\ \A f \in Blocks : e[f] \in [Columns -> EntryRecords] /\ y[f] \in [IndirectRows -> Blocks]
  BY DEF Typed, InodeRecords, Rows
<1>2. CASE n[i].type = "dir" /\ k \in Rows /\ l \in Columns /\ c = e[n[i].direct[k]][l].sfd_ino
  <2>1. n[i].direct[k] \in Blocks
    BY <1>1, <1>2
  <2>2. e[n[i].direct[k]][l] \in EntryRecords
    BY <1>1, <1>2, <2>1
  <2>3. QED
    BY <1>2, <2>2, Zenon DEF EntryRecords
<1>3. CASE k \in Rows /\ l = 0 /\ c = n[i].direct[k]
  BY <1>1, <1>3
<1>4. CASE k = 0 /\ l = 0 /\ c = n[i].indirect
  BY <1>1, <1>4
<1>5. CASE k = 0 /\ l \in IndirectRows /\ n[i].indirect # 0 /\ c = y[n[i].indirect][l]
  BY <1>1, <1>5
<1>6. QED
  BY <1>2, <1>3, <1>4, <1>5 DEF Place

\* The places of an inode.
LEMMA PlacesLead ==
    ASSUME NEW n, NEW e, NEW y, NEW i
    PROVE  /\ \A k \in Rows : n[i].direct[k] # 0 => LeadsTo(n, e, y, i, n[i].direct[k])
           /\ n[i].indirect # 0 => LeadsTo(n, e, y, i, n[i].indirect)
           /\ n[i].indirect # 0 => \A l \in IndirectRows :
                 y[n[i].indirect][l] # 0 => LeadsTo(n, e, y, i, y[n[i].indirect][l])
           /\ n[i].type = "dir" => \A k \in Rows, l \in Columns :
                 n[i].direct[k] # 0 /\ Gives(e, n[i].direct[k], l)
                     => LeadsTo(n, e, y, i, e[n[i].direct[k]][l].sfd_ino)
<1>1. ASSUME NEW k \in Rows, n[i].direct[k] # 0 PROVE LeadsTo(n, e, y, i, n[i].direct[k])
  <2>1. Place(n, e, y, i, k, 0, n[i].direct[k])
    BY <1>1 DEF Place
  <2>2. QED
    BY <1>1, <2>1 DEF LeadsTo
<1>2. ASSUME n[i].indirect # 0 PROVE LeadsTo(n, e, y, i, n[i].indirect)
  <2>1. Place(n, e, y, i, 0, 0, n[i].indirect)
    BY <1>2 DEF Place
  <2>2. QED
    BY <1>2, <2>1 DEF LeadsTo
<1>3. ASSUME n[i].indirect # 0, NEW l \in IndirectRows, y[n[i].indirect][l] # 0
      PROVE  LeadsTo(n, e, y, i, y[n[i].indirect][l])
  <2>1. Place(n, e, y, i, 0, l, y[n[i].indirect][l])
    BY <1>3 DEF Place
  <2>2. QED
    BY <1>3, <2>1 DEF LeadsTo
<1>4. ASSUME n[i].type = "dir", NEW k \in Rows, NEW l \in Columns, n[i].direct[k] # 0, Gives(e, n[i].direct[k], l)
      PROVE  LeadsTo(n, e, y, i, e[n[i].direct[k]][l].sfd_ino)
  <2>1. Place(n, e, y, i, k, l, e[n[i].direct[k]][l].sfd_ino)
    BY <1>4 DEF Place
  <2>2. e[n[i].direct[k]][l].sfd_ino # 0
    BY <1>4 DEF Gives
  <2>3. QED
    BY <2>1, <2>2 DEF LeadsTo
<1>5. QED
  BY <1>1, <1>2, <1>3, <1>4

----------------------------------------------------------------------------
\* A step that leaves alone all that the names lead to.

Keeps(S, n, e, y, z, X, T, n2, e2, y2, z2, X2, T2) ==
    /\ \A i \in S : i \in DOMAIN n2 /\ n2[i] = n[i]
    /\ \A i \in S : \A c : LeadsTo(n, e, y, i, c) =>
          /\ e2[c] = e[c] /\ y2[c] = y[c] /\ z2[c] = z[c]
          /\ c \in X => c \in X2
          /\ c \in T => c \in T2
    /\ \A c \in Blocks, j \in Columns : Gives(e2, c, j) => Gives(e, c, j) /\ e2[c][j] = e[c][j]

\* Directory d has the same blocks in both images, and the same entries.
SameDir(n, e, n2, e2, d) ==
    /\ \A k \in Rows : n2[d].direct[k] = n[d].direct[k]
    /\ \A k \in Rows : n[d].direct[k] # 0 => e2[n[d].direct[k]] = e[n[d].direct[k]]

LEMMA SameDirIs ==
    ASSUME NEW n, NEW e, NEW n2, NEW e2, NEW d, SameDir(n, e, n2, e2, d)
    PROVE  /\ UsedSlots(n2, e2, d) = UsedSlots(n, e, d)
           /\ \A i : Holds(n, e, d, i) => Holds(n2, e2, d, i)
<1>1. ASSUME NEW k \in Rows
      PROVE  /\ n2[d].direct[k] = n[d].direct[k]
             /\ n[d].direct[k] # 0 => e2[n2[d].direct[k]] = e[n[d].direct[k]]
  BY DEF SameDir
<1>2. UsedSlots(n2, e2, d) = UsedSlots(n, e, d)
  <2>1. ASSUME NEW k \in Rows, NEW j \in Columns
        PROVE  Used(n2, e2, d, k, j) <=> Used(n, e, d, k, j)
    BY <1>1 DEF Used
  <2>2. QED
    BY <2>1 DEF UsedSlots
<1>3. ASSUME NEW i, Holds(n, e, d, i)
      PROVE  Holds(n2, e2, d, i)
  <2>1. PICK k \in Rows, j \in Columns :
               n[d].direct[k] # 0 /\ Gives(e, n[d].direct[k], j) /\ e[n[d].direct[k]][j].sfd_ino = i
    BY <1>3, Zenon DEF Holds
  <2>2. n2[d].direct[k] # 0 /\ Gives(e2, n2[d].direct[k], j) /\ e2[n2[d].direct[k]][j].sfd_ino = i
    BY <1>1, <2>1 DEF Gives
  <2>3. QED
    BY <2>2, Zenon DEF Holds
<1>4. QED
  BY <1>2, <1>3, Zenon

LEMMA FrameFacts ==
    ASSUME NEW n, NEW e, NEW y, NEW z, NEW m, NEW X, NEW T, NEW g, Sane(n, e, y, z, m, X, T, g),
           NEW n2, NEW e2, NEW y2, NEW z2, NEW m2, NEW X2, NEW T2, Typed(n2, e2, y2, m2),
           NEW S, S = Live(n, e, g),
           Keeps(S, n, e, y, z, X, T, n2, e2, y2, z2, X2, T2)
    PROVE  /\ Live(n2, e2, g) = S
           /\ \A i \in S : \A k, l, c : Place(n2, e2, y2, i, k, l, c) <=> Place(n, e, y, i, k, l, c)
           /\ \A c \in Blocks, j \in Columns : Gives(e2, c, j) <=> Gives(e, c, j)
           /\ \A c \in Blocks, j \in Columns : Gives(e, c, j) => e2[c][j] = e[c][j]
           /\ \A i \in S : n[i].type = "file" => ContentIn(n2, y2, z2, i) = ContentIn(n, y, z, i)
<1>1. /\ Typed(n, e, y, m) /\ NamesLead(n, e, g) /\ g # SFS_ROOT_LOCATION
  BY DEF Sane
<1>2. /\ \A i \in S : i \in DOMAIN n2 /\ n2[i] = n[i]
      /\ \A i \in S : \A c : LeadsTo(n, e, y, i, c) => e2[c] = e[c] /\ y2[c] = y[c] /\ z2[c] = z[c]
      /\ \A c \in Blocks, j \in Columns : Gives(e2, c, j) => Gives(e, c, j) /\ e2[c][j] = e[c][j]
  BY DEF Keeps
<1>3. /\ SFS_ROOT_LOCATION \in S
      /\ \A i \in S : i \in DOMAIN n /\ i # g
      /\ \A i \in DOMAIN n : Given(e, i) /\ i # g => i \in S
      /\ \A i \in S : i = SFS_ROOT_LOCATION \/ Given(e, i)
  BY <1>1, LiveFacts DEF Live
<1>4. ASSUME NEW c \in Blocks, NEW j \in Columns, Gives(e, c, j)
      PROVE  e2[c] = e[c]
  <2>1. PICK d \in S : HasBlock(n, d, c)
    BY <1>1, <1>4 DEF NamesLead
  <2>2. LeadsTo(n, e, y, d, c)
    BY <2>1, PlacesLead, Zenon DEF HasBlock
  <2>3. QED
    BY <1>2, <2>2
<1>5. \A c \in Blocks, j \in Columns : Gives(e2, c, j) <=> Gives(e, c, j)
  BY <1>2, <1>4 DEF Gives
<1>6. \A i : Given(e2, i) <=> Given(e, i)
  BY <1>2, <1>4, <1>5 DEF Given
<1>7. Live(n2, e2, g) = S
  <2>1. ASSUME NEW i \in DOMAIN n2, i # g, i = SFS_ROOT_LOCATION \/ Given(e2, i)
        PROVE  i \in S
    <3>1. CASE Given(e2, i)
      <4>1. Given(e, i)
        BY <1>6, <3>1
      <4>2. i \in DOMAIN n
        BY <1>1, <2>1, <4>1 DEF NamesLead, Given
      <4>3. QED
        BY <1>3, <2>1, <4>1, <4>2
    <3>2. QED
      BY <1>3, <2>1, <3>1
  <2>2. ASSUME NEW i \in S
        PROVE  i \in DOMAIN n2 /\ i # g /\ (i = SFS_ROOT_LOCATION \/ Given(e2, i))
    BY <1>2, <1>3, <1>6
  <2>3. QED
    BY <2>1, <2>2 DEF Live
<1>8. ASSUME NEW i \in S
      PROVE  /\ n2[i] = n[i]
             /\ \A k \in Rows : n[i].direct[k] # 0 => e2[n[i].direct[k]] = e[n[i].direct[k]]
             /\ \A k \in Rows : n[i].direct[k] # 0 => z2[n[i].direct[k]] = z[n[i].direct[k]]
             /\ n[i].indirect # 0 => y2[n[i].indirect] = y[n[i].indirect]
             /\ n[i].indirect # 0 => \A l \in IndirectRows :
                   y[n[i].indirect][l] # 0 => z2[y[n[i].indirect][l]] = z[y[n[i].indirect][l]]
  <2>1. /\ \A k \in Rows : n[i].direct[k] # 0 => LeadsTo(n, e, y, i, n[i].direct[k])
        /\ n[i].indirect # 0 => LeadsTo(n, e, y, i, n[i].indirect)
        /\ n[i].indirect # 0 => \A l \in IndirectRows :
              y[n[i].indirect][l] # 0 => LeadsTo(n, e, y, i, y[n[i].indirect][l])
    BY PlacesLead, Zenon
  <2>2. QED
    BY <1>2, <2>1
<1>9. ASSUME NEW i \in S, NEW k, NEW l, NEW c
      PROVE  Place(n2, e2, y2, i, k, l, c) <=> Place(n, e, y, i, k, l, c)
  <2>1. n2[i] = n[i]
    BY <1>8
  <2>2. (k = 0 /\ l \in IndirectRows /\ n[i].indirect # 0 /\ c = y2[n[i].indirect][l])
          <=> (k = 0 /\ l \in IndirectRows /\ n[i].indirect # 0 /\ c = y[n[i].indirect][l])
    BY <1>8
  <2>3. k \in Rows /\ n[i].direct[k] # 0 => e2[n[i].direct[k]] = e[n[i].direct[k]]
    BY <1>8
  <2>4. QED
    BY <2>1, <2>2, <2>3 DEF Place, Gives
<1>10. ASSUME NEW i \in S
       PROVE  ContentIn(n2, y2, z2, i) = ContentIn(n, y, z, i)
  <2>1. Tables(n, e, y) /\ DOMAIN y = Blocks /\ i \in DOMAIN n
    BY <1>1, <1>3 DEF Typed, Tables
  <2>2. n[i].indirect \in Blocks
    BY <1>1, <1>3, LiveFacts
  <2>3. QED
    BY <1>8, <2>1, <2>2, SameContent
<1>11. QED
  BY <1>4, <1>5, <1>7, <1>9, <1>10

LEMMA FrameLeads ==
    ASSUME NEW n, NEW e, NEW y, NEW z, NEW m, NEW X, NEW T, NEW g, Sane(n, e, y, z, m, X, T, g),
           NEW n2, NEW e2, NEW y2, NEW z2, NEW m2, NEW X2, NEW T2, Typed(n2, e2, y2, m2),
           NEW S, S = Live(n, e, g),
           Keeps(S, n, e, y, z, X, T, n2, e2, y2, z2, X2, T2)
    PROVE  \A i \in S : \A c : LeadsTo(n2, e2, y2, i, c) <=> LeadsTo(n, e, y, i, c)
<1>1. \A i \in S : \A k, l, c : Place(n2, e2, y2, i, k, l, c) <=> Place(n, e, y, i, k, l, c)
  BY FrameFacts
<1>2. QED
  BY <1>1 DEF LeadsTo

\* What the inodes of S lead to is in m.
LedIn(S, n, e, y, m) == \A i \in S : \A c : LeadsTo(n, e, y, i, c) => c \in m

LEMMA FrameSane ==
    ASSUME NEW n, NEW e, NEW y, NEW z, NEW m, NEW X, NEW T, NEW g, Sane(n, e, y, z, m, X, T, g),
           NEW n2, NEW e2, NEW y2, NEW z2, NEW m2, NEW X2, NEW T2, Typed(n2, e2, y2, m2),
           NEW S, S = Live(n, e, g),
           Keeps(S, n, e, y, z, X, T, n2, e2, y2, z2, X2, T2),
           LedIn(S, n, e, y, m2),
           g \in Live(n2, e2, 0) => Sized(n2, e2, y2, z2, g)
    PROVE  /\ Sane(n2, e2, y2, z2, m2, X2, T2, g)
           /\ Live(n2, e2, g) = S
           /\ Files(n2, e2, y2, z2, g) = Files(n, e, y, z, g)
           /\ \A i \in S : n[i].type = "dir" => UsedSlots(n2, e2, i) = UsedSlots(n, e, i)
<1>1. /\ Typed(n, e, y, m) /\ NamesLead(n, e, g) /\ g # SFS_ROOT_LOCATION
      /\ TargetsMarked(n, e, y, m, g) /\ TargetsOnce(n, e, y, g)
      /\ DirsFormed(n, e, g) /\ FilesHeld(n, e, y, X, T, g) /\ AllSized(n, e, y, z)
  BY DEF Sane
<1>2. /\ Live(n2, e2, g) = S
      /\ \A i \in S : \A k, l, c : Place(n2, e2, y2, i, k, l, c) <=> Place(n, e, y, i, k, l, c)
      /\ \A c \in Blocks, j \in Columns : Gives(e2, c, j) <=> Gives(e, c, j)
      /\ \A c \in Blocks, j \in Columns : Gives(e, c, j) => e2[c][j] = e[c][j]
      /\ \A i \in S : n[i].type = "file" => ContentIn(n2, y2, z2, i) = ContentIn(n, y, z, i)
  BY FrameFacts
<1>3. \A i \in S : i \in DOMAIN n2 /\ n2[i] = n[i]
  BY DEF Keeps
<1>4. \A i \in S : \A c : LeadsTo(n2, e2, y2, i, c) <=> LeadsTo(n, e, y, i, c)
  BY <1>2 DEF LeadsTo
<1>5. NamesLead(n2, e2, g)
  <2>1. ASSUME NEW c \in Blocks, NEW j \in Columns, Gives(e2, c, j)
        PROVE  e2[c][j].sfd_ino \in DOMAIN n2 \cup {g} /\ \E d \in S : HasBlock(n2, d, c)
    <3>1. Gives(e, c, j) /\ e2[c][j] = e[c][j]
      BY <1>2, <2>1
    <3>2. e[c][j].sfd_ino \in DOMAIN n \cup {g} /\ \E d \in S : HasBlock(n, d, c)
      BY <1>1, <3>1 DEF NamesLead
    <3>3. e[c][j].sfd_ino # g => e[c][j].sfd_ino \in S
      <4>1. Given(e, e[c][j].sfd_ino)
        BY <3>1 DEF Given
      <4>2. QED
        BY <1>1, <3>2, <4>1, LiveFacts
    <3>4. QED
      BY <1>3, <3>1, <3>2, <3>3 DEF HasBlock
  <2>2. QED
    BY <1>2, <2>1 DEF NamesLead
<1>6. TargetsMarked(n2, e2, y2, m2, g)
  BY <1>1, <1>2, <1>4 DEF TargetsMarked, LedIn
<1>7. TargetsOnce(n2, e2, y2, g)
  BY <1>1, <1>2 DEF TargetsOnce
<1>8. ASSUME NEW i \in S, n[i].type = "dir"
      PROVE  /\ \A k \in Rows : n[i].direct[k] # 0 => e2[n[i].direct[k]] = e[n[i].direct[k]]
             /\ UsedSlots(n2, e2, i) = UsedSlots(n, e, i)
             /\ \A h : Holds(n, e, i, h) => Holds(n2, e2, i, h)
  <2>1. \A k \in Rows : n[i].direct[k] # 0 => e2[n[i].direct[k]] = e[n[i].direct[k]]
    BY PlacesLead, Zenon DEF Keeps
  <2>2. \A k \in Rows : n2[i].direct[k] = n[i].direct[k]
    <3>1. n2[i] = n[i]
      BY <1>3
    <3>2. QED
      BY <3>1
  <2>3. SameDir(n, e, n2, e2, i)
    BY <2>1, <2>2, Zenon DEF SameDir
  <2>4. UsedSlots(n2, e2, i) = UsedSlots(n, e, i)
    BY <2>3, SameDirIs
  <2>5. \A h : Holds(n, e, i, h) => Holds(n2, e2, i, h)
    BY <2>3, SameDirIs, Zenon
  <2>6. QED
    BY <2>1, <2>4, <2>5
<1>9. DirsFormed(n2, e2, g)
  <2>1. ASSUME NEW d \in S, n2[d].type = "dir"
        PROVE  \E p \in S : n2[p].type = "dir" /\ DotsIn(n2, e2, d, p)
    <3>1. n2[d] = n[d] /\ n[d].type = "dir"
      BY <1>3, <2>1
    <3>2. PICK p \in S : n[p].type = "dir" /\ DotsIn(n, e, d, p)
      BY <1>1, <3>1 DEF DirsFormed
    <3>3. d # SFS_ROOT_LOCATION => Holds(n2, e2, p, d)
      BY <1>8, <3>2 DEF DotsIn
    <3>4. n[d].direct[1] # 0 /\ 1 \in Rows
      BY <3>2, SfsAssumption DEF DotsIn, Rows
    <3>5. DotsIn(n2, e2, d, p)
      <4>1. e2[n[d].direct[1]] = e[n[d].direct[1]]
        BY <1>8, <3>1, <3>4
      <4>2. \A k \in Rows, j \in Columns :
              Used(n2, e2, d, k, j) => Used(n, e, d, k, j) /\ e2[n2[d].direct[k]][j] = e[n[d].direct[k]][j]
        BY <1>8, <3>1 DEF Used
      <4>3. QED
        BY <3>1, <3>2, <3>3, <3>4, <4>1, <4>2 DEF DotsIn
    <3>6. QED
      BY <1>3, <3>2, <3>5
  <2>2. QED
    BY <1>2, <2>1 DEF DirsFormed
<1>10. FilesHeld(n2, e2, y2, X2, T2, g)
  <2>1. ASSUME NEW i \in S, n2[i].type = "file"
        PROVE  FileHeld(n2, y2, X2, T2, i)
    <3>1. n2[i] = n[i] /\ FileHeld(n, y, X, T, i)
      BY <1>1, <1>3, <2>1 DEF FilesHeld
    <3>2. /\ \A k \in Rows : n[i].direct[k] # 0 /\ n[i].direct[k] \in T => n[i].direct[k] \in T2
          /\ n[i].indirect # 0 =>
                /\ y2[n[i].indirect] = y[n[i].indirect]
                /\ n[i].indirect \in X => n[i].indirect \in X2
                /\ \A l \in IndirectRows :
                      y[n[i].indirect][l] # 0 /\ y[n[i].indirect][l] \in T => y[n[i].indirect][l] \in T2
      BY PlacesLead DEF Keeps
    <3>3. QED
      BY <3>1, <3>2 DEF FileHeld
  <2>2. QED
    BY <1>2, <2>1 DEF FilesHeld
<1>11. AllSized(n2, e2, y2, z2)
  <2>1. ASSUME NEW i \in Live(n2, e2, 0)
        PROVE  Sized(n2, e2, y2, z2, i)
    <3>1. CASE i = g
      BY <2>1, <3>1
    <3>2. CASE i # g
      <4>1. i \in S
        BY <1>2, <3>2 DEF Live
      <4>2. i \in Live(n, e, 0)
        <5>1. i # 0
          BY <2>1 DEF Live
        <5>2. QED
          BY <4>1, <5>1 DEF Live
      <4>3. Sized(n, e, y, z, i)
        BY <1>1, <4>2 DEF AllSized
      <4>4. n2[i] = n[i]
        BY <1>3, <4>1
      <4>5. QED
        BY <1>2, <1>8, <4>1, <4>3, <4>4 DEF Sized
    <3>3. QED
      BY <3>1, <3>2
  <2>2. QED
    BY <2>1 DEF AllSized
<1>12. Files(n2, e2, y2, z2, g) = Files(n, e, y, z, g)
  <2>1. {j \in Live(n2, e2, g) : n2[j].type = "file"} = {j \in Live(n, e, g) : n[j].type = "file"}
    BY <1>2, <1>3
  <2>2. QED
    BY <1>2, <2>1 DEF Files
<1>13. QED
  BY <1>1, <1>2, <1>4, <1>5, <1>6, <1>7, <1>8, <1>9, <1>10, <1>11, <1>12 DEF Sane

----------------------------------------------------------------------------
\* A directory's inode is written: its size, and a block it has taken.

\* n2 is n with another inode d; what d is and the table it has are the same.
Altered(n, n2, d) ==
    /\ n2 \in [DOMAIN n -> InodeRecords] /\ DOMAIN n2 = DOMAIN n
    /\ \A i \in DOMAIN n : i # d => n2[i] = n[i]
    /\ n2[d].type = n[d].type /\ n2[d].indirect = n[d].indirect

LEMMA ResizeSane ==
    ASSUME NEW n, NEW e, NEW y, NEW z, NEW m, NEW X, NEW T, NEW g, Sane(n, e, y, z, m, X, T, g),
           NEW d \in Live(n, e, g), n[d].type = "dir",
           NEW n2, Altered(n, n2, d), n2[d].direct = n[d].direct,
           Cardinality(UsedSlots(n, e, d)) <= n2[d].size
    PROVE  /\ Sane(n2, e, y, z, m, X, T, g)
           /\ \A h : Live(n2, e, h) = Live(n, e, h)
           /\ \A h : Files(n2, e, y, z, h) = Files(n, e, y, z, h)
<1>1. /\ Typed(n, e, y, m) /\ NamesLead(n, e, g) /\ g # SFS_ROOT_LOCATION
      /\ TargetsMarked(n, e, y, m, g) /\ TargetsOnce(n, e, y, g)
      /\ DirsFormed(n, e, g) /\ FilesHeld(n, e, y, X, T, g) /\ AllSized(n, e, y, z)
  BY DEF Sane
<1>2. /\ DOMAIN n2 = DOMAIN n /\ n2 \in [DOMAIN n2 -> InodeRecords]
      /\ \A i \in DOMAIN n : n2[i].type = n[i].type /\ n2[i].indirect = n[i].indirect
                             /\ n2[i].direct = n[i].direct
      /\ \A i \in DOMAIN n : i # d => n2[i] = n[i]
  BY DEF Altered
<1>3. \A h : Live(n2, e, h) = Live(n, e, h)
  BY <1>2 DEF Live
<1>4. \A h, i : i \in Live(n, e, h) => i \in DOMAIN n
  BY DEF Live
<1>5. Typed(n2, e, y, m)
  BY <1>1, <1>2, SfsAssumption DEF Typed
<1>6. \A i \in DOMAIN n : \A k, l, c : Place(n2, e, y, i, k, l, c) <=> Place(n, e, y, i, k, l, c)
  BY <1>2 DEF Place
<1>7. \A i \in DOMAIN n : \A c : LeadsTo(n2, e, y, i, c) <=> LeadsTo(n, e, y, i, c)
  BY <1>6 DEF LeadsTo
<1>8. \A i \in DOMAIN n : \A c : HasBlock(n2, i, c) <=> HasBlock(n, i, c)
  BY <1>2 DEF HasBlock
<1>9. NamesLead(n2, e, g)
  <2>1. \A c \in Blocks, j \in Columns : Gives(e, c, j) =>
           e[c][j].sfd_ino \in DOMAIN n2 \cup {g} /\ \E h \in Live(n2, e, g) : HasBlock(n2, h, c)
    BY <1>1, <1>2, <1>3, <1>4, <1>8 DEF NamesLead
  <2>2. QED
    BY <2>1 DEF NamesLead
<1>10. TargetsMarked(n2, e, y, m, g) /\ TargetsOnce(n2, e, y, g)
  BY <1>1, <1>3, <1>4, <1>6, <1>7 DEF TargetsMarked, TargetsOnce
<1>11. DirsFormed(n2, e, g)
  <2>1. \A p, h \in DOMAIN n : Holds(n2, e, p, h) <=> Holds(n, e, p, h)
    BY <1>2 DEF Holds
  <2>2. \A h, p \in DOMAIN n : DotsIn(n, e, h, p) => DotsIn(n2, e, h, p)
    BY <1>2, <2>1 DEF DotsIn, Used
  <2>3. QED
    BY <1>1, <1>2, <1>3, <1>4, <2>2 DEF DirsFormed
<1>12. FilesHeld(n2, e, y, X, T, g)
  BY <1>1, <1>2, <1>3, <1>4 DEF FilesHeld, FileHeld
<1>13. \A i \in DOMAIN n : n[i].type = "file" => ContentIn(n2, y, z, i) = ContentIn(n, y, z, i)
  <2>1. \A i \in DOMAIN n : n[i].type = "file" => n2[i] = n[i]
    BY <1>2
  <2>2. QED
    BY <2>1 DEF ContentIn, BlocksIn
<1>14. AllSized(n2, e, y, z)
  <2>1. ASSUME NEW i \in Live(n, e, 0)
        PROVE  Sized(n2, e, y, z, i)
    <3>1. i \in DOMAIN n /\ Sized(n, e, y, z, i)
      BY <1>1, <1>4, <2>1 DEF AllSized
    <3>2. UsedSlots(n2, e, i) = UsedSlots(n, e, i)
      BY <1>2, <3>1, Zenon DEF UsedSlots, Used
    <3>3. CASE i = d
      BY <1>2, <3>1, <3>2, <3>3 DEF Sized
    <3>4. CASE i # d
      BY <1>2, <1>13, <3>1, <3>2, <3>4 DEF Sized
    <3>5. QED
      BY <3>3, <3>4
  <2>2. QED
    BY <1>3, <2>1 DEF AllSized
<1>15. ASSUME NEW h
       PROVE  Files(n2, e, y, z, h) = Files(n, e, y, z, h)
  <2>1. {j \in Live(n2, e, h) : n2[j].type = "file"} = {j \in Live(n, e, h) : n[j].type = "file"}
    BY <1>2, <1>3, <1>4
  <2>2. QED
    BY <1>4, <1>13, <2>1 DEF Files
<1>16. QED
  BY <1>1, <1>3, <1>5, <1>9, <1>10, <1>11, <1>12, <1>14, <1>15 DEF Sane

LEMMA GrowSane ==
    ASSUME NEW n, NEW e, NEW y, NEW z, NEW m, NEW X, NEW T, NEW g, Sane(n, e, y, z, m, X, T, g),
           NEW d \in Live(n, e, g), n[d].type = "dir",
           NEW k \in Rows, n[d].direct[k] = 0,
           NEW c \in m \ (System \cup {SFS_ROOT_LOCATION}), \A j \in Columns : e[c][j].sfd_ino = 0,
           \A i \in Live(n, e, g) : ~LeadsTo(n, e, y, i, c),
           NEW n2, Altered(n, n2, d), n[d].size <= n2[d].size,
           \A l \in Rows : n2[d].direct[l] = IF l = k THEN c ELSE n[d].direct[l]
    PROVE  /\ Sane(n2, e, y, z, m, X, T, g)
           /\ \A h : Live(n2, e, h) = Live(n, e, h)
           /\ \A h : Files(n2, e, y, z, h) = Files(n, e, y, z, h)
           /\ UsedSlots(n2, e, d) = UsedSlots(n, e, d)
<1>1. /\ Typed(n, e, y, m) /\ NamesLead(n, e, g) /\ g # SFS_ROOT_LOCATION
      /\ TargetsMarked(n, e, y, m, g) /\ TargetsOnce(n, e, y, g)
      /\ DirsFormed(n, e, g) /\ FilesHeld(n, e, y, X, T, g) /\ AllSized(n, e, y, z)
  BY DEF Sane
<1>2. /\ DOMAIN n2 = DOMAIN n /\ n2 \in [DOMAIN n2 -> InodeRecords]
      /\ \A i \in DOMAIN n : n2[i].type = n[i].type /\ n2[i].indirect = n[i].indirect
      /\ \A i \in DOMAIN n : i # d => n2[i] = n[i]
  BY DEF Altered
<1>3. \A h : Live(n2, e, h) = Live(n, e, h)
  BY <1>2 DEF Live
<1>4. (\A h, i : i \in Live(n, e, h) => i \in DOMAIN n) /\ d \in DOMAIN n
  BY DEF Live
<1>5. Typed(n2, e, y, m)
  BY <1>1, <1>2, <1>4 DEF Typed
<1>6. /\ 0 \in System /\ c # 0 /\ c \in Blocks
      /\ \A j \in Columns : ~Gives(e, c, j)
  BY <1>1, VolumeFacts DEF Gives, Typed
<1>7. ASSUME NEW i \in DOMAIN n, NEW k2, NEW l2, NEW c2, Place(n2, e, y, i, k2, l2, c2)
      PROVE  Place(n, e, y, i, k2, l2, c2) \/ (i = d /\ k2 = k /\ l2 = 0 /\ c2 = c)
  <2>1. CASE i # d
    BY <1>2, <1>7, <2>1 DEF Place
  <2>2. CASE i = d
    <3>1. CASE k2 = 0
      BY <1>2, <1>7, <2>2, <3>1 DEF Place, Rows
    <3>2. CASE k2 \in Rows /\ k2 # k
      BY <1>2, <1>7, <2>2, <3>2 DEF Place, Rows
    <3>3. CASE k2 = k
      <4>1. n2[i].direct[k] = c /\ k # 0
        BY <2>2 DEF Rows
      <4>2. QED
        BY <1>6, <1>7, <2>2, <3>3, <4>1 DEF Place
    <3>4. QED
      BY <1>7, <3>1, <3>2, <3>3 DEF Place
  <2>3. QED
    BY <2>1, <2>2
<1>8. \A i \in DOMAIN n : \A f : HasBlock(n, i, f) => HasBlock(n2, i, f)
  BY <1>2 DEF HasBlock
<1>9. NamesLead(n2, e, g)
  <2>1. \A f \in Blocks, j \in Columns : Gives(e, f, j) =>
           e[f][j].sfd_ino \in DOMAIN n2 \cup {g} /\ \E h \in Live(n2, e, g) : HasBlock(n2, h, f)
    BY <1>1, <1>2, <1>3, <1>4, <1>8 DEF NamesLead
  <2>2. QED
    BY <2>1 DEF NamesLead
<1>10. TargetsMarked(n2, e, y, m, g)
  <2>1. ASSUME NEW i \in Live(n, e, g), NEW f, LeadsTo(n2, e, y, i, f)
        PROVE  f \in m \ (System \cup {SFS_ROOT_LOCATION})
    <3>1. LeadsTo(n, e, y, i, f) \/ f = c
      BY <1>4, <1>7, <2>1 DEF LeadsTo
    <3>2. QED
      BY <1>1, <3>1 DEF TargetsMarked
  <2>2. QED
    BY <1>3, <2>1 DEF TargetsMarked
<1>11. TargetsOnce(n2, e, y, g)
  <2>1. ASSUME NEW i \in Live(n, e, g), NEW h \in Live(n, e, g), NEW k1, NEW l1, NEW k2, NEW l2, NEW f, f # 0,
               Place(n2, e, y, i, k1, l1, f), Place(n2, e, y, h, k2, l2, f)
        PROVE  i = h /\ k1 = k2 /\ l1 = l2
    <3>1. Place(n, e, y, i, k1, l1, f) \/ (i = d /\ k1 = k /\ l1 = 0 /\ f = c)
      BY <1>4, <1>7, <2>1
    <3>2. Place(n, e, y, h, k2, l2, f) \/ (h = d /\ k2 = k /\ l2 = 0 /\ f = c)
      BY <1>4, <1>7, <2>1
    <3>3. ~Place(n, e, y, i, k1, l1, c) /\ ~Place(n, e, y, h, k2, l2, c)
      BY <1>6 DEF LeadsTo
    <3>4. CASE f = c
      BY <3>1, <3>2, <3>3, <3>4
    <3>5. CASE f # c
      BY <1>1, <2>1, <3>1, <3>2, <3>5 DEF TargetsOnce
    <3>6. QED
      BY <3>4, <3>5
  <2>2. QED
    BY <1>3, <2>1 DEF TargetsOnce
<1>12. \A i \in DOMAIN n, k2 \in Rows, j \in Columns :
          /\ Used(n2, e, i, k2, j) <=> Used(n, e, i, k2, j)
          /\ Used(n, e, i, k2, j) => n2[i].direct[k2] = n[i].direct[k2]
  BY <1>2 DEF Used
<1>13. DirsFormed(n2, e, g)
  <2>1. \A p, h \in DOMAIN n : Holds(n, e, p, h) => Holds(n2, e, p, h)
    BY <1>2 DEF Holds
  <2>2. ASSUME NEW h \in DOMAIN n, NEW p \in DOMAIN n, DotsIn(n, e, h, p)
        PROVE  DotsIn(n2, e, h, p)
    <3>1. n[h].direct[1] # 0 /\ 1 \in Rows
      BY <2>2, SfsAssumption DEF DotsIn, Rows
    <3>2. n2[h].direct[1] = n[h].direct[1]
      BY <1>2, <3>1
    <3>3. \A k2 \in Rows, j \in Columns :
             Used(n2, e, h, k2, j) => Used(n, e, h, k2, j) /\ n2[h].direct[k2] = n[h].direct[k2]
      BY <1>12
    <3>4. h # SFS_ROOT_LOCATION => Holds(n2, e, p, h)
      BY <2>1, <2>2 DEF DotsIn
    <3>5. QED
      BY <2>2, <3>1, <3>2, <3>3, <3>4 DEF DotsIn
  <2>3. QED
    BY <1>1, <1>2, <1>3, <1>4, <2>2 DEF DirsFormed
<1>14. FilesHeld(n2, e, y, X, T, g)
  BY <1>1, <1>2, <1>3, <1>4 DEF FilesHeld, FileHeld
<1>15. \A i \in DOMAIN n : n[i].type = "file" => ContentIn(n2, y, z, i) = ContentIn(n, y, z, i)
  <2>1. \A i \in DOMAIN n : n[i].type = "file" => n2[i] = n[i]
    BY <1>2
  <2>2. QED
    BY <2>1 DEF ContentIn, BlocksIn
<1>16. \A i \in DOMAIN n : UsedSlots(n2, e, i) = UsedSlots(n, e, i)
  BY <1>12 DEF UsedSlots
<1>17. AllSized(n2, e, y, z)
  <2>1. ASSUME NEW i \in Live(n, e, 0)
        PROVE  Sized(n2, e, y, z, i)
    <3>1. i \in DOMAIN n /\ Sized(n, e, y, z, i)
      BY <1>1, <1>4, <2>1 DEF AllSized
    <3>2. UsedSlots(n2, e, i) = UsedSlots(n, e, i)
      BY <1>16, <3>1
    <3>3. CASE i = d
      <4>1. n[d].size \in Nat /\ n2[d].size \in Nat /\ Cardinality(UsedSlots(n, e, d)) \in Nat
        BY <1>1, <1>2, <1>4, UsedFinite DEF Typed, InodeRecords
      <4>2. QED
        BY <1>2, <3>1, <3>2, <3>3, <4>1 DEF Sized
    <3>4. CASE i # d
      BY <1>2, <1>15, <3>1, <3>2, <3>4 DEF Sized
    <3>5. QED
      BY <3>3, <3>4
  <2>2. QED
    BY <1>3, <2>1 DEF AllSized
<1>18. ASSUME NEW h
       PROVE  Files(n2, e, y, z, h) = Files(n, e, y, z, h)
  <2>1. {j \in Live(n2, e, h) : n2[j].type = "file"} = {j \in Live(n, e, h) : n[j].type = "file"}
    BY <1>2, <1>3, <1>4
  <2>2. QED
    BY <1>4, <1>15, <2>1 DEF Files
<1>19. QED
  BY <1>1, <1>3, <1>4, <1>5, <1>9, <1>10, <1>11, <1>13, <1>14, <1>16, <1>17, <1>18 DEF Sane

----------------------------------------------------------------------------
\* An entry is written.

LEMMA EnterSane ==
    ASSUME NEW n, NEW e, NEW y, NEW z, NEW m, NEW X, NEW T, Sane(n, e, y, z, m, X, T, 0),
           NEW d \in Live(n, e, 0), n[d].type = "dir", NEW k \in Rows, NEW j \in Columns,
           NEW c, c = n[d].direct[k], c # 0, e[c][j].sfd_ino = 0,
           NEW f \in m \ (System \cup {SFS_ROOT_LOCATION}), f \notin DOMAIN n,
           \A i \in Live(n, e, 0) : ~LeadsTo(n, e, y, i, f),
           NEW name \in Names, NEW e2, EntrySet(e, e2, c, j, Entry(f, name)),
           Cardinality(UsedSlots(n, e, d)) + 1 <= n[d].size
    PROVE  /\ Sane(n, e2, y, z, m, X, T, f)
           /\ \A h : Live(n, e2, h) = Live(n, e, h)
           /\ \A h : Files(n, e2, y, z, h) = Files(n, e, y, z, h)
           /\ Live(n, e2, f) = Live(n, e, 0)
           /\ Given(e2, f)
<1>1. /\ Typed(n, e, y, m) /\ NamesLead(n, e, 0)
      /\ TargetsMarked(n, e, y, m, 0) /\ TargetsOnce(n, e, y, 0)
      /\ DirsFormed(n, e, 0) /\ FilesHeld(n, e, y, X, T, 0) /\ AllSized(n, e, y, z)
  BY DEF Sane
<1>2. /\ e \in [Blocks -> [Columns -> EntryRecords]] /\ 0 \notin DOMAIN n
      /\ m \subseteq Blocks /\ 0 \in System /\ f # 0 /\ f \in Blocks /\ f # SFS_ROOT_LOCATION
      /\ SFS_ROOT_LOCATION \in DOMAIN n
  BY <1>1, VolumeFacts DEF Typed
<1>3. d \in DOMAIN n /\ c \in Blocks
  BY <1>1, LiveFacts
<1>4. Entry(f, name).sfd_ino = f /\ Entry(f, name).sfd_name \notin Dots
  BY SfsAssumption DEF Entry, Dots
<1>5. /\ e2 \in [Blocks -> [Columns -> EntryRecords]]
      /\ \A b \in Blocks, i \in Columns :
            e2[b][i] = IF b = c /\ i = j THEN Entry(f, name) ELSE e[b][i]
  BY <1>2 DEF EntrySet
<1>6. \A b \in Blocks, i \in Columns : Gives(e2, b, i) <=> Gives(e, b, i) \/ (b = c /\ i = j)
  BY <1>2, <1>4, <1>5 DEF Gives
<1>7. Given(e2, f) /\ \A i : i # f => (Given(e2, i) <=> Given(e, i))
  <2>1. Given(e2, f)
    BY <1>3, <1>4, <1>5, <1>6 DEF Given
  <2>2. ASSUME NEW i, i # f, Given(e2, i) PROVE Given(e, i)
    BY <1>4, <1>5, <1>6, <2>2 DEF Given
  <2>3. ASSUME NEW i, i # f, Given(e, i) PROVE Given(e2, i)
    <3>1. PICK b \in Blocks, l \in Columns : Gives(e, b, l) /\ e[b][l].sfd_ino = i
      BY <2>3 DEF Given
    <3>2. ~(b = c /\ l = j)
      BY <3>1 DEF Gives
    <3>3. QED
      BY <1>5, <1>6, <3>1, <3>2 DEF Given
  <2>4. QED
    BY <2>1, <2>2, <2>3
<1>8. \A h : Live(n, e2, h) = Live(n, e, h)
  BY <1>7 DEF Live
<1>9. Live(n, e, f) = Live(n, e, 0)
  BY <1>2 DEF Live
<1>10. DEFINE S == Live(n, e, 0)
<1>11. \A i \in S : i \in DOMAIN n /\ n[i].direct \in [Rows -> Blocks]
  BY <1>1, LiveFacts
<1>12. Typed(n, e2, y, m)
  BY <1>1, <1>5 DEF Typed
<1>13. ASSUME NEW i \in S, NEW k2 \in Rows, n[i].direct[k2] = c
       PROVE  i = d /\ k2 = k
  <2>1. Place(n, e, y, i, k2, 0, c) /\ Place(n, e, y, d, k, 0, c)
    BY <1>13 DEF Place
  <2>2. QED
    BY <1>1, <2>1 DEF TargetsOnce
<1>14. ASSUME NEW i \in S, NEW k2, NEW l2, NEW c2, Place(n, e2, y, i, k2, l2, c2)
       PROVE  Place(n, e, y, i, k2, l2, c2) \/ (i = d /\ k2 = k /\ l2 = j /\ c2 = f)
  <2>1. CASE /\ n[i].type = "dir" /\ k2 \in Rows /\ l2 \in Columns /\ n[i].direct[k2] # 0
             /\ Gives(e2, n[i].direct[k2], l2) /\ c2 = e2[n[i].direct[k2]][l2].sfd_ino
    <3>1. n[i].direct[k2] \in Blocks
      BY <1>11, <2>1
    <3>2. CASE n[i].direct[k2] = c /\ l2 = j
      BY <1>4, <1>5, <1>13, <2>1, <3>1, <3>2
    <3>3. CASE ~(n[i].direct[k2] = c /\ l2 = j)
      <4>1. Gives(e, n[i].direct[k2], l2) /\ e2[n[i].direct[k2]][l2] = e[n[i].direct[k2]][l2]
        BY <1>5, <1>6, <2>1, <3>1, <3>3
      <4>2. QED
        BY <2>1, <4>1 DEF Place
    <3>4. QED
      BY <3>2, <3>3
  <2>2. QED
    BY <1>14, <2>1 DEF Place
<1>15. NamesLead(n, e2, f)
  <2>1. ASSUME NEW b \in Blocks, NEW l \in Columns, Gives(e2, b, l)
        PROVE  e2[b][l].sfd_ino \in DOMAIN n \cup {f} /\ \E h \in S : HasBlock(n, h, b)
    <3>1. CASE b = c /\ l = j
      BY <1>2, <1>4, <1>5, <3>1 DEF HasBlock
    <3>2. CASE ~(b = c /\ l = j)
      <4>1. Gives(e, b, l) /\ e2[b][l] = e[b][l]
        BY <1>5, <1>6, <2>1, <3>2
      <4>2. e[b][l].sfd_ino # 0
        BY <4>1 DEF Gives
      <4>3. QED
        BY <1>1, <4>1, <4>2 DEF NamesLead
    <3>3. QED
      BY <3>1, <3>2
  <2>2. QED
    BY <1>8, <1>9, <2>1 DEF NamesLead
<1>16. TargetsMarked(n, e2, y, m, f)
  <2>1. ASSUME NEW i \in S, NEW b, LeadsTo(n, e2, y, i, b)
        PROVE  b \in m \ (System \cup {SFS_ROOT_LOCATION})
    <3>1. LeadsTo(n, e, y, i, b) \/ b = f
      BY <1>14, <2>1 DEF LeadsTo
    <3>2. QED
      BY <1>1, <3>1 DEF TargetsMarked
  <2>2. QED
    BY <1>8, <1>9, <2>1 DEF TargetsMarked
<1>17. TargetsOnce(n, e2, y, f)
  <2>1. ASSUME NEW i \in S, NEW h \in S, NEW k1, NEW l1, NEW k2, NEW l2, NEW b, b # 0,
               Place(n, e2, y, i, k1, l1, b), Place(n, e2, y, h, k2, l2, b)
        PROVE  i = h /\ k1 = k2 /\ l1 = l2
    <3>1. Place(n, e, y, i, k1, l1, b) \/ (i = d /\ k1 = k /\ l1 = j /\ b = f)
      BY <1>14, <2>1
    <3>2. Place(n, e, y, h, k2, l2, b) \/ (h = d /\ k2 = k /\ l2 = j /\ b = f)
      BY <1>14, <2>1
    <3>3. ~Place(n, e, y, i, k1, l1, f) /\ ~Place(n, e, y, h, k2, l2, f)
      BY <1>2 DEF LeadsTo
    <3>4. CASE b = f
      BY <3>1, <3>2, <3>3, <3>4
    <3>5. CASE b # f
      BY <1>1, <2>1, <3>1, <3>2, <3>5 DEF TargetsOnce
    <3>6. QED
      BY <3>4, <3>5
  <2>2. QED
    BY <1>8, <1>9, <2>1 DEF TargetsOnce
<1>18. ASSUME NEW i \in S, NEW k2 \in Rows, NEW l \in Columns, Used(n, e2, i, k2, l)
       PROVE  IF i = d /\ k2 = k /\ l = j THEN e2[n[i].direct[k2]][l] = Entry(f, name)
              ELSE Used(n, e, i, k2, l) /\ e2[n[i].direct[k2]][l] = e[n[i].direct[k2]][l]
  <2>1. n[i].direct[k2] \in Blocks
    BY <1>11
  <2>2. QED
    BY <1>5, <1>13, <1>18, <2>1 DEF Used
<1>19. DirsFormed(n, e2, f)
  <2>1. ASSUME NEW p \in S, NEW h, h # f, Holds(n, e, p, h)
        PROVE  Holds(n, e2, p, h)
    <3>1. PICK k2 \in Rows, l \in Columns :
             n[p].direct[k2] # 0 /\ Gives(e, n[p].direct[k2], l) /\ e[n[p].direct[k2]][l].sfd_ino = h
      BY <2>1 DEF Holds
    <3>2. n[p].direct[k2] \in Blocks /\ ~(n[p].direct[k2] = c /\ l = j)
      BY <1>11, <3>1 DEF Gives
    <3>3. QED
      BY <1>5, <1>6, <3>1, <3>2 DEF Holds
  <2>2. ASSUME NEW h \in S, NEW p \in S, n[h].type = "dir", DotsIn(n, e, h, p)
        PROVE  DotsIn(n, e2, h, p)
    <3>1. /\ n[h].direct[1] \in Blocks /\ n[h].direct[1] # 0
          /\ e[n[h].direct[1]][1].sfd_ino # 0 /\ e[n[h].direct[1]][2].sfd_ino # 0
          /\ 1 \in Columns /\ 2 \in Columns
      BY <1>2, <1>11, <2>2, SfsAssumption DEF DotsIn, Entry, Rows, Columns
    <3>2. e2[n[h].direct[1]][1] = Entry(h, ".") /\ e2[n[h].direct[1]][2] = Entry(p, "..")
      BY <1>5, <2>2, <3>1 DEF DotsIn
    <3>3. h # SFS_ROOT_LOCATION => Holds(n, e2, p, h)
      BY <1>11, <2>1, <2>2 DEF DotsIn
    <3>4. ASSUME NEW k2 \in Rows, NEW l \in Columns, Used(n, e2, h, k2, l),
                 e2[n[h].direct[k2]][l].sfd_name \in Dots
          PROVE  k2 = 1 /\ l \in {1, 2}
      <4>1. Used(n, e, h, k2, l) /\ e2[n[h].direct[k2]][l] = e[n[h].direct[k2]][l]
        BY <1>4, <1>18, <3>4
      <4>2. QED
        BY <2>2, <3>4, <4>1 DEF DotsIn
    <3>5. QED
      BY <2>2, <3>1, <3>2, <3>3, <3>4 DEF DotsIn
  <2>3. \A h \in S : n[h].type = "dir" => \E p \in S : n[p].type = "dir" /\ DotsIn(n, e2, h, p)
    BY <1>1, <2>2 DEF DirsFormed
  <2>4. QED
    BY <1>8, <1>9, <2>3 DEF DirsFormed
<1>20. FilesHeld(n, e2, y, X, T, f)
  BY <1>1, <1>8, <1>9 DEF FilesHeld
<1>21. AllSized(n, e2, y, z)
  <2>1. ASSUME NEW i \in S
        PROVE  Sized(n, e2, y, z, i)
    <3>1. Sized(n, e, y, z, i)
      BY <1>1 DEF AllSized
    <3>2. CASE i # d
      <4>1. \A k2 \in Rows, l \in Columns : Used(n, e2, i, k2, l) => Used(n, e, i, k2, l)
        BY <1>18, <3>2
      <4>2. UsedSlots(n, e2, i) \subseteq UsedSlots(n, e, i)
        BY <4>1 DEF UsedSlots
      <4>3. Cardinality(UsedSlots(n, e2, i)) <= Cardinality(UsedSlots(n, e, i))
        BY <4>2, UsedFinite, FS_Subset
      <4>4. n[i].size \in Nat /\ Cardinality(UsedSlots(n, e2, i)) \in Nat /\ Cardinality(UsedSlots(n, e, i)) \in Nat
        BY <1>1, LiveFacts, UsedFinite
      <4>5. QED
        BY <3>1, <4>3, <4>4 DEF Sized
    <3>3. CASE i = d
      <4>1. \A k2 \in Rows, l \in Columns : Used(n, e2, d, k2, l) => Used(n, e, d, k2, l) \/ (k2 = k /\ l = j)
        BY <1>18
      <4>2. UsedSlots(n, e2, d) \subseteq UsedSlots(n, e, d) \cup {<<k, j>>}
        BY <4>1 DEF UsedSlots
      <4>3. /\ IsFiniteSet(UsedSlots(n, e, d)) /\ Cardinality(UsedSlots(n, e, d)) \in Nat
            /\ Cardinality(UsedSlots(n, e2, d)) \in Nat
        BY UsedFinite
      <4>4. /\ IsFiniteSet(UsedSlots(n, e, d) \cup {<<k, j>>})
            /\ Cardinality(UsedSlots(n, e, d) \cup {<<k, j>>})
                 = IF <<k, j>> \in UsedSlots(n, e, d) THEN Cardinality(UsedSlots(n, e, d))
                   ELSE Cardinality(UsedSlots(n, e, d)) + 1
        <5>1. ASSUME NEW U, IsFiniteSet(U), NEW p
              PROVE  /\ IsFiniteSet(U \cup {p})
                     /\ Cardinality(U \cup {p}) = IF p \in U THEN Cardinality(U) ELSE Cardinality(U) + 1
          BY <5>1, FS_AddElement, Zenon
        <5>2. QED
          BY <4>3, <5>1
      <4>5. /\ IsFiniteSet(UsedSlots(n, e, d) \cup {<<k, j>>})
            /\ Cardinality(UsedSlots(n, e, d) \cup {<<k, j>>}) \in Nat
            /\ Cardinality(UsedSlots(n, e, d) \cup {<<k, j>>}) <= Cardinality(UsedSlots(n, e, d)) + 1
        BY <4>3, <4>4
      <4>6. Cardinality(UsedSlots(n, e2, d)) <= Cardinality(UsedSlots(n, e, d) \cup {<<k, j>>})
        BY <4>2, <4>5, FS_Subset
      <4>7. n[d].size \in Nat
        BY <1>1, LiveFacts
      <4>8. QED
        BY <3>1, <3>3, <4>3, <4>5, <4>6, <4>7 DEF Sized
    <3>4. QED
      BY <3>2, <3>3
  <2>2. QED
    BY <1>8, <2>1 DEF AllSized
<1>22. \A h : Files(n, e2, y, z, h) = Files(n, e, y, z, h)
  BY <1>8 DEF Files
<1>23. QED
  BY <1>2, <1>7, <1>8, <1>9, <1>12, <1>15, <1>16, <1>17, <1>19, <1>20, <1>21, <1>22 DEF Sane

\* Inode h is not a directory with names in it.
Nameless(n, e, h) ==
    \A k \in Rows, l \in Columns :
        n[h].type = "dir" /\ n[h].direct[k] # 0 => ~Gives(e, n[h].direct[k], l)

LEMMA OnePlace ==
    ASSUME NEW n, NEW e, NEW y, NEW g, TargetsOnce(n, e, y, g),
           NEW i \in Live(n, e, g), NEW h \in Live(n, e, g), NEW k, NEW l, NEW p, NEW q, NEW c, c # 0,
           Place(n, e, y, i, k, l, c), Place(n, e, y, h, p, q, c)
    PROVE  i = h /\ k = p /\ l = q
BY DEF TargetsOnce

\* Block c has no other place than slot j of block k of directory d.
Solo(n, e, y, c, d, k, j) ==
    \A i \in Live(n, e, 0) : \A p, s : Place(n, e, y, i, p, s, c) => i = d /\ p = k /\ s = j

LEMMA PlaceSolo ==
    ASSUME NEW n, NEW e, NEW y, TargetsOnce(n, e, y, 0), NEW d \in Live(n, e, 0), NEW k, NEW j,
           NEW c, c # 0, Place(n, e, y, d, k, j, c)
    PROVE  Solo(n, e, y, c, d, k, j)
BY OnePlace DEF Solo

LEMMA MarkedTarget ==
    ASSUME NEW n, NEW e, NEW y, NEW m, NEW g, TargetsMarked(n, e, y, m, g),
           NEW i \in Live(n, e, g), NEW c, LeadsTo(n, e, y, i, c)
    PROVE  c \in m /\ c \notin System /\ c # SFS_ROOT_LOCATION
BY DEF TargetsMarked

LEMMA LeaveSane ==
    ASSUME NEW n, NEW e, NEW y, NEW z, NEW m, NEW X, NEW T, Sane(n, e, y, z, m, X, T, 0),
           NEW d \in Live(n, e, 0), n[d].type = "dir", NEW k \in Rows, NEW j \in Columns,
           NEW c, c = n[d].direct[k], c # 0, Gives(e, c, j), NEW h, h = e[c][j].sfd_ino,
           Nameless(n, e, h),
           NEW e2, EntrySet(e, e2, c, j, FreeEntry)
    PROVE  /\ Sane(n, e2, y, z, m, X, T, 0)
           /\ h \in Live(n, e, 0) /\ h # SFS_ROOT_LOCATION /\ h # d
           /\ Live(n, e2, 0) = Live(n, e, 0) \ {h}
           /\ Files(n, e2, y, z, h) = Files(n, e, y, z, h)
           /\ Cardinality(UsedSlots(n, e2, d)) + 1 <= n[d].size
<1>1. /\ Typed(n, e, y, m) /\ NamesLead(n, e, 0)
      /\ TargetsMarked(n, e, y, m, 0) /\ TargetsOnce(n, e, y, 0)
      /\ DirsFormed(n, e, 0) /\ FilesHeld(n, e, y, X, T, 0) /\ AllSized(n, e, y, z)
  BY DEF Sane
<1>2. e \in [Blocks -> [Columns -> EntryRecords]] /\ 0 \notin DOMAIN n
  BY <1>1 DEF Typed
<1>3. d \in DOMAIN n /\ c \in Blocks
  BY <1>1, LiveFacts
<1>4. /\ e2 \in [Blocks -> [Columns -> EntryRecords]]
      /\ \A b \in Blocks, i \in Columns : e2[b][i] = IF b = c /\ i = j THEN FreeEntry ELSE e[b][i]
  BY <1>2 DEF EntrySet
<1>5. \A b \in Blocks, i \in Columns : Gives(e2, b, i) <=> Gives(e, b, i) /\ ~(b = c /\ i = j)
  BY <1>4, EmptyBlock, Zenon DEF Gives
<1>6. /\ h # 0 /\ h \in DOMAIN n /\ Given(e, h)
      /\ Place(n, e, y, d, k, j, h)
  BY <1>1, <1>3 DEF NamesLead, Gives, Given, Place
<1>7. h \in Live(n, e, 0) /\ h # SFS_ROOT_LOCATION
  <2>1. LeadsTo(n, e, y, d, h)
    BY <1>6, Zenon DEF LeadsTo
  <2>2. QED
    <3>1. h # SFS_ROOT_LOCATION
      BY <1>1, <2>1, MarkedTarget
    <3>2. QED
      BY <1>2, <1>6, <3>1 DEF Live
<1>8. h # d
  BY Zenon DEF Nameless
<1>9. DEFINE S == Live(n, e, 0)
<1>10. \A i \in S : i \in DOMAIN n /\ n[i].direct \in [Rows -> Blocks]
  BY <1>1, LiveFacts
<1>11. ASSUME NEW b \in Blocks, NEW l \in Columns, Gives(e, b, l), e[b][l].sfd_ino = h
       PROVE  b = c /\ l = j
  <2>1. PICK i \in S : HasBlock(n, i, b)
    BY <1>1, <1>11 DEF NamesLead
  <2>2. PICK k2 \in Rows : n[i].direct[k2] = b
    BY <2>1 DEF HasBlock
  <2>3. Place(n, e, y, i, k2, l, h)
    BY <1>11, <2>1, <2>2 DEF HasBlock, Place
  <2>4. i = d /\ k2 = k /\ l = j
    <3>1. TargetsOnce(n, e, y, 0) /\ h # 0 /\ i \in Live(n, e, 0)
      BY <1>1, <1>6, Zenon
    <3>2. Solo(n, e, y, h, d, k, j)
      BY <1>1, <1>6, PlaceSolo, Zenon
    <3>3. QED
      BY <2>3, <3>1, <3>2, Zenon DEF Solo
  <2>5. QED
    BY <2>2, <2>4
<1>12. \A i : Given(e2, i) <=> Given(e, i) /\ i # h
  <2>1. ~Given(e2, h)
    BY <1>4, <1>5, <1>11 DEF Given
  <2>2. ASSUME NEW i, Given(e2, i) PROVE Given(e, i)
    BY <1>4, <1>5, <2>2 DEF Given
  <2>3. ASSUME NEW i, i # h, Given(e, i) PROVE Given(e2, i)
    BY <1>4, <1>5, <2>3 DEF Given
  <2>4. QED
    BY <2>1, <2>2, <2>3
<1>13. Live(n, e2, 0) = S \ {h}
  BY <1>7, <1>12 DEF Live
<1>14. Typed(n, e2, y, m)
  BY <1>1, <1>4 DEF Typed
<1>15. ASSUME NEW i \in S, NEW k2, NEW l2, NEW c2, Place(n, e2, y, i, k2, l2, c2)
       PROVE  Place(n, e, y, i, k2, l2, c2)
  <2>1. CASE /\ n[i].type = "dir" /\ k2 \in Rows /\ l2 \in Columns /\ n[i].direct[k2] # 0
             /\ Gives(e2, n[i].direct[k2], l2) /\ c2 = e2[n[i].direct[k2]][l2].sfd_ino
    <3>1. n[i].direct[k2] \in Blocks
      BY <1>10, <2>1
    <3>2. Gives(e, n[i].direct[k2], l2) /\ e2[n[i].direct[k2]][l2] = e[n[i].direct[k2]][l2]
      BY <1>4, <1>5, <2>1, <3>1
    <3>3. QED
      BY <2>1, <3>2 DEF Place
  <2>2. QED
    BY <1>15, <2>1 DEF Place
<1>16. NamesLead(n, e2, 0)
  <2>1. ASSUME NEW b \in Blocks, NEW l \in Columns, Gives(e2, b, l)
        PROVE  e2[b][l].sfd_ino \in DOMAIN n \cup {0} /\ \E i \in S \ {h} : HasBlock(n, i, b)
    <3>1. Gives(e, b, l) /\ e2[b][l] = e[b][l]
      BY <1>4, <1>5, <2>1
    <3>2. PICK i \in S : HasBlock(n, i, b)
      BY <1>1, <3>1 DEF NamesLead
    <3>3. i # h
      BY <3>1, <3>2, Zenon DEF HasBlock, Nameless
    <3>4. QED
      BY <1>1, <3>1, <3>2, <3>3 DEF NamesLead
  <2>2. QED
    BY <1>13, <2>1 DEF NamesLead
<1>17. TargetsMarked(n, e2, y, m, 0) /\ TargetsOnce(n, e2, y, 0)
  <2>1. \A i \in S : \A b : LeadsTo(n, e2, y, i, b) => LeadsTo(n, e, y, i, b)
    BY <1>15 DEF LeadsTo
  <2>2. TargetsMarked(n, e2, y, m, 0)
    BY <1>1, <1>13, <2>1 DEF TargetsMarked
  <2>3. TargetsOnce(n, e2, y, 0)
    BY <1>1, <1>13, <1>15 DEF TargetsOnce
  <2>4. QED
    BY <2>2, <2>3
<1>18. ASSUME NEW i \in S, NEW k2 \in Rows, NEW l \in Columns, Used(n, e2, i, k2, l)
       PROVE  Used(n, e, i, k2, l) /\ e2[n[i].direct[k2]][l] = e[n[i].direct[k2]][l]
  <2>1. n[i].direct[k2] \in Blocks
    BY <1>10
  <2>2. QED
    BY <1>4, <1>18, <2>1, EmptyBlock, Zenon DEF Used
<1>19. DirsFormed(n, e2, 0)
  <2>1. ASSUME NEW p \in S, NEW i, i # h, Holds(n, e, p, i)
        PROVE  Holds(n, e2, p, i)
    <3>1. PICK k2 \in Rows, l \in Columns :
             n[p].direct[k2] # 0 /\ Gives(e, n[p].direct[k2], l) /\ e[n[p].direct[k2]][l].sfd_ino = i
      BY <2>1 DEF Holds
    <3>2. n[p].direct[k2] \in Blocks /\ ~(n[p].direct[k2] = c /\ l = j)
      BY <1>10, <2>1, <3>1
    <3>3. QED
      BY <1>4, <1>5, <3>1, <3>2 DEF Holds
  <2>2. ASSUME NEW i \in S, i # h, n[i].type = "dir", NEW p \in S, n[p].type = "dir", DotsIn(n, e, i, p)
        PROVE  p # h /\ DotsIn(n, e2, i, p)
    <3>1. /\ n[i].direct[1] \in Blocks /\ n[i].direct[1] # 0
          /\ e[n[i].direct[1]][1].sfd_name \in Dots /\ e[n[i].direct[1]][2].sfd_name \in Dots
          /\ 1 \in Columns /\ 2 \in Columns
      BY <1>10, <2>2, SfsAssumption DEF DotsIn, Entry, Rows, Columns, Dots
    <3>2. e2[n[i].direct[1]][1] = Entry(i, ".") /\ e2[n[i].direct[1]][2] = Entry(p, "..")
      BY <1>4, <2>2, <3>1 DEF DotsIn, Gives
    <3>3. i # SFS_ROOT_LOCATION => Holds(n, e2, p, i)
      BY <2>1, <2>2 DEF DotsIn
    <3>4. p # h
      <4>1. CASE i = SFS_ROOT_LOCATION
        BY <1>7, <2>2, <4>1 DEF DotsIn
      <4>2. CASE i # SFS_ROOT_LOCATION
        BY <2>2, <4>2, Zenon DEF DotsIn, Holds, Nameless
      <4>3. QED
        BY <4>1, <4>2
    <3>5. ASSUME NEW k2 \in Rows, NEW l \in Columns, Used(n, e2, i, k2, l),
                 e2[n[i].direct[k2]][l].sfd_name \in Dots
          PROVE  k2 = 1 /\ l \in {1, 2}
      <4>1. Used(n, e, i, k2, l) /\ e2[n[i].direct[k2]][l] = e[n[i].direct[k2]][l]
        BY <1>18, <3>5
      <4>2. QED
        BY <2>2, <3>5, <4>1 DEF DotsIn
    <3>6. QED
      BY <2>2, <3>1, <3>2, <3>3, <3>4, <3>5, Zenon DEF DotsIn
  <2>3. \A i \in S \ {h} : n[i].type = "dir" => \E p \in S \ {h} : n[p].type = "dir" /\ DotsIn(n, e2, i, p)
    BY <1>1, <2>2 DEF DirsFormed
  <2>4. QED
    BY <1>13, <2>3 DEF DirsFormed
<1>20. FilesHeld(n, e2, y, X, T, 0)
  BY <1>1, <1>13 DEF FilesHeld
<1>21. \A i \in S, k2 \in Rows, l \in Columns : Used(n, e2, i, k2, l) => Used(n, e, i, k2, l)
  BY <1>18
<1>22. AllSized(n, e2, y, z)
  <2>1. ASSUME NEW i \in S
        PROVE  Sized(n, e2, y, z, i)
    <3>1. Sized(n, e, y, z, i)
      BY <1>1 DEF AllSized
    <3>2. UsedSlots(n, e2, i) \subseteq UsedSlots(n, e, i)
      BY <1>21 DEF UsedSlots
    <3>3. Cardinality(UsedSlots(n, e2, i)) <= Cardinality(UsedSlots(n, e, i))
      BY <3>2, UsedFinite, FS_Subset
    <3>4. n[i].size \in Nat /\ Cardinality(UsedSlots(n, e2, i)) \in Nat /\ Cardinality(UsedSlots(n, e, i)) \in Nat
      BY <1>1, LiveFacts, UsedFinite
    <3>5. QED
      BY <3>1, <3>3, <3>4 DEF Sized
  <2>2. QED
    BY <1>13, <2>1 DEF AllSized
<1>23. Cardinality(UsedSlots(n, e2, d)) + 1 <= n[d].size
  <2>1. UsedSlots(n, e2, d) \subseteq UsedSlots(n, e, d) \ {<<k, j>>}
    <3>1. ~Used(n, e2, d, k, j)
      BY <1>3, <1>4, EmptyBlock, Zenon DEF Used
    <3>2. QED
      BY <1>21, <3>1 DEF UsedSlots
  <2>2. <<k, j>> \in UsedSlots(n, e, d)
    BY DEF UsedSlots, Used, Gives
  <2>3. /\ IsFiniteSet(UsedSlots(n, e, d)) /\ Cardinality(UsedSlots(n, e, d)) \in Nat
        /\ Cardinality(UsedSlots(n, e2, d)) \in Nat
    BY UsedFinite
  <2>4. /\ IsFiniteSet(UsedSlots(n, e, d) \ {<<k, j>>})
        /\ Cardinality(UsedSlots(n, e, d) \ {<<k, j>>}) = Cardinality(UsedSlots(n, e, d)) - 1
    BY <2>2, <2>3, FS_RemoveElement
  <2>5. Cardinality(UsedSlots(n, e2, d)) <= Cardinality(UsedSlots(n, e, d) \ {<<k, j>>})
    BY <2>1, <2>4, FS_Subset
  <2>6. Cardinality(UsedSlots(n, e, d)) <= n[d].size /\ n[d].size \in Nat
    BY <1>1, LiveFacts DEF AllSized, Sized
  <2>7. QED
    BY <2>3, <2>4, <2>5, <2>6
<1>24. Files(n, e2, y, z, h) = Files(n, e, y, z, h)
  <2>1. Live(n, e2, h) = Live(n, e, h)
    BY <1>12 DEF Live
  <2>2. QED
    BY <2>1 DEF Files
<1>25. QED
  BY <1>7, <1>8, <1>13, <1>14, <1>16, <1>17, <1>19, <1>20, <1>22, <1>23, <1>24, Zenon DEF Sane

LEMMA RenameSane ==
    ASSUME NEW n, NEW e, NEW y, NEW z, NEW m, NEW X, NEW T, Sane(n, e, y, z, m, X, T, 0),
           NEW c \in Blocks, NEW j \in Columns, Gives(e, c, j), NEW name \in Names,
           NEW e2, EntrySet(e, e2, c, j, Entry(e[c][j].sfd_ino, name))
    PROVE  /\ Sane(n, e2, y, z, m, X, T, 0)
           /\ \A h : Live(n, e2, h) = Live(n, e, h)
           /\ \A h : Files(n, e2, y, z, h) = Files(n, e, y, z, h)
<1>1. /\ Typed(n, e, y, m) /\ NamesLead(n, e, 0)
      /\ TargetsMarked(n, e, y, m, 0) /\ TargetsOnce(n, e, y, 0)
      /\ DirsFormed(n, e, 0) /\ FilesHeld(n, e, y, X, T, 0) /\ AllSized(n, e, y, z)
  BY DEF Sane
<1>2. e \in [Blocks -> [Columns -> EntryRecords]] /\ 0 \notin DOMAIN n
  BY <1>1 DEF Typed
<1>3. /\ e2 \in [Blocks -> [Columns -> EntryRecords]]
      /\ \A b \in Blocks, i \in Columns :
            b # c \/ i # j => e2[b][i] = e[b][i]
      /\ e2[c][j] = Entry(e[c][j].sfd_ino, name)
  BY <1>2 DEF EntrySet
<1>4. /\ \A b \in Blocks, i \in Columns : e2[b][i].sfd_ino = e[b][i].sfd_ino
      /\ \A b \in Blocks, i \in Columns : e[b][i].sfd_name \in Dots => e2[b][i] = e[b][i]
      /\ \A b \in Blocks, i \in Columns : e2[b][i].sfd_name \in Dots => e2[b][i] = e[b][i]
  <2>1. /\ Entry(e[c][j].sfd_ino, name).sfd_ino = e[c][j].sfd_ino
        /\ Entry(e[c][j].sfd_ino, name).sfd_name \notin Dots
    BY SfsAssumption DEF Entry, Dots
  <2>2. e[c][j].sfd_name \notin Dots
    BY DEF Gives
  <2>3. QED
    BY <1>3, <2>1, <2>2
<1>5. \A b \in Blocks, i \in Columns : Gives(e2, b, i) <=> Gives(e, b, i)
  BY <1>4 DEF Gives
<1>6. \A i : Given(e2, i) <=> Given(e, i)
  BY <1>4, <1>5 DEF Given
<1>7. \A h : Live(n, e2, h) = Live(n, e, h)
  BY <1>6 DEF Live
<1>8. DEFINE S == Live(n, e, 0)
<1>9. \A i \in S : i \in DOMAIN n /\ n[i].direct \in [Rows -> Blocks]
  BY <1>1, LiveFacts
<1>10. Typed(n, e2, y, m)
  BY <1>1, <1>3 DEF Typed
<1>11. ASSUME NEW i \in S, NEW k2, NEW l2, NEW c2, Place(n, e2, y, i, k2, l2, c2)
       PROVE  Place(n, e, y, i, k2, l2, c2)
  <2>1. CASE /\ n[i].type = "dir" /\ k2 \in Rows /\ l2 \in Columns /\ n[i].direct[k2] # 0
             /\ Gives(e2, n[i].direct[k2], l2) /\ c2 = e2[n[i].direct[k2]][l2].sfd_ino
    <3>1. n[i].direct[k2] \in Blocks
      BY <1>9, <2>1
    <3>2. Gives(e, n[i].direct[k2], l2) /\ e2[n[i].direct[k2]][l2].sfd_ino = e[n[i].direct[k2]][l2].sfd_ino
      BY <1>4, <1>5, <2>1, <3>1
    <3>3. QED
      BY <2>1, <3>2 DEF Place
  <2>2. QED
    BY <1>11, <2>1 DEF Place
<1>12. NamesLead(n, e2, 0)
  <2>1. ASSUME NEW b \in Blocks, NEW l \in Columns, Gives(e2, b, l)
        PROVE  e2[b][l].sfd_ino \in DOMAIN n \cup {0} /\ \E i \in S : HasBlock(n, i, b)
    <3>1. Gives(e, b, l) /\ e2[b][l].sfd_ino = e[b][l].sfd_ino
      BY <1>4, <1>5, <2>1
    <3>2. QED
      BY <1>1, <3>1 DEF NamesLead
  <2>2. QED
    BY <1>7, <2>1 DEF NamesLead
<1>13. TargetsMarked(n, e2, y, m, 0) /\ TargetsOnce(n, e2, y, 0)
  <2>1. \A i \in S : \A b : LeadsTo(n, e2, y, i, b) => LeadsTo(n, e, y, i, b)
    BY <1>11 DEF LeadsTo
  <2>2. TargetsMarked(n, e2, y, m, 0)
    BY <1>1, <1>7, <2>1 DEF TargetsMarked
  <2>3. TargetsOnce(n, e2, y, 0)
    BY <1>1, <1>7, <1>11 DEF TargetsOnce
  <2>4. QED
    BY <2>2, <2>3
<1>14. \A i \in S, k2 \in Rows, l \in Columns : Used(n, e2, i, k2, l) => Used(n, e, i, k2, l)
  BY <1>4, <1>9 DEF Used
<1>15. DirsFormed(n, e2, 0)
  <2>1. ASSUME NEW p \in S, NEW i, Holds(n, e, p, i)
        PROVE  Holds(n, e2, p, i)
    BY <1>4, <1>5, <1>9, <2>1 DEF Holds
  <2>2. ASSUME NEW i \in S, NEW p \in S, DotsIn(n, e, i, p)
        PROVE  DotsIn(n, e2, i, p)
    <3>1. /\ n[i].direct[1] \in Blocks /\ n[i].direct[1] # 0
          /\ e[n[i].direct[1]][1].sfd_name \in Dots /\ e[n[i].direct[1]][2].sfd_name \in Dots
          /\ 1 \in Columns /\ 2 \in Columns
      BY <1>9, <2>2, SfsAssumption DEF DotsIn, Entry, Rows, Columns, Dots
    <3>2. e2[n[i].direct[1]][1] = Entry(i, ".") /\ e2[n[i].direct[1]][2] = Entry(p, "..")
      BY <1>4, <2>2, <3>1 DEF DotsIn
    <3>3. i # SFS_ROOT_LOCATION => Holds(n, e2, p, i)
      BY <2>1, <2>2 DEF DotsIn
    <3>4. ASSUME NEW k2 \in Rows, NEW l \in Columns, Used(n, e2, i, k2, l),
                 e2[n[i].direct[k2]][l].sfd_name \in Dots
          PROVE  k2 = 1 /\ l \in {1, 2}
      <4>1. Used(n, e, i, k2, l) /\ n[i].direct[k2] \in Blocks
        BY <1>9, <1>14, <3>4
      <4>2. e[n[i].direct[k2]][l].sfd_name \in Dots
        BY <1>4, <3>4, <4>1
      <4>3. QED
        BY <2>2, <4>1, <4>2 DEF DotsIn
    <3>5. QED
      BY <2>2, <3>1, <3>2, <3>3, <3>4 DEF DotsIn
  <2>3. QED
    BY <1>1, <1>7, <2>2 DEF DirsFormed
<1>16. FilesHeld(n, e2, y, X, T, 0)
  BY <1>1, <1>7 DEF FilesHeld
<1>17. AllSized(n, e2, y, z)
  <2>1. ASSUME NEW i \in S
        PROVE  Sized(n, e2, y, z, i)
    <3>1. Sized(n, e, y, z, i)
      BY <1>1 DEF AllSized
    <3>2. UsedSlots(n, e2, i) \subseteq UsedSlots(n, e, i)
      BY <1>14 DEF UsedSlots
    <3>3. Cardinality(UsedSlots(n, e2, i)) <= Cardinality(UsedSlots(n, e, i))
      BY <3>2, UsedFinite, FS_Subset
    <3>4. n[i].size \in Nat /\ Cardinality(UsedSlots(n, e2, i)) \in Nat /\ Cardinality(UsedSlots(n, e, i)) \in Nat
      BY <1>1, LiveFacts, UsedFinite
    <3>5. QED
      BY <3>1, <3>3, <3>4 DEF Sized
  <2>2. QED
    BY <1>7, <2>1 DEF AllSized
<1>18. \A h : Files(n, e2, y, z, h) = Files(n, e, y, z, h)
  BY <1>7 DEF Files
<1>19. QED
  BY <1>1, <1>7, <1>10, <1>12, <1>13, <1>15, <1>16, <1>17, <1>18 DEF Sane

----------------------------------------------------------------------------
\* The inode being made is counted, or left out.

\* What f leads to is marked, each block at one place, and at no place of S.
PlacesApart(S, n, e, y, m, f) ==
    /\ \A c : LeadsTo(n, e, y, f, c) =>
          /\ c \in m /\ c \notin System /\ c # SFS_ROOT_LOCATION
          /\ \A i \in S : ~LeadsTo(n, e, y, i, c)
    /\ \A k, l, p, q, c :
          c # 0 /\ Place(n, e, y, f, k, l, c) /\ Place(n, e, y, f, p, q, c) => k = p /\ l = q

LEMMA AdoptSane ==
    ASSUME NEW n, NEW e, NEW y, NEW z, NEW m, NEW X, NEW T, NEW f, Sane(n, e, y, z, m, X, T, f),
           f \in DOMAIN n, Given(e, f), NEW S, S = Live(n, e, f),
           PlacesApart(S, n, e, y, m, f),
           n[f].type = "dir" => \E p \in S : n[p].type = "dir" /\ DotsIn(n, e, f, p),
           n[f].type = "file" => FileHeld(n, y, X, T, f)
    PROVE  /\ Sane(n, e, y, z, m, X, T, 0)
           /\ Live(n, e, 0) = S \cup {f}
<1>1. /\ Typed(n, e, y, m) /\ NamesLead(n, e, f)
      /\ TargetsMarked(n, e, y, m, f) /\ TargetsOnce(n, e, y, f)
      /\ DirsFormed(n, e, f) /\ FilesHeld(n, e, y, X, T, f) /\ AllSized(n, e, y, z)
  BY DEF Sane
<1>2. 0 \notin DOMAIN n /\ 0 # SFS_ROOT_LOCATION
  BY <1>1, VolumeFacts DEF Typed
<1>3. Live(n, e, 0) = S \cup {f}
  BY <1>2 DEF Live
<1>4. NamesLead(n, e, 0)
  <2>1. \A c \in Blocks, j \in Columns : Gives(e, c, j) =>
           e[c][j].sfd_ino \in DOMAIN n \cup {0} /\ \E d \in S \cup {f} : HasBlock(n, d, c)
    BY <1>1 DEF NamesLead
  <2>2. QED
    BY <1>3, <2>1 DEF NamesLead
<1>5. TargetsMarked(n, e, y, m, 0)
  BY <1>1, <1>3 DEF TargetsMarked, PlacesApart
<1>6. TargetsOnce(n, e, y, 0)
  <2>1. ASSUME NEW i \in S \cup {f}, NEW h \in S \cup {f}, NEW k, NEW l, NEW p, NEW q, NEW c, c # 0,
               Place(n, e, y, i, k, l, c), Place(n, e, y, h, p, q, c)
        PROVE  i = h /\ k = p /\ l = q
    <3>1. LeadsTo(n, e, y, i, c) /\ LeadsTo(n, e, y, h, c)
      BY <2>1 DEF LeadsTo
    <3>2. CASE i = f /\ h = f
      BY <2>1, <3>2 DEF PlacesApart
    <3>3. CASE i # f /\ h # f
      BY <1>1, <2>1, <3>3, OnePlace
    <3>4. CASE i = f /\ h # f
      BY <3>1, <3>4 DEF PlacesApart
    <3>5. CASE i # f /\ h = f
      BY <3>1, <3>5 DEF PlacesApart
    <3>6. QED
      BY <3>2, <3>3, <3>4, <3>5
  <2>2. QED
    BY <1>3, <2>1 DEF TargetsOnce
<1>7. DirsFormed(n, e, 0)
  <2>1. \A d \in S \cup {f} : n[d].type = "dir" => \E p \in S \cup {f} : n[p].type = "dir" /\ DotsIn(n, e, d, p)
    BY <1>1 DEF DirsFormed
  <2>2. QED
    BY <1>3, <2>1 DEF DirsFormed
<1>8. FilesHeld(n, e, y, X, T, 0)
  BY <1>1, <1>3 DEF FilesHeld
<1>9. QED
  BY <1>1, <1>2, <1>3, <1>4, <1>5, <1>6, <1>7, <1>8 DEF Sane

LEMMA LeaveOutSane ==
    ASSUME NEW n, NEW e, NEW y, NEW z, NEW m, NEW X, NEW T, Sane(n, e, y, z, m, X, T, 0),
           NEW f \in Live(n, e, 0), n[f].type = "file"
    PROVE  Sane(n, e, y, z, m, X, T, f)
<1>1. /\ Typed(n, e, y, m) /\ NamesLead(n, e, 0)
      /\ TargetsMarked(n, e, y, m, 0) /\ TargetsOnce(n, e, y, 0)
      /\ DirsFormed(n, e, 0) /\ FilesHeld(n, e, y, X, T, 0) /\ AllSized(n, e, y, z)
  BY DEF Sane
<1>2. f # SFS_ROOT_LOCATION /\ 0 \notin DOMAIN n
  BY <1>1 DEF Typed
<1>3. \A i : i \in Live(n, e, f) <=> i \in Live(n, e, 0) /\ i # f
  BY <1>2 DEF Live
<1>4. NamesLead(n, e, f)
  <2>1. ASSUME NEW c \in Blocks, NEW j \in Columns, Gives(e, c, j)
        PROVE  e[c][j].sfd_ino \in DOMAIN n \cup {f} /\ \E d \in Live(n, e, f) : HasBlock(n, d, c)
    <3>1. PICK d \in Live(n, e, 0) : HasBlock(n, d, c)
      BY <1>1, <2>1 DEF NamesLead
    <3>2. d # f
      BY <3>1 DEF HasBlock
    <3>3. e[c][j].sfd_ino \in DOMAIN n
      BY <1>1, <2>1 DEF NamesLead, Gives
    <3>4. QED
      BY <1>3, <3>1, <3>2, <3>3
  <2>2. QED
    BY <2>1 DEF NamesLead
<1>5. TargetsMarked(n, e, y, m, f) /\ TargetsOnce(n, e, y, f)
  BY <1>1, <1>3 DEF TargetsMarked, TargetsOnce
<1>6. DirsFormed(n, e, f)
  BY <1>1, <1>3 DEF DirsFormed
<1>7. FilesHeld(n, e, y, X, T, f)
  BY <1>1, <1>3 DEF FilesHeld
<1>8. QED
  BY <1>1, <1>2, <1>4, <1>5, <1>6, <1>7 DEF Sane

----------------------------------------------------------------------------
\* rm and rmdir.

\* Once the entry of h is gone, what the names lead to and what h leads to are
\* apart.
ApartFrom(n, e, e2, y, h) ==
    \A i \in Live(n, e, 0) \ {h} :
        /\ ~LeadsTo(n, e, y, h, i)
        /\ \A q : LeadsTo(n, e2, y, i, q) => q # h /\ ~LeadsTo(n, e, y, h, q)

LEMMA LeaveApart ==
    ASSUME NEW n, NEW e, NEW y, NEW z, NEW m, NEW X, NEW T, Sane(n, e, y, z, m, X, T, 0),
           NEW d \in Live(n, e, 0), n[d].type = "dir", NEW k \in Rows, NEW j \in Columns,
           NEW c, c = n[d].direct[k], c # 0, Gives(e, c, j), NEW h, h = e[c][j].sfd_ino,
           Nameless(n, e, h),
           NEW e2, EntrySet(e, e2, c, j, FreeEntry)
    PROVE  LeadsTo(n, e, y, d, h) /\ ApartFrom(n, e, e2, y, h)
<1>1. /\ Typed(n, e, y, m) /\ NamesLead(n, e, 0)
      /\ TargetsMarked(n, e, y, m, 0) /\ TargetsOnce(n, e, y, 0)
  BY DEF Sane
<1>2. e \in [Blocks -> [Columns -> EntryRecords]] /\ d \in DOMAIN n /\ c \in Blocks
      /\ \A i \in Live(n, e, 0) : i \in DOMAIN n /\ n[i].direct \in [Rows -> Blocks]
  <2>1. \A i \in Live(n, e, 0) : i \in DOMAIN n /\ n[i].direct \in [Rows -> Blocks]
    BY <1>1, LiveFacts
  <2>2. e \in [Blocks -> [Columns -> EntryRecords]]
    BY <1>1 DEF Typed
  <2>3. d \in DOMAIN n /\ n[d].direct[k] \in Blocks
    BY <2>1
  <2>4. QED
    BY <2>1, <2>2, <2>3
<1>3. \A b \in Blocks, i \in Columns : e2[b][i] = IF b = c /\ i = j THEN FreeEntry ELSE e[b][i]
  BY <1>2 DEF EntrySet
<1>4. \A b \in Blocks, i \in Columns : Gives(e2, b, i) <=> Gives(e, b, i) /\ ~(b = c /\ i = j)
  BY <1>3, EmptyBlock, Zenon DEF Gives
<1>5. /\ h # 0 /\ h \in DOMAIN n /\ Given(e, h) /\ Place(n, e, y, d, k, j, h)
  BY <1>1, <1>2 DEF NamesLead, Gives, Given, Place
<1>6. LeadsTo(n, e, y, d, h) /\ h \in Live(n, e, 0)
  BY <1>5 DEF LeadsTo, Live
<1>7. ASSUME NEW i \in Live(n, e, 0), i # h
      PROVE  ~LeadsTo(n, e, y, h, i)
  <2>1. SUFFICES ASSUME LeadsTo(n, e, y, h, i)
                 PROVE  FALSE
    OBVIOUS
  <2>2. i # SFS_ROOT_LOCATION /\ i # 0
    BY <1>1, <1>6, <2>1, MarkedTarget, Zenon DEF LeadsTo
  <2>3. Given(e, i)
    BY <1>7, <2>2 DEF Live
  <2>4. PICK b \in Blocks, l \in Columns : Gives(e, b, l) /\ e[b][l].sfd_ino = i
    BY <2>3 DEF Given
  <2>5. PICK o \in Live(n, e, 0) : HasBlock(n, o, b)
    BY <1>1, <2>4 DEF NamesLead
  <2>6. PICK r \in Rows : n[o].type = "dir" /\ b # 0 /\ n[o].direct[r] = b
    BY <2>5 DEF HasBlock
  <2>7. Place(n, e, y, o, r, l, i)
    BY <2>4, <2>6 DEF Place
  <2>8. PICK p, s : Place(n, e, y, h, p, s, i)
    BY <2>1, Zenon DEF LeadsTo
  <2>9. o = h
    <3>1. Solo(n, e, y, i, h, p, s)
      BY <1>1, <1>6, <2>2, <2>8, PlaceSolo, Zenon
    <3>2. QED
      BY <2>7, <3>1, Zenon DEF Solo
  <2>10. QED
    BY <2>4, <2>6, <2>9, Zenon DEF Nameless
<1>8. ASSUME NEW i \in Live(n, e, 0), NEW p, NEW s, NEW q, Place(n, e2, y, i, p, s, q)
      PROVE  Place(n, e, y, i, p, s, q) /\ ~(i = d /\ p = k /\ s = j)
  <2>1. 0 \notin Columns /\ 0 \notin Rows
    BY SfsAssumption DEF Columns, Rows
  <2>2. CASE n[i].type = "dir" /\ p \in Rows /\ s \in Columns /\ n[i].direct[p] # 0
             /\ Gives(e2, n[i].direct[p], s) /\ q = e2[n[i].direct[p]][s].sfd_ino
    <3>1. n[i].direct[p] \in Blocks
      BY <1>2, <2>2
    <3>2. Gives(e, n[i].direct[p], s) /\ ~(n[i].direct[p] = c /\ s = j) /\ q = e[n[i].direct[p]][s].sfd_ino
      BY <1>3, <1>4, <2>2, <3>1
    <3>3. QED
      BY <2>2, <3>2 DEF Place
  <2>3. QED
    BY <1>8, <2>1, <2>2 DEF Place
<1>9. ASSUME NEW i \in Live(n, e, 0), i # h, NEW q, LeadsTo(n, e2, y, i, q)
      PROVE  q # h /\ ~LeadsTo(n, e, y, h, q)
  <2>1. PICK p, s : q # 0 /\ Place(n, e2, y, i, p, s, q)
    BY <1>9 DEF LeadsTo
  <2>2. Place(n, e, y, i, p, s, q) /\ ~(i = d /\ p = k /\ s = j)
    BY <1>8, <2>1
  <2>3. q # h
    <3>1. Solo(n, e, y, h, d, k, j)
      BY <1>1, <1>5, PlaceSolo, Zenon
    <3>2. QED
      BY <1>9, <2>2, <3>1, Zenon DEF Solo
  <2>4. ~LeadsTo(n, e, y, h, q)
    <3>1. Solo(n, e, y, q, i, p, s)
      BY <1>1, <1>9, <2>1, <2>2, PlaceSolo, Zenon
    <3>2. QED
      BY <1>6, <1>9, <3>1, Zenon DEF LeadsTo, Solo
  <2>5. QED
    BY <2>3, <2>4, Zenon
<1>10. QED
  BY <1>6, <1>7, <1>9, Zenon DEF ApartFrom

\* A directory of size 2 has no names in it.
LEMMA SizeTwo ==
    ASSUME NEW n, NEW e, NEW y, NEW z, NEW m, NEW X, NEW T, Sane(n, e, y, z, m, X, T, 0),
           NEW d \in Live(n, e, 0), n[d].type = "dir", n[d].size <= 2
    PROVE  Nameless(n, e, d)
<1>1. SUFFICES ASSUME NEW k \in Rows, NEW l \in Columns, n[d].direct[k] # 0, Gives(e, n[d].direct[k], l)
               PROVE  FALSE
  BY DEF Nameless
<1>2. /\ Typed(n, e, y, m) /\ DirsFormed(n, e, 0) /\ AllSized(n, e, y, z)
  BY DEF Sane
<1>3. PICK p \in Live(n, e, 0) : DotsIn(n, e, d, p)
  BY <1>2 DEF DirsFormed
<1>4. d # 0 /\ p # 0 /\ n[d].size \in Nat
  BY <1>2, LiveFacts
<1>5. 1 \in Rows /\ 1 \in Columns /\ 2 \in Columns
  BY SfsAssumption DEF Rows, Columns
<1>6. /\ Used(n, e, d, 1, 1) /\ Used(n, e, d, 1, 2) /\ Used(n, e, d, k, l)
      /\ e[n[d].direct[1]][1].sfd_name \in Dots /\ e[n[d].direct[1]][2].sfd_name \in Dots
      /\ e[n[d].direct[k]][l].sfd_name \notin Dots
  <2> DEFINE f == n[d].direct[1]
  <2>1. f # 0 /\ e[f][1] = Entry(d, ".") /\ e[f][2] = Entry(p, "..")
    BY <1>3 DEF DotsIn
  <2>2. /\ e[f][1].sfd_ino = d /\ e[f][1].sfd_name = "." /\ e[f][2].sfd_ino = p /\ e[f][2].sfd_name = ".."
    BY <2>1 DEF Entry
  <2>3. Used(n, e, d, 1, 1) /\ Used(n, e, d, 1, 2)
    BY <1>4, <2>1, <2>2 DEF Used
  <2>4. Used(n, e, d, k, l) /\ e[n[d].direct[k]][l].sfd_name \notin Dots
    BY <1>1 DEF Used, Gives
  <2>5. QED
    BY <2>2, <2>3, <2>4 DEF Dots
<1>7. ~(k = 1 /\ l = 1) /\ ~(k = 1 /\ l = 2)
  BY <1>6
<1> DEFINE U == UsedSlots(n, e, d)
           V == {<<1, 1>>, <<1, 2>>}
<1>8. <<1, 1>> \in U /\ <<1, 2>> \in U /\ <<k, l>> \in U
  <2>1. ASSUME NEW r \in Rows, NEW s \in Columns, Used(n, e, d, r, s)
        PROVE  <<r, s>> \in U
    BY <2>1 DEF UsedSlots
  <2>2. QED
    BY <1>1, <1>5, <1>6, <2>1
<1>9. IsFiniteSet(U) /\ Cardinality(U) \in Nat
  BY UsedFinite
<1>10. IsFiniteSet({<<1, 1>>}) /\ Cardinality({<<1, 1>>}) = 1
  BY FS_Singleton, Zenon
<1>11. <<1, 2>> \notin {<<1, 1>>} /\ {<<1, 1>>} \cup {<<1, 2>>} = V /\ <<k, l>> \notin V
  BY <1>7
<1>12. Cardinality(V) = 2 /\ IsFiniteSet(V)
  <2>1. IsFiniteSet({<<1, 1>>} \cup {<<1, 2>>})
        /\ Cardinality({<<1, 1>>} \cup {<<1, 2>>}) = Cardinality({<<1, 1>>}) + 1
    BY <1>10, <1>11, FS_AddElement, Zenon
  <2> HIDE DEF V
  <2>2. QED
    BY <1>10, <1>11, <2>1
<1>13. Cardinality(V \cup {<<k, l>>}) = 3 /\ V \cup {<<k, l>>} \subseteq U
  <2> HIDE DEF U
  <2>1. Cardinality(V \cup {<<k, l>>}) = Cardinality(V) + 1
    BY <1>11, <1>12, FS_AddElement, Zenon
  <2>2. QED
    BY <1>8, <1>12, <2>1
<1>14. Cardinality(V \cup {<<k, l>>}) <= Cardinality(U)
  BY <1>9, <1>13, FS_Subset
<1>15. Cardinality(U) <= n[d].size
  BY <1>2 DEF AllSized, Sized
<1>16. QED
  BY <1>4, <1>9, <1>13, <1>14, <1>15

----------------------------------------------------------------------------
\* cpin: what a file reads as when some of its blocks have been stored.

\* Where the k-th of the stored blocks is among those found.
Where(k) == IF k <= SFS_NDIRECT THEN k ELSE k + 1

LEMMA StoredAt ==
    ASSUME NEW s \in Seq(Blocks), Len(s) <= MostBlocks + 1, NEW u, u = Stored(s)
    PROVE  /\ u \in Seq(Blocks) /\ Len(u) \in Nat
           /\ Len(u) = (IF Len(s) <= SFS_NDIRECT THEN Len(s) ELSE Len(s) - 1)
           /\ \A k \in 1 .. Len(u) : Where(k) \in 1 .. Len(s) /\ u[k] = s[Where(k)]
<1> DEFINE N == SFS_NDIRECT
           d == Direct(s)
           i == Indirect(s)
<1>1. N \in Nat /\ Len(s) \in Nat
  BY SfsAssumption
<1>2. /\ Len(d) = (IF Len(s) <= N THEN Len(s) ELSE N)
      /\ \A k \in 1 .. Len(d) : d[k] = s[k]
      /\ Len(i) = (IF Len(s) <= N THEN 0 ELSE Len(s) - N - 1)
      /\ \A k \in 1 .. Len(i) : i[k] = s[N + 1 + k]
      /\ u \in Seq(Blocks) /\ Len(u) = Len(d) + Len(i)
      /\ \A k \in 1 .. Len(d) : u[k] = d[k]
      /\ \A k \in Len(d) + 1 .. Len(u) : u[k] = i[k - Len(d)]
  BY SMTT(30), StoredIs
<1> HIDE DEF d, i
<1>3. Len(u) = (IF Len(s) <= N THEN Len(s) ELSE Len(s) - 1)
  BY <1>1, <1>2
<1>4. ASSUME NEW k \in 1 .. Len(u)
      PROVE  Where(k) \in 1 .. Len(s) /\ u[k] = s[Where(k)]
  <2>1. CASE k <= Len(d)
    BY <1>1, <1>2, <2>1 DEF Where
  <2>2. CASE ~(k <= Len(d))
    <3>1. k \in Len(d) + 1 .. Len(u) /\ k - Len(d) \in 1 .. Len(i) /\ Len(d) = N
      BY <1>1, <1>2, <2>2
    <3>2. u[k] = i[k - Len(d)]
      BY <1>2, <3>1, Zenon
    <3>3. i[k - Len(d)] = s[N + 1 + (k - Len(d))]
      BY <1>2, <3>1, Zenon
    <3>4. N + 1 + (k - Len(d)) = k + 1
      BY <1>1, <3>1
    <3>5. Where(k) = k + 1 /\ k + 1 \in 1 .. Len(s)
      BY <1>1, <1>3, <3>1 DEF Where
    <3>6. QED
      BY <3>2, <3>3, <3>4, <3>5
  <2>3. QED
    BY <2>1, <2>2
<1>5. Len(u) \in Nat
  BY <1>2
<1>6. \A k \in 1 .. Len(u) : Where(k) \in 1 .. Len(s) /\ u[k] = s[Where(k)]
  BY <1>4, Zenon
<1>7. QED
  BY <1>2, <1>3, <1>5, <1>6, Zenon

\* A file whose size is beyond its blocks reads as far as they go.
LEMMA ContentStart ==
    ASSUME NEW h \in HostFiles, NEW file, file = HostFile(h), file # NoFile,
           NEW v \in Seq(Blocks), NEW z,
           \A k \in 1 .. Len(v) : k <= Len(file.chunks) => z[v[k]] = file.chunks[k],
           NEW size \in Nat, size <= file.size
    PROVE  FromHost(ContentOf(size, v, z))
<1>1. CASE size <= SFS_BLOCKSIZE * Len(v)
  BY <1>1, CopiedContent, Zenon DEF Holding
<1>2. CASE ~(size <= SFS_BLOCKSIZE * Len(v))
  <2> DEFINE B == SFS_BLOCKSIZE
             p == Len(v)
             a == B * p
             q == ChunksOf(size)
             e == ChunksOf(a)
  <2>1. B \in Nat \ {0} /\ p \in Nat /\ a \in Nat /\ p * B = a
    BY SfsAssumption
  <2>2. q \in Nat /\ size <= B * q
    BY <2>1, RoundedUp, Zenon DEF ChunksOf
  <2>3. e \in Nat /\ a <= B * e
    BY <2>1, RoundedUp, Zenon DEF ChunksOf
  <2> HIDE DEF q, e
  <2>4. ASSUME NEW l \in Nat, a <= B * l
        PROVE  p <= l
    <3>1. B * (l + 1) = B * l + B /\ B * l \in Nat
      BY <2>1
    <3>2. CASE l + 1 <= p
      <4>1. B * (l + 1) <= B * p
        BY <2>1, <3>2
      <4>2. QED
        BY <2>1, <2>4, <3>1, <4>1
    <3>3. QED
      BY <2>1, <3>2
  <2>5. a < size
    BY <1>2, <2>1
  <2> HIDE DEF a
  <2>6. p <= q /\ p <= e
    <3>1. B * q \in Nat
      BY <2>1, <2>2
    <3>2. a <= B * q
      BY <2>1, <2>2, <2>5, <3>1
    <3>3. QED
      BY <2>2, <2>3, <2>4, <3>2
  <2>7. Min({q, p}) = p /\ Min({e, p}) = p /\ Min({size, a}) = a /\ Min({a, a}) = a
    <3>1. ASSUME NEW i \in Nat, NEW j \in Nat, j <= i
          PROVE  Min({i, j}) = j
      <4>1. {i, j} \in SUBSET Nat
        OBVIOUS
      <4>2. Min({i, j}) \in {i, j} /\ Min({i, j}) <= j
        BY <4>1, MinOf, Zenon
      <4>3. QED
        BY <3>1, <4>2
    <3>2. Min({q, p}) = p /\ Min({e, p}) = p
      BY <2>1, <2>2, <2>3, <2>6, <3>1, Zenon
    <3>3. a <= size /\ a <= a
      BY <2>1, <2>5
    <3>4. Min({size, a}) = a /\ Min({a, a}) = a
      BY <2>1, <3>1, <3>3
    <3>5. QED
      BY <3>2, <3>4
  <2>8. ContentOf(size, v, z) = ContentOf(a, v, z)
    BY <2>1, <2>7, Zenon DEF ContentOf, q, e
  <2>9. a <= file.size /\ a <= SFS_BLOCKSIZE * Len(v)
    <3>1. file.size \in Nat
      BY HostFileIs
    <3>2. QED
      BY <2>1, <2>5, <3>1 DEF a
  <2>10. FromHost(ContentOf(a, v, z))
    BY <2>1, <2>9, CopiedContent, Zenon DEF Holding
  <2>11. QED
    BY <2>8, <2>10
<1>3. QED
  BY <1>1, <1>2

----------------------------------------------------------------------------
\* A volume as it is formatted is sane.

\* The root directory i has the block c and no names.
OnlyRoot(n, e, i, c) ==
    /\ DOMAIN n = {i} /\ i = SFS_ROOT_LOCATION
    /\ c \in Blocks /\ c # 0 /\ c \notin System /\ c # i /\ 1 \in Rows
    /\ n[i].type = "dir" /\ n[i].size = 2 /\ n[i].indirect = 0
    /\ \A k \in Rows : n[i].direct[k] = IF k = 1 THEN c ELSE 0
    /\ n[i].direct[1] = c
    /\ \A q \in Blocks, j \in Columns : ~Gives(e, q, j)
    /\ \A j \in Columns : e[c][j].sfd_ino # 0 <=> j \in {1, 2}
    /\ e[c][1] = Entry(i, ".") /\ e[c][2] = Entry(i, "..")

LEMMA RootSane ==
    ASSUME NEW n, NEW e, NEW y, NEW z, NEW m, NEW X, NEW T, Typed(n, e, y, m),
           NEW i, NEW c, OnlyRoot(n, e, i, c), c \in m
    PROVE  Sane(n, e, y, z, m, X, T, 0) /\ Live(n, e, 0) = {i}
<1>1. /\ DOMAIN n = {i} /\ i = SFS_ROOT_LOCATION
      /\ c \in Blocks /\ c # 0 /\ c \notin System /\ c # i /\ 1 \in Rows
      /\ n[i].type = "dir" /\ n[i].size = 2 /\ n[i].indirect = 0
      /\ \A k \in Rows : n[i].direct[k] = IF k = 1 THEN c ELSE 0
      /\ n[i].direct[1] = c
      /\ \A q \in Blocks, j \in Columns : ~Gives(e, q, j)
      /\ \A j \in Columns : e[c][j].sfd_ino # 0 <=> j \in {1, 2}
      /\ e[c][1] = Entry(i, ".") /\ e[c][2] = Entry(i, "..")
  BY DEF OnlyRoot
<1>2. i # 0
  BY <1>1 DEF SFS_ROOT_LOCATION
<1>3. Live(n, e, 0) = {i}
  <2>1. \A h : ~Given(e, h)
    BY <1>1 DEF Given
  <2>2. QED
    BY <1>1, <1>2, <2>1 DEF Live
<1>4. ASSUME NEW k, NEW l, NEW q, q # 0, Place(n, e, y, i, k, l, q)
      PROVE  k = 1 /\ l = 0 /\ q = c
  <2>1. CASE k \in Rows /\ l = 0 /\ q = n[i].direct[k]
    BY <1>1, <1>4, <2>1
  <2>2. CASE k \in Rows /\ l \in Columns /\ n[i].direct[k] # 0 /\ Gives(e, n[i].direct[k], l)
    BY <1>1, <2>2
  <2>3. QED
    BY <1>1, <1>4, <2>1, <2>2 DEF Place
<1>5. NamesLead(n, e, 0)
  BY <1>1 DEF NamesLead
<1>6. TargetsMarked(n, e, y, m, 0)
  <2>1. ASSUME NEW q, LeadsTo(n, e, y, i, q)
        PROVE  q = c
    BY <1>4, <2>1 DEF LeadsTo
  <2>2. QED
    BY <1>1, <1>3, <2>1 DEF TargetsMarked
<1>7. TargetsOnce(n, e, y, 0)
  BY <1>3, <1>4 DEF TargetsOnce
<1>8. DotsIn(n, e, i, i)
  <2>1. ASSUME NEW k \in Rows, NEW j \in Columns, Used(n, e, i, k, j)
        PROVE  k = 1 /\ j \in {1, 2}
    <3>1. n[i].direct[k] # 0 /\ e[n[i].direct[k]][j].sfd_ino # 0
      BY <2>1 DEF Used
    <3>2. QED
      BY <1>1, <3>1
  <2>2. QED
    BY <1>1, <2>1 DEF DotsIn
<1>9. DirsFormed(n, e, 0)
  BY <1>1, <1>3, <1>8 DEF DirsFormed
<1>10. FilesHeld(n, e, y, X, T, 0)
  BY <1>1, <1>3 DEF FilesHeld
<1>11. AllSized(n, e, y, z)
  <2>1. \A k \in Rows, j \in Columns : Used(n, e, i, k, j) <=> k = 1 /\ j \in {1, 2}
    BY <1>1 DEF Used
  <2>2. Cardinality(UsedSlots(n, e, i)) = 2
    BY <2>1, TwoUsed
  <2>3. Sized(n, e, y, z, i)
    BY <1>1, <2>2 DEF Sized
  <2>4. QED
    BY <1>3, <2>3 DEF AllSized
<1>12. QED
  BY <1>2, <1>1, <1>3, <1>5, <1>6, <1>7, <1>9, <1>10, <1>11 DEF Sane

----------------------------------------------------------------------------
\* The image as a mount reads it.

\* What a mount reads of the blocks of each kind.
NoRows == [i \in 1 .. SFS_DBPERIDB |-> 0]
EntriesRead(b) == Reading(b, NewDirBlock(<< >>))
RowsRead(x) == Reading(x, NoRows)
DataRead(t) == Reading(t, Stale)

----------------------------------------------------------------------------
\* What an image is.

SaneDisk(D, g) ==
    /\ Tables(D.inode, D.dirBlock, D.indirect)
    /\ DOMAIN D.dirBlock \subseteq D.bitmap
    /\ D.data = [c \in DOMAIN D.data |-> D.data[c]]
    /\ Sane(D.inode, EntriesRead(D.dirBlock), RowsRead(D.indirect), DataRead(D.data),
            D.bitmap, DOMAIN D.indirect, DOMAIN D.data, g)

\* Every directory's blocks have been written.
DirsWritten(n, b) ==
    \A d \in Live(n, EntriesRead(b), 0), k \in Rows :
        n[d].type = "dir" /\ n[d].direct[k] # 0 => n[d].direct[k] \in DOMAIN b

\* What Intact asks of the image.
Crashable(D) ==
    LET n == D.inode
        e == EntriesRead(D.dirBlock)
        y == RowsRead(D.indirect)
    IN  /\ \A i : Given(e, i) => i \in DOMAIN n
        /\ DirsWritten(n, D.dirBlock)
        /\ \A i \in Live(n, e, 0) : \A c : LeadsTo(n, e, y, i, c) => c \in D.bitmap

\* The files of D that F has too, but for f, are the same.
SameFiles(D, F, f) ==
    \A i \in Live(D.inode, EntriesRead(D.dirBlock), 0) :
        D.inode[i].type = "file" /\ i \in DOMAIN F.inode /\ i # f =>
            /\ i \in Live(F.inode, EntriesRead(F.dirBlock), 0) /\ F.inode[i].type = "file"
            /\ ContentIn(D.inode, RowsRead(D.indirect), DataRead(D.data), i)
                 = ContentIn(F.inode, RowsRead(F.indirect), DataRead(F.data), i)

\* The indirect block of inode f has been written.
TableHeld(n, x, f) == f \in DOMAIN n => n[f].indirect \in {0} \cup DOMAIN x

\* D may be found on the way to F, the disk a command leaves; f is the inode it
\* makes.  Commands may go on from D if it is sane without an exception.
IsImage(D) ==
    D = [bitmap |-> D.bitmap, inode |-> D.inode, dirBlock |-> D.dirBlock,
         indirect |-> D.indirect, data |-> D.data]

Fine(D, F, f) ==
    /\ IsImage(D)
    /\ SaneDisk(D, 0) \/ (f # 0 /\ SaneDisk(D, f) /\ TableHeld(D.inode, D.indirect, f))
    /\ Crashable(D) => SaneDisk(D, 0)
    /\ SameFiles(D, F, f)

\* What the commands leave.
Rest ==
    /\ SaneDisk(Disk, 0)
    /\ DirsWritten(inode, dirBlock)
    /\ cwd = 0 \/ (cwd \in Live(inode, EntriesRead(dirBlock), 0) /\ inode[cwd].type = "dir")

----------------------------------------------------------------------------
\* Images, and what a write makes of one.

Img(m, n, b, x, t) == [bitmap |-> m, inode |-> n, dirBlock |-> b, indirect |-> x, data |-> t]

LEMMA ImgParts ==
    ASSUME NEW m, NEW n, NEW b, NEW x, NEW t, NEW D, D = Img(m, n, b, x, t)
    PROVE  D.bitmap = m /\ D.inode = n /\ D.dirBlock = b /\ D.indirect = x /\ D.data = t
BY DEF Img

LEMMA WrittenIs ==
    ASSUME NEW m, NEW n, NEW b, NEW x, NEW t, NEW c, NEW v
    PROVE  /\ Written(Img(m, n, b, x, t), Write("inode", c, v)) = Img(m, Put(n, c, v), b, x, t)
           /\ Written(Img(m, n, b, x, t), Write("dirBlock", c, v)) = Img(m, n, Put(b, c, v), x, t)
           /\ Written(Img(m, n, b, x, t), Write("indirect", c, v)) = Img(m, n, b, Put(x, c, v), t)
           /\ Written(Img(m, n, b, x, t), Write("data", c, v)) = Img(m, n, b, x, Put(t, c, v))
<1>1. Written(Img(m, n, b, x, t), Write("inode", c, v)) = Img(m, Put(n, c, v), b, x, t)
  BY DEF Written, Write, Img
<1>2. Written(Img(m, n, b, x, t), Write("dirBlock", c, v)) = Img(m, n, Put(b, c, v), x, t)
  BY DEF Written, Write, Img
<1>3. Written(Img(m, n, b, x, t), Write("indirect", c, v)) = Img(m, n, b, Put(x, c, v), t)
  BY DEF Written, Write, Img
<1>4. Written(Img(m, n, b, x, t), Write("data", c, v)) = Img(m, n, b, x, Put(t, c, v))
  BY DEF Written, Write, Img
<1>5. QED
  BY <1>1, <1>2, <1>3, <1>4

IsFunction(f) == f = [c \in DOMAIN f |-> f[c]]

\* The block of the map that has a block's bit.
LEMMA MapBlock ==
    /\ SFS_BITBLOCKS \in Nat
    /\ \A q \in Blocks : q \div SFS_BLOCKBITS \in Nat /\ q \div SFS_BLOCKBITS < SFS_BITBLOCKS
<1>1. SFS_BITBLOCKS \in Nat /\ SFS_BLOCKBITS \in Nat
  BY VolumeFacts
<1>2. ASSUME NEW q \in Blocks
      PROVE  q \div SFS_BLOCKBITS \in Nat /\ q \div SFS_BLOCKBITS < SFS_BITBLOCKS
  <2>1. q \in Nat /\ q < SFS_BITBLOCKS * SFS_BLOCKBITS
    BY <1>1 DEF Blocks
  <2>2. SFS_BLOCKBITS > 0
    <3>1. SFS_BLOCKBITS # 0
      BY <1>1, <2>1
    <3>2. QED
      BY <1>1, <3>1
  <2>3. ASSUME NEW a \in Nat, NEW s \in Nat, s > 0, NEW r \in Nat, a < r * s
        PROVE  a \div s \in Nat /\ a \div s < r
    BY <2>3
  <2>4. QED
    BY <1>1, <2>1, <2>2, <2>3
<1>3. QED
  BY <1>1, <1>2

\* The map when k of its blocks are those of B, and the bits cleared so far.
MapAt(m, B, k) ==
    {q \in m : q \div SFS_BLOCKBITS >= k} \cup {q \in B : q \div SFS_BLOCKBITS < k}
ClearedAt(m, B, k) == {q \in m \ B : q \div SFS_BLOCKBITS < k}

ImgAt(m, n, b, x, t, B, k) ==
    LET G == ClearedAt(m, B, k)
    IN  Img(MapAt(m, B, k), Forget(n, G), Forget(b, G), Forget(x, G), Forget(t, G))

LEMMA ForgetTwice ==
    ASSUME NEW f, NEW G, NEW H
    PROVE  Forget(Forget(f, G), H) = Forget(f, G \cup H)
BY DEF Forget, Restrict

LEMMA ForgetNone ==
    ASSUME NEW f, IsFunction(f), NEW G, G \cap DOMAIN f = {}
    PROVE  Forget(f, G) = f
BY DEF Forget, Restrict, IsFunction

LEMMA MapStepWritten ==
    ASSUME NEW m \in SUBSET Blocks, NEW B \in SUBSET Blocks, NEW n, NEW b, NEW x, NEW t,
           NEW k \in 1 .. SFS_BITBLOCKS
    PROVE  ImgAt(m, n, b, x, t, B, k) = Written(ImgAt(m, n, b, x, t, B, k - 1), MapWrites(B)[k])
<1>1. MapWrites(B)[k] = Write("bitmap", k - 1, {q \in B : q \div SFS_BLOCKBITS = k - 1})
  BY DEF MapWrites
<1>2. \A q \in m \cup B : q \div SFS_BLOCKBITS \in Nat
  BY MapBlock
<1>3. DEFINE w == MapWrites(B)[k]
             G == ClearedAt(m, B, k - 1)
             H == ClearedAt(m, B, k)
             bits == {q \in MapAt(m, B, k - 1) : q \div SFS_BLOCKBITS # k - 1}
                       \cup {q \in B : q \div SFS_BLOCKBITS = k - 1}
             freed == MapAt(m, B, k - 1) \ bits
<1>4. bits = MapAt(m, B, k)
  BY <1>2 DEF MapAt
<1>5. G \cup freed = H
  <2>1. \A q : q \in freed <=> q \in m \ B /\ q \div SFS_BLOCKBITS = k - 1
    BY <1>2, <1>4 DEF MapAt
  <2>2. QED
    BY <1>2, <2>1 DEF ClearedAt
<1>6. Written(ImgAt(m, n, b, x, t, B, k - 1), w)
        = Img(bits, Forget(Forget(n, G), freed), Forget(Forget(b, G), freed),
              Forget(Forget(x, G), freed), Forget(Forget(t, G), freed))
  <2>1. /\ w.kind = "bitmap" /\ w.block = k - 1 /\ w.value = {q \in B : q \div SFS_BLOCKBITS = k - 1}
    BY <1>1 DEF Write
  <2>2. DEFINE D == ImgAt(m, n, b, x, t, B, k - 1)
  <2>3. /\ D.bitmap = MapAt(m, B, k - 1) /\ D.inode = Forget(n, G) /\ D.dirBlock = Forget(b, G)
        /\ D.indirect = Forget(x, G) /\ D.data = Forget(t, G)
    BY DEF ImgAt, Img
  <2>4. Written(D, w) = MapWritten(D, w)
    BY <2>1 DEF Written
  <2>5. MapWritten(D, w)
          = Img(bits, Forget(Forget(n, G), freed), Forget(Forget(b, G), freed),
                Forget(Forget(x, G), freed), Forget(Forget(t, G), freed))
    BY <2>1, <2>3, Zenon DEF MapWritten, Img
  <2>6. QED
    BY <2>4, <2>5
<1>7. ImgAt(m, n, b, x, t, B, k)
        = Img(MapAt(m, B, k), Forget(n, H), Forget(b, H), Forget(x, H), Forget(t, H))
  BY DEF ImgAt
<1> HIDE DEF w, G, H, bits, freed
<1>8. \A f : Forget(Forget(f, G), freed) = Forget(f, H)
  BY <1>5, ForgetTwice
<1>9. Written(ImgAt(m, n, b, x, t, B, k - 1), w)
        = Img(MapAt(m, B, k), Forget(n, H), Forget(b, H), Forget(x, H), Forget(t, H))
  BY <1>4, <1>6, <1>8
<1>10. QED
  BY <1>7, <1>9 DEF w

LEMMA MapEnds ==
    ASSUME NEW m \in SUBSET Blocks, NEW B \in SUBSET Blocks, NEW n, NEW b, NEW x, NEW t,
           IsFunction(n), IsFunction(b), IsFunction(x), IsFunction(t)
    PROVE  /\ ImgAt(m, n, b, x, t, B, 0) = Img(m, n, b, x, t)
           /\ MapAt(m, B, SFS_BITBLOCKS) = B /\ ClearedAt(m, B, SFS_BITBLOCKS) = m \ B
<1>1. \A q \in m \cup B : q \div SFS_BLOCKBITS \in Nat /\ q \div SFS_BLOCKBITS < SFS_BITBLOCKS
  BY MapBlock
<1>2. MapAt(m, B, 0) = m /\ ClearedAt(m, B, 0) = {}
  BY <1>1 DEF MapAt, ClearedAt
<1>3. ImgAt(m, n, b, x, t, B, 0) = Img(m, n, b, x, t)
  BY <1>2, ForgetNone DEF ImgAt
<1>4. SFS_BITBLOCKS \in Nat
  BY MapBlock
<1>5. QED
  BY <1>1, <1>3, <1>4 DEF MapAt, ClearedAt

----------------------------------------------------------------------------
\* The images between the writes of a list.

IsTrail(im, D, w, E, F, f) ==
    /\ im[0] = D /\ im[Len(w)] = E
    /\ \A j \in 1 .. Len(w) : im[j] = Written(im[j - 1], w[j])
    /\ \A j \in 0 .. Len(w) : Fine(im[j], F, f)

\* The writes w lead from image D to E by way of images that are all fine.
Trail(D, w, E, F, f) ==
    /\ \E S : w \in Seq(S)
    /\ \E im : IsTrail(im, D, w, E, F, f)

LEMMA TrailEmpty ==
    ASSUME NEW D, NEW F, NEW f, Fine(D, F, f)
    PROVE  Trail(D, << >>, D, F, f)
<1>1. << >> \in Seq({}) /\ Len(<< >>) = 0
  OBVIOUS
<1>2. IsTrail([j \in {0} |-> D], D, << >>, D, F, f)
  BY <1>1 DEF IsTrail
<1>3. QED
  BY <1>1, <1>2 DEF Trail

LEMMA TrailOne ==
    ASSUME NEW D, NEW w, NEW E, E = Written(D, w), NEW F, NEW f, Fine(D, F, f), Fine(E, F, f)
    PROVE  Trail(D, <<w>>, E, F, f)
<1>1. <<w>> \in Seq({w}) /\ Len(<<w>>) = 1 /\ <<w>>[1] = w
  OBVIOUS
<1>2. DEFINE im == [j \in {0, 1} |-> IF j = 0 THEN D ELSE E]
<1>3. im[0] = D /\ im[1] = E
  OBVIOUS
<1>4. IsTrail(im, D, <<w>>, E, F, f)
  <2>1. \A j \in 1 .. 1 : j = 1 /\ j - 1 = 0
    OBVIOUS
  <2>2. \A j \in 0 .. 1 : j = 0 \/ j = 1
    OBVIOUS
  <2>3. QED
    BY <1>1, <1>3, <2>1, <2>2 DEF IsTrail
<1>5. QED
  BY <1>1, <1>4, Zenon DEF Trail

LEMMA WiderSeq ==
    ASSUME NEW S, NEW R, S \subseteq R, NEW w \in Seq(S)
    PROVE  w \in Seq(R)
<1>1. Len(w) \in Nat /\ w \in [1 .. Len(w) -> R]
  OBVIOUS
<1>2. QED
  BY <1>1

LEMMA TrailCat ==
    ASSUME NEW D, NEW v, NEW E, NEW w, NEW G, NEW F, NEW f,
           Trail(D, v, E, F, f), Trail(E, w, G, F, f)
    PROVE  Trail(D, v \o w, G, F, f)
<1>1. PICK S, R : v \in Seq(S) /\ w \in Seq(R)
  BY DEF Trail
<1>2. v \in Seq(S \cup R) /\ w \in Seq(S \cup R)
  <2>1. S \subseteq S \cup R /\ R \subseteq S \cup R
    OBVIOUS
  <2>2. v \in Seq(S \cup R)
    BY <1>1, <2>1, WiderSeq
  <2>3. w \in Seq(S \cup R)
    BY <1>1, <2>1, WiderSeq
  <2>4. QED
    BY <2>2, <2>3
<1>3. PICK a, b : IsTrail(a, D, v, E, F, f) /\ IsTrail(b, E, w, G, F, f)
  BY DEF Trail
<1>4. DEFINE u == v \o w
             p == Len(v)
             q == Len(w)
             im == [j \in 0 .. p + q |-> IF j <= p THEN a[j] ELSE b[j - p]]
<1>5. /\ p \in Nat /\ q \in Nat /\ u \in Seq(S \cup R) /\ Len(u) = p + q
      /\ \A j \in 1 .. p + q : u[j] = IF j <= p THEN v[j] ELSE w[j - p]
  BY <1>2
<1>6. /\ a[0] = D /\ a[p] = E /\ b[0] = E /\ b[q] = G
      /\ \A j \in 1 .. p : a[j] = Written(a[j - 1], v[j])
      /\ \A j \in 1 .. q : b[j] = Written(b[j - 1], w[j])
      /\ \A j \in 0 .. p : Fine(a[j], F, f)
      /\ \A j \in 0 .. q : Fine(b[j], F, f)
  BY <1>3 DEF IsTrail
<1>7. im[0] = D /\ im[p + q] = G
  BY <1>5, <1>6
<1>8. ASSUME NEW j \in 1 .. p + q
      PROVE  im[j] = Written(im[j - 1], u[j])
  <2>1. CASE j <= p
    BY <1>5, <1>6, <2>1
  <2>2. CASE j > p
    <3>1. j - p \in 1 .. q /\ (j - 1) - p = (j - p) - 1 /\ j - 1 \in 0 .. p + q /\ j \in 0 .. p + q
      BY <1>5, <2>2
    <3>2. im[j - 1] = b[(j - p) - 1]
      <4>1. CASE j - 1 = p
        BY <1>5, <1>6, <3>1, <4>1
      <4>2. CASE j - 1 # p
        BY <1>5, <2>2, <3>1, <4>2
      <4>3. QED
        BY <4>1, <4>2
    <3>3. im[j] = b[j - p] /\ u[j] = w[j - p]
      BY <1>5, <2>2, <3>1
    <3>4. QED
      BY <1>6, <3>1, <3>2, <3>3
  <2>3. QED
    BY <1>5, <2>1, <2>2
<1>9. ASSUME NEW j \in 0 .. p + q
      PROVE  Fine(im[j], F, f)
  <2>1. CASE j <= p
    BY <1>5, <1>6, <2>1
  <2>2. CASE j > p
    <3>1. j - p \in 0 .. q /\ im[j] = b[j - p]
      BY <1>5, <2>2
    <3>2. QED
      BY <1>6, <3>1
  <2>3. QED
    BY <1>5, <2>1, <2>2
<1>10. IsTrail(im, D, u, G, F, f)
  BY <1>5, <1>7, <1>8, <1>9, Zenon DEF IsTrail
<1>11. QED
  BY <1>5, <1>10 DEF Trail

LEMMA TrailNext ==
    ASSUME NEW D, NEW w, NEW E, NEW F, NEW f, Trail(D, w, E, F, f), w # << >>
    PROVE  Trail(Written(D, Head(w)), Tail(w), E, F, f)
<1>1. PICK S : w \in Seq(S)
  BY DEF Trail
<1>2. PICK im : IsTrail(im, D, w, E, F, f)
  BY DEF Trail
<1>3. /\ Len(w) \in Nat \ {0} /\ Tail(w) \in Seq(S) /\ Len(Tail(w)) = Len(w) - 1
      /\ Head(w) = w[1] /\ \A j \in 1 .. Len(w) - 1 : Tail(w)[j] = w[j + 1]
  BY <1>1
<1>4. DEFINE later == [j \in 0 .. Len(w) - 1 |-> im[j + 1]]
<1>5. /\ im[0] = D /\ im[Len(w)] = E
      /\ \A j \in 1 .. Len(w) : im[j] = Written(im[j - 1], w[j])
      /\ \A j \in 0 .. Len(w) : Fine(im[j], F, f)
  BY <1>2 DEF IsTrail
<1>6. later[0] = Written(D, Head(w)) /\ later[Len(w) - 1] = E
  BY <1>3, <1>5
<1>7. ASSUME NEW j \in 1 .. Len(w) - 1
      PROVE  later[j] = Written(later[j - 1], Tail(w)[j])
  <2>1. j + 1 \in 1 .. Len(w) /\ (j + 1) - 1 = j /\ (j - 1) + 1 = j /\ j - 1 \in 0 .. Len(w) - 1
    BY <1>3
  <2>2. im[j + 1] = Written(im[j], w[j + 1])
    BY <1>5, <2>1
  <2>3. QED
    BY <1>3, <2>1, <2>2
<1>8. \A j \in 0 .. Len(w) - 1 : Fine(later[j], F, f)
  BY <1>3, <1>5
<1>9. IsTrail(later, Written(D, Head(w)), Tail(w), E, F, f)
  BY <1>3, <1>6, <1>7, <1>8, Zenon DEF IsTrail
<1>10. QED
  BY <1>3, <1>9 DEF Trail

LEMMA TrailEnds ==
    ASSUME NEW D, NEW w, NEW E, NEW F, NEW f, Trail(D, w, E, F, f)
    PROVE  /\ Fine(D, F, f) /\ Fine(E, F, f)
           /\ w = << >> => D = E
<1>1. PICK S : w \in Seq(S)
  BY DEF Trail
<1>2. PICK im : IsTrail(im, D, w, E, F, f)
  BY DEF Trail
<1>3. Len(w) \in Nat /\ (w = << >> => Len(w) = 0)
  BY <1>1
<1>4. QED
  BY <1>2, <1>3 DEF IsTrail

LEMMA ListOf ==
    ASSUME NEW N \in Nat, NEW w, DOMAIN w = 1 .. N, IsFunction(w)
    PROVE  w \in Seq({w[k] : k \in 1 .. N}) /\ Len(w) = N
<1>1. w \in [1 .. N -> {w[k] : k \in 1 .. N}]
  BY DEF IsFunction
<1>2. QED
  BY <1>1

LEMMA MapTrail ==
    ASSUME NEW m \in SUBSET Blocks, NEW B \in SUBSET Blocks, NEW n, NEW b, NEW x, NEW t,
           IsFunction(n), IsFunction(b), IsFunction(x), IsFunction(t), NEW F, NEW f,
           \A k \in 0 .. SFS_BITBLOCKS : Fine(ImgAt(m, n, b, x, t, B, k), F, f)
    PROVE  Trail(Img(m, n, b, x, t), MapWrites(B), ImgAt(m, n, b, x, t, B, SFS_BITBLOCKS), F, f)
<1>1. SFS_BITBLOCKS \in Nat
  BY MapBlock
<1>2. DEFINE w == MapWrites(B)
             S == {w[k] : k \in 1 .. SFS_BITBLOCKS}
             im == [k \in 0 .. SFS_BITBLOCKS |-> ImgAt(m, n, b, x, t, B, k)]
<1>3. w \in Seq(S) /\ Len(w) = SFS_BITBLOCKS
  <2>1. DOMAIN w = 1 .. SFS_BITBLOCKS /\ IsFunction(w)
    BY DEF MapWrites, IsFunction
  <2> HIDE DEF w
  <2>2. QED
    BY <1>1, <2>1, ListOf
<1>4. im[0] = Img(m, n, b, x, t) /\ im[SFS_BITBLOCKS] = ImgAt(m, n, b, x, t, B, SFS_BITBLOCKS)
  BY <1>1, MapEnds
<1>5. ASSUME NEW k \in 1 .. SFS_BITBLOCKS
      PROVE  im[k] = Written(im[k - 1], w[k])
  <2>1. k \in 0 .. SFS_BITBLOCKS /\ k - 1 \in 0 .. SFS_BITBLOCKS
    BY <1>1
  <2>2. QED
    BY <2>1, MapStepWritten
<1>6. IsTrail(im, Img(m, n, b, x, t), w, ImgAt(m, n, b, x, t, B, SFS_BITBLOCKS), F, f)
  BY <1>1, <1>3, <1>4, <1>5, Zenon DEF IsTrail
<1>7. QED
  BY <1>3, <1>6 DEF Trail

----------------------------------------------------------------------------
\* What is read after a block has been written or forgotten.

LEMMA ReadPut ==
    ASSUME NEW b, NEW c, NEW v, NEW u
    PROVE  /\ DOMAIN Reading(b, u) = Blocks
           /\ \A q \in Blocks : Reading(Put(b, c, v), u)[q] = IF q = c THEN v ELSE Reading(b, u)[q]
           /\ DOMAIN Put(b, c, v) = DOMAIN b \cup {c} /\ IsFunction(Put(b, c, v))
           /\ Put(b, c, v)[c] = v
           /\ \A q \in DOMAIN b : q # c => Put(b, c, v)[q] = b[q]
BY DEF Reading, Put, IsFunction

LEMMA ReadForget ==
    ASSUME NEW b, NEW G, NEW u
    PROVE  /\ \A q \in Blocks : Reading(Forget(b, G), u)[q] = IF q \in G THEN u ELSE Reading(b, u)[q]
           /\ DOMAIN Forget(b, G) = DOMAIN b \ G /\ IsFunction(Forget(b, G))
           /\ \A q \in DOMAIN b \ G : Forget(b, G)[q] = b[q]
BY DEF Reading, Forget, Restrict, IsFunction

LEMMA ReadTyped ==
    ASSUME NEW n, NEW b, NEW x, Tables(n, b, x)
    PROVE  /\ EntriesRead(b) \in [Blocks -> [Columns -> EntryRecords]]
           /\ RowsRead(x) \in [Blocks -> [IndirectRows -> Blocks]]
           /\ IsFunction(n) /\ IsFunction(b) /\ IsFunction(x)
<1>1. EntriesRead(b) \in [Blocks -> [Columns -> EntryRecords]]
  BY EmptyBlock, Zenon DEF Tables, EntriesRead, Reading
<1>2. NoRows \in [IndirectRows -> Blocks]
  BY VolumeFacts DEF NoRows, IndirectRows
<1>3. RowsRead(x) \in [Blocks -> [IndirectRows -> Blocks]]
  BY <1>2 DEF Tables, RowsRead, Reading
<1>4. IsFunction(n) /\ IsFunction(b) /\ IsFunction(x)
  BY DEF Tables, IsFunction
<1>5. QED
  BY <1>1, <1>3, <1>4

LEMMA ReadWritten ==
    ASSUME NEW b, NEW c \in Blocks, c \in DOMAIN b
    PROVE  EntriesRead(b)[c] = b[c]
BY DEF EntriesRead, Reading

LEMMA ReadUnwritten ==
    ASSUME NEW b, NEW c \in Blocks, c \notin DOMAIN b
    PROVE  \A j \in Columns : EntriesRead(b)[c][j].sfd_ino = 0
BY EmptyBlock, Zenon DEF EntriesRead, Reading

\* An entry of a block that has been written.
LEMMA ReadEntrySet ==
    ASSUME NEW n, NEW b, NEW x, Tables(n, b, x), NEW b2, NEW c \in Blocks, c \in DOMAIN b, NEW j \in Columns,
           NEW E \in EntryRecords, EntrySet(b, b2, c, j, E)
    PROVE  EntrySet(EntriesRead(b), EntriesRead(b2), c, j, E)
<1>1. DOMAIN b2 = DOMAIN b /\ b2 \in [DOMAIN b -> [Columns -> EntryRecords]]
  BY DEF EntrySet
<1>2. EntriesRead(b2) \in [Blocks -> [Columns -> EntryRecords]] /\ DOMAIN EntriesRead(b) = Blocks
      /\ DOMAIN EntriesRead(b2) = Blocks
  BY <1>1, EmptyBlock, Zenon DEF EntriesRead, Reading
<1>3. \A f \in Blocks : f # c => EntriesRead(b2)[f] = EntriesRead(b)[f]
  BY <1>1 DEF EntrySet, EntriesRead, Reading
<1>4. \A i \in Columns : EntriesRead(b2)[c][i] = IF i = j THEN E ELSE EntriesRead(b)[c][i]
  BY <1>1 DEF EntrySet, EntriesRead, Reading
<1>5. QED
  BY <1>2, <1>3, <1>4 DEF EntrySet

LEMMA EntriesPut ==
    ASSUME NEW b, NEW c, NEW v
    PROVE  \A q \in Blocks : EntriesRead(Put(b, c, v))[q] = IF q = c THEN v ELSE EntriesRead(b)[q]
BY DEF EntriesRead, Reading, Put

\* An entry of a block that has not been written.
LEMMA ReadEntryNew ==
    ASSUME NEW n, NEW b, NEW x, Tables(n, b, x), NEW c \in Blocks, c \notin DOMAIN b, NEW E \in EntryRecords
    PROVE  EntrySet(EntriesRead(b), EntriesRead(Put(b, c, NewDirBlock(<<E>>))), c, 1, E)
<1>1. /\ NewDirBlock(<<E>>) \in [Columns -> EntryRecords]
      /\ \A i \in Columns : NewDirBlock(<<E>>)[i] = IF i = 1 THEN E ELSE FreeEntry
  <2>1. Len(<<E>>) = 1 /\ <<E>>[1] = E
    OBVIOUS
  <2>2. \A i \in Columns : i <= 1 <=> i = 1
    BY SfsAssumption DEF Columns
  <2>3. QED
    BY <2>1, <2>2, EmptyBlock, Zenon DEF NewDirBlock, Columns
<1>2. \A q \in Blocks : EntriesRead(Put(b, c, NewDirBlock(<<E>>)))[q]
         = IF q = c THEN NewDirBlock(<<E>>) ELSE EntriesRead(b)[q]
  BY EntriesPut
<1>3. /\ DOMAIN EntriesRead(b) = Blocks /\ EntriesRead(b) \in [Blocks -> [Columns -> EntryRecords]]
      /\ DOMAIN EntriesRead(Put(b, c, NewDirBlock(<<E>>))) = Blocks
      /\ IsFunction(EntriesRead(Put(b, c, NewDirBlock(<<E>>))))
  BY ReadTyped DEF EntriesRead, Reading, IsFunction
<1>4. EntriesRead(b)[c] = NewDirBlock(<< >>) /\ \A i \in Columns : EntriesRead(b)[c][i] = FreeEntry
  BY EmptyBlock, Zenon DEF EntriesRead, Reading
<1>5. EntriesRead(Put(b, c, NewDirBlock(<<E>>))) \in [Blocks -> [Columns -> EntryRecords]]
  BY <1>1, <1>2, <1>3 DEF IsFunction
<1>6. QED
  BY <1>1, <1>2, <1>3, <1>4, <1>5 DEF EntrySet

----------------------------------------------------------------------------
\* Images that are sane and fine.

LiveIn(n, b, g) == Live(n, EntriesRead(b), g)
FilesOf(n, b, x, t, h) == Files(n, EntriesRead(b), RowsRead(x), DataRead(t), h)
SaneImg(n, b, x, t, m, g) ==
    Sane(n, EntriesRead(b), RowsRead(x), DataRead(t), m, DOMAIN x, DOMAIN t, g)

LEMMA SaneDiskIs ==
    ASSUME NEW m, NEW n, NEW b, NEW x, NEW t, NEW g
    PROVE  SaneDisk(Img(m, n, b, x, t), g)
             <=> Tables(n, b, x) /\ DOMAIN b \subseteq m /\ IsFunction(t) /\ SaneImg(n, b, x, t, m, g)
BY ImgParts DEF SaneDisk, SaneImg, IsFunction

\* The files of D are those of F, but for h.
LEMMA FilesSame ==
    ASSUME NEW m, NEW n, NEW b, NEW x, NEW t, NEW D, D = Img(m, n, b, x, t),
           NEW m2, NEW n2, NEW b2, NEW x2, NEW t2, NEW F, F = Img(m2, n2, b2, x2, t2),
           NEW h, FilesOf(n, b, x, t, h) = FilesOf(n2, b2, x2, t2, h), NEW f, h = f \/ h \notin DOMAIN n2
    PROVE  SameFiles(D, F, f)
<1>1. ASSUME NEW i \in LiveIn(n, b, 0), n[i].type = "file", i \in DOMAIN n2, i # f
      PROVE  /\ i \in LiveIn(n2, b2, 0) /\ n2[i].type = "file"
             /\ ContentIn(n, RowsRead(x), DataRead(t), i) = ContentIn(n2, RowsRead(x2), DataRead(t2), i)
  <2>1. i # h /\ i # 0
    BY <1>1 DEF LiveIn, Live
  <2>2. i \in LiveIn(n, b, h)
    BY <1>1, <2>1 DEF LiveIn, Live
  <2>3. i \in DOMAIN FilesOf(n, b, x, t, h)
    BY <1>1, <2>2 DEF FilesOf, Files, LiveIn
  <2>4. i \in DOMAIN FilesOf(n2, b2, x2, t2, h)
    BY <2>3
  <2>5. i \in LiveIn(n2, b2, h) /\ n2[i].type = "file"
    BY <2>4 DEF FilesOf, Files, LiveIn
  <2>6. i \in LiveIn(n2, b2, 0)
    BY <2>1, <2>5 DEF LiveIn, Live
  <2>7. FilesOf(n, b, x, t, h)[i] = ContentIn(n, RowsRead(x), DataRead(t), i)
    BY <1>1, <2>2 DEF FilesOf, Files, LiveIn
  <2>8. FilesOf(n2, b2, x2, t2, h)[i] = ContentIn(n2, RowsRead(x2), DataRead(t2), i)
    BY <2>5 DEF FilesOf, Files, LiveIn
  <2>9. QED
    BY <2>5, <2>6, <2>7, <2>8
<1>2. /\ D.inode = n /\ D.dirBlock = b /\ D.indirect = x /\ D.data = t
      /\ F.inode = n2 /\ F.dirBlock = b2 /\ F.indirect = x2 /\ F.data = t2
  BY ImgParts
<1>3. QED
  BY <1>1, <1>2 DEF SameFiles, LiveIn

\* The steps of a command: each image is sane, and the files are those of Disk.
Step(m, n, b, x, t, g, h) ==
    /\ SaneDisk(Img(m, n, b, x, t), g)
    /\ FilesOf(n, b, x, t, h) = FilesOf(inode, dirBlock, indirect, data, h)

\* F is what the command leaves.
Leaves(F, h, f) ==
    \E m2, n2, b2, x2, t2 :
        /\ F = Img(m2, n2, b2, x2, t2)
        /\ FilesOf(n2, b2, x2, t2, h) = FilesOf(inode, dirBlock, indirect, data, h)
        /\ h = f \/ h \notin DOMAIN n2

LEMMA StepFine ==
    ASSUME NEW m, NEW n, NEW b, NEW x, NEW t, NEW h, NEW F, NEW f, Leaves(F, h, f),
           \/ Step(m, n, b, x, t, 0, h)
           \/ /\ f # 0 /\ Step(m, n, b, x, t, f, h) /\ TableHeld(n, x, f)
              /\ Crashable(Img(m, n, b, x, t)) => SaneDisk(Img(m, n, b, x, t), 0)
    PROVE  Fine(Img(m, n, b, x, t), F, f)
<1>1. SameFiles(Img(m, n, b, x, t), F, f)
  BY FilesSame DEF Leaves, Step
<1>2. IsImage(Img(m, n, b, x, t))
  BY DEF IsImage, Img
<1>3. PICK D : D = Img(m, n, b, x, t)
  OBVIOUS
<1>4. D.inode = n /\ D.indirect = x
  BY <1>3, ImgParts
<1>5. QED
  BY <1>1, <1>2, <1>3, <1>4 DEF Fine, Step

\* A change outside of all that the names lead to.
Agree(f, f2, G) ==
    \A c \in Blocks \ G : (c \in DOMAIN f2 <=> c \in DOMAIN f) /\ (c \in DOMAIN f => f2[c] = f[c])

Outside(n, b, x, g, G) ==
    \A i \in LiveIn(n, b, g) :
        i \notin G /\ \A c : LeadsTo(n, EntriesRead(b), RowsRead(x), i, c) => c \notin G

Formed(m, n, b, x, t) ==
    /\ Tables(n, b, x) /\ IsFunction(t)
    /\ DOMAIN b \subseteq m /\ m \subseteq Blocks /\ System \cup DOMAIN n \subseteq m /\ 0 \notin DOMAIN n

\* The directory blocks of G have no names.
Bare(b, G) == \A c \in G \cap Blocks, j \in Columns : ~Gives(EntriesRead(b), c, j)

\* What the inodes in use, g not counted, lead to is marked in m.
LedMarked(n, b, x, g, m) ==
    \A i \in LiveIn(n, b, g) : \A c : LeadsTo(n, EntriesRead(b), RowsRead(x), i, c) => c \in m

LEMMA OutsideSane ==
    ASSUME NEW m, NEW n, NEW b, NEW x, NEW t, NEW g, SaneDisk(Img(m, n, b, x, t), g),
           NEW m2, NEW n2, NEW b2, NEW x2, NEW t2, Formed(m2, n2, b2, x2, t2),
           NEW G, Outside(n, b, x, g, G),
           Agree(n, n2, G \cup {g}), Agree(b, b2, G), Agree(x, x2, G), Agree(t, t2, G),
           Bare(b2, G), LedMarked(n, b, x, g, m2),
           g \in LiveIn(n2, b2, 0) => Sized(n2, EntriesRead(b2), RowsRead(x2), DataRead(t2), g)
    PROVE  /\ SaneDisk(Img(m2, n2, b2, x2, t2), g)
           /\ LiveIn(n2, b2, g) = LiveIn(n, b, g)
           /\ FilesOf(n2, b2, x2, t2, g) = FilesOf(n, b, x, t, g)
           /\ \A i \in LiveIn(n, b, g) : n[i].type = "dir" =>
                 UsedSlots(n2, EntriesRead(b2), i) = UsedSlots(n, EntriesRead(b), i)
           /\ \A i \in LiveIn(n, b, g) : \A c :
                 LeadsTo(n2, EntriesRead(b2), RowsRead(x2), i, c) <=> LeadsTo(n, EntriesRead(b), RowsRead(x), i, c)
<1>1. DEFINE e == EntriesRead(b)
             y == RowsRead(x)
             z == DataRead(t)
             e2 == EntriesRead(b2)
             y2 == RowsRead(x2)
             z2 == DataRead(t2)
             S == Live(n, e, g)
<1>2. Sane(n, e, y, z, m, DOMAIN x, DOMAIN t, g) /\ Typed(n, e, y, m) /\ g # SFS_ROOT_LOCATION
  BY SaneDiskIs DEF SaneImg, Sane
<1>3. S = LiveIn(n, b, g)
  BY DEF LiveIn
<1>4. SFS_ROOT_LOCATION \in S /\ n[SFS_ROOT_LOCATION].type = "dir" /\ \A i \in S : i \in DOMAIN n /\ i \in Blocks
  BY <1>2, LiveFacts, Zenon DEF Typed
<1>5. \A i \in S : i \in DOMAIN n2 /\ n2[i] = n[i]
  <2>1. \A i \in S : i \notin G /\ i # g
    BY <1>3 DEF Outside, Live
  <2>2. QED
    BY <1>4, <2>1 DEF Agree
<1>6. Typed(n2, e2, y2, m2)
  BY <1>4, <1>5, ReadTyped, Zenon DEF Typed, Formed, Tables
<1>7. \A c \in Blocks \ G : e2[c] = e[c] /\ y2[c] = y[c] /\ z2[c] = z[c]
  BY DEF Agree, EntriesRead, RowsRead, DataRead, Reading
<1>8. Keeps(S, n, e, y, z, DOMAIN x, DOMAIN t, n2, e2, y2, z2, DOMAIN x2, DOMAIN t2)
  <2>1. ASSUME NEW i \in S, NEW c, LeadsTo(n, e, y, i, c)
        PROVE  /\ e2[c] = e[c] /\ y2[c] = y[c] /\ z2[c] = z[c]
               /\ c \in DOMAIN x => c \in DOMAIN x2
               /\ c \in DOMAIN t => c \in DOMAIN t2
    <3>1. c \in Blocks
      BY <1>2, <1>4, <2>1, PlaceBlock DEF LeadsTo
    <3>2. c \notin G
      BY <1>3, <2>1 DEF Outside
    <3>3. QED
      BY <1>7, <3>1, <3>2 DEF Agree
  <2>2. \A c \in Blocks, j \in Columns : Gives(e2, c, j) => Gives(e, c, j) /\ e2[c][j] = e[c][j]
    BY <1>7 DEF Gives, Bare
  <2>3. QED
    BY <1>5, <2>1, <2>2 DEF Keeps
<1>9. /\ S = Live(n, e, g) /\ LedIn(S, n, e, y, m2)
      /\ g \in Live(n2, e2, 0) => Sized(n2, e2, y2, z2, g)
  BY DEF LiveIn, LedMarked, LedIn
<1> HIDE DEF e, y, z, e2, y2, z2, S
<1>10. /\ Sane(n2, e2, y2, z2, m2, DOMAIN x2, DOMAIN t2, g) /\ Live(n2, e2, g) = S
       /\ Files(n2, e2, y2, z2, g) = Files(n, e, y, z, g)
       /\ \A i \in S : n[i].type = "dir" => UsedSlots(n2, e2, i) = UsedSlots(n, e, i)
  BY <1>2, <1>6, <1>8, <1>9, FrameSane
<1>11. \A i \in S : \A c : LeadsTo(n2, e2, y2, i, c) <=> LeadsTo(n, e, y, i, c)
  BY <1>2, <1>6, <1>8, <1>9, FrameLeads, Zenon
<1>12. SaneDisk(Img(m2, n2, b2, x2, t2), g)
  BY <1>10, SaneDiskIs DEF Formed, SaneImg, e2, y2, z2
<1>13. /\ LiveIn(n2, b2, g) = LiveIn(n, b, g)
       /\ FilesOf(n2, b2, x2, t2, g) = FilesOf(n, b, x, t, g)
  BY <1>3, <1>10, Zenon DEF LiveIn, FilesOf, e, y, z, e2, y2, z2
<1>14. \A i \in LiveIn(n, b, g) : n[i].type = "dir" =>
          UsedSlots(n2, EntriesRead(b2), i) = UsedSlots(n, EntriesRead(b), i)
  BY <1>3, <1>10, Zenon DEF e, e2
<1>15. \A i \in LiveIn(n, b, g) : \A c :
          LeadsTo(n2, EntriesRead(b2), RowsRead(x2), i, c) <=> LeadsTo(n, EntriesRead(b), RowsRead(x), i, c)
  BY <1>3, <1>11, Zenon DEF e, e2, y, y2
<1>16. QED
  BY <1>12, <1>13, <1>14, <1>15, Zenon

----------------------------------------------------------------------------
\* Between two commands, inside of a directory.

Inside == Rest /\ cwd # SFS_NOINO

\* The image when a command starts.
LEMMA DiskIs ==
    ASSUME Rest
    PROVE  /\ Disk = Img(bitmap, inode, dirBlock, indirect, data)
           /\ SaneDisk(Img(bitmap, inode, dirBlock, indirect, data), 0)
           /\ Tables(inode, dirBlock, indirect) /\ IsFunction(data)
           /\ IsFunction(inode) /\ IsFunction(dirBlock) /\ IsFunction(indirect)
           /\ DOMAIN dirBlock \subseteq bitmap /\ bitmap \subseteq Blocks /\ System \cup DOMAIN inode \subseteq bitmap
           /\ 0 \notin DOMAIN inode
           /\ Typed(inode, EntriesRead(dirBlock), RowsRead(indirect), bitmap)
           /\ SaneImg(inode, dirBlock, indirect, data, bitmap, 0)
<1>1. Disk = Img(bitmap, inode, dirBlock, indirect, data)
  BY DEF Disk, Img
<1>2. SaneDisk(Img(bitmap, inode, dirBlock, indirect, data), 0)
  BY <1>1 DEF Rest
<1>3. /\ Tables(inode, dirBlock, indirect) /\ DOMAIN dirBlock \subseteq bitmap /\ IsFunction(data)
      /\ SaneImg(inode, dirBlock, indirect, data, bitmap, 0)
  BY <1>2, SaneDiskIs
<1>4. Typed(inode, EntriesRead(dirBlock), RowsRead(indirect), bitmap)
  BY <1>3 DEF SaneImg, Sane
<1>5. QED
  BY <1>1, <1>2, <1>3, <1>4, ReadTyped DEF Typed

\* The working directory.
LEMMA Here ==
    ASSUME Inside
    PROVE  /\ cwd \in LiveIn(inode, dirBlock, 0) /\ cwd \in DOMAIN inode /\ cwd \in Blocks /\ cwd # 0
           /\ inode[cwd] \in InodeRecords /\ inode[cwd].type = "dir" /\ inode[cwd].size \in Nat
           /\ \A k \in Rows : inode[cwd].direct[k] \in Blocks
           /\ \A k \in Rows : inode[cwd].direct[k] # 0 =>
                 /\ inode[cwd].direct[k] \in DOMAIN dirBlock
                 /\ EntriesRead(dirBlock)[inode[cwd].direct[k]] = dirBlock[inode[cwd].direct[k]]
           /\ UsedSlots(inode, dirBlock, cwd) = UsedSlots(inode, EntriesRead(dirBlock), cwd)
           /\ Cardinality(UsedSlots(inode, EntriesRead(dirBlock), cwd)) <= inode[cwd].size
<1>1. cwd \in LiveIn(inode, dirBlock, 0) /\ inode[cwd].type = "dir" /\ cwd # 0
  BY DEF Inside, Rest, LiveIn, SFS_NOINO
<1>2. cwd \in DOMAIN inode /\ cwd \in Blocks
  BY <1>1, DiskIs DEF LiveIn, Live, Inside
<1>3. inode[cwd] \in InodeRecords
  BY <1>2, DiskIs DEF Tables, Inside
<1>4. inode[cwd].size \in Nat /\ \A k \in Rows : inode[cwd].direct[k] \in Blocks
  BY <1>3, Zenon DEF InodeRecords, Rows
<1>5. \A k \in Rows : inode[cwd].direct[k] # 0 => inode[cwd].direct[k] \in DOMAIN dirBlock
  BY <1>1 DEF Inside, Rest, DirsWritten, LiveIn
<1>6. \A k \in Rows : inode[cwd].direct[k] # 0 =>
          EntriesRead(dirBlock)[inode[cwd].direct[k]] = dirBlock[inode[cwd].direct[k]]
  BY <1>4, <1>5, ReadWritten
<1>7. UsedSlots(inode, dirBlock, cwd) = UsedSlots(inode, EntriesRead(dirBlock), cwd)
  <2>1. SameDir(inode, EntriesRead(dirBlock), inode, dirBlock, cwd)
    BY <1>6 DEF SameDir
  <2>2. QED
    BY <2>1, SameDirIs
<1>8. Cardinality(UsedSlots(inode, EntriesRead(dirBlock), cwd)) <= inode[cwd].size
  <2>1. AllSized(inode, EntriesRead(dirBlock), RowsRead(indirect), DataRead(data))
    BY DiskIs DEF SaneImg, Sane, Inside
  <2>2. QED
    BY <1>1, <2>1 DEF AllSized, Sized, LiveIn
<1>9. QED
  BY <1>1, <1>2, <1>3, <1>4, <1>5, <1>6, <1>7, <1>8

\* A map with more blocks marked.
LEMMA WiderMap ==
    ASSUME NEW m, NEW n, NEW b, NEW x, NEW t, NEW g, SaneDisk(Img(m, n, b, x, t), g),
           NEW m2 \in SUBSET Blocks, m \subseteq m2
    PROVE  SaneDisk(Img(m2, n, b, x, t), g)
<1>1. Tables(n, b, x) /\ DOMAIN b \subseteq m /\ IsFunction(t) /\ SaneImg(n, b, x, t, m, g)
  BY SaneDiskIs
<1>2. /\ Typed(n, EntriesRead(b), RowsRead(x), m)
      /\ TargetsMarked(n, EntriesRead(b), RowsRead(x), m, g)
      /\ AllSized(n, EntriesRead(b), RowsRead(x), DataRead(t))
  BY <1>1 DEF SaneImg, Sane
<1>3. Formed(m2, n, b, x, t)
  BY <1>1, <1>2 DEF Formed, Typed
<1>4. Outside(n, b, x, g, {}) /\ \A f : Agree(f, f, {}) /\ Agree(f, f, {} \cup {g})
  BY DEF Outside, Agree
<1>5. LedMarked(n, b, x, g, m2)
  <2>1. ASSUME NEW i \in LiveIn(n, b, g), NEW c, LeadsTo(n, EntriesRead(b), RowsRead(x), i, c)
        PROVE  c \in m
    BY <1>2, <2>1, MarkedTarget DEF LiveIn
  <2>2. QED
    BY <1>3, <2>1 DEF LedMarked
<1>6. g \in LiveIn(n, b, 0) => Sized(n, EntriesRead(b), RowsRead(x), DataRead(t), g)
  BY <1>2 DEF AllSized, LiveIn
<1>7. Bare(b, {})
  BY DEF Bare
<1>8. QED
  BY <1>3, <1>4, <1>5, <1>6, <1>7, OutsideSane

----------------------------------------------------------------------------
\* The inode and the block of the working directory that a new name changes.

\* f2 is f with another value at c.
SameBut(f, f2, c) ==
    /\ c \in DOMAIN f /\ DOMAIN f2 = DOMAIN f /\ IsFunction(f2)
    /\ \A q \in DOMAIN f : q # c => f2[q] = f[q]

LEMMA SameWhole ==
    ASSUME NEW f, NEW f2, NEW c, SameBut(f, f2, c)
    PROVE  Put(f, c, f2[c]) = f2
<1>1. DOMAIN f \cup {c} = DOMAIN f2 /\ f2 = [q \in DOMAIN f2 |-> f2[q]]
  BY DEF SameBut, IsFunction
<1>2. \A q \in DOMAIN f2 : f2[q] = IF q = c THEN f2[c] ELSE f[q]
  BY DEF SameBut
<1>3. QED
  BY <1>1, <1>2, Zenon DEF Put

LEMMA EnteredInodes ==
    ASSUME Inside, ~DirectoryFull, NEW c \in Blocks, NEW n1, n1 = InodesEntered(c), NEW h, h = Min(Holes)
    PROVE  /\ Altered(inode, n1, cwd) /\ n1[cwd].size = inode[cwd].size + 1
           /\ ~NeedsBlock => n1[cwd].direct = inode[cwd].direct
           /\ NeedsBlock => /\ h \in Rows /\ inode[cwd].direct[h] = 0
                            /\ \A l \in Rows : n1[cwd].direct[l] = IF l = h THEN c ELSE inode[cwd].direct[l]
           /\ IsFunction(n1) /\ Put(inode, cwd, n1[cwd]) = n1
<1>1. /\ inode \in [DOMAIN inode -> InodeRecords] /\ cwd \in DOMAIN inode
      /\ inode[cwd].size \in Nat /\ inode[cwd] \in InodeRecords
  BY Here, DiskIs DEF Tables, Inside
<1>2. ASSUME ~NeedsBlock
      PROVE  Altered(inode, n1, cwd) /\ n1[cwd].size = inode[cwd].size + 1 /\ n1[cwd].direct = inode[cwd].direct
  <2>1. n1 = Resized(inode, cwd, inode[cwd].size + 1)
    BY <1>2 DEF InodesEntered, Resized
  <2>2. QED
    BY <1>1, <2>1, ResizedAt DEF Altered
<1>3. ASSUME NeedsBlock
      PROVE  /\ Altered(inode, n1, cwd) /\ n1[cwd].size = inode[cwd].size + 1
             /\ h \in Rows /\ inode[cwd].direct[h] = 0
             /\ \A l \in Rows : n1[cwd].direct[l] = IF l = h THEN c ELSE inode[cwd].direct[l]
  <2>1. h \in Rows /\ inode[cwd].direct[h] = 0
    <3>1. Holes \in SUBSET Nat /\ Holes # {}
      BY <1>3, SfsAssumption DEF Holes, DirectoryFull
    <3>2. QED
      BY <3>1, MinOf DEF Holes, Rows
  <2>2. DEFINE r == inode[cwd]
               q == [r.direct EXCEPT ![h] = c]
               r1 == [r EXCEPT !.direct = q]
               r2 == [r EXCEPT !.size = r.size + 1, !.direct = q]
  <2>3. n1 = [inode EXCEPT ![cwd] = r2]
    BY <1>3, Zenon DEF InodesEntered
  <2>4. r \in InodeRecords /\ r.direct \in [Rows -> Blocks]
    BY <1>1 DEF InodeRecords, Rows
  <2>5. q \in [Rows -> Blocks] /\ \A l \in Rows : q[l] = IF l = h THEN c ELSE r.direct[l]
    BY <2>1, <2>4
  <2> HIDE DEF q, r
  <2>6. /\ r2 \in InodeRecords /\ r2.type = r.type /\ r2.size = r.size + 1 /\ r2.indirect = r.indirect
        /\ r2.direct = q
    <3>1. /\ r1 \in InodeRecords /\ r1.type = r.type /\ r1.size = r.size /\ r1.indirect = r.indirect
          /\ r1.direct = q
      BY <2>4, <2>5 DEF InodeRecords, Rows
    <3>2. r2 = [r1 EXCEPT !.size = r.size + 1]
      BY <2>4, Zenon DEF InodeRecords
    <3> HIDE DEF r1, r2
    <3>3. r.size + 1 \in Nat
      BY <2>4 DEF InodeRecords
    <3>4. QED
      BY <3>1, <3>2, <3>3 DEF InodeRecords
  <2> HIDE DEF r1, r2
  <2>7. /\ n1 \in [DOMAIN inode -> InodeRecords] /\ DOMAIN n1 = DOMAIN inode
        /\ \A i \in DOMAIN inode : i # cwd => n1[i] = inode[i]
        /\ n1[cwd] = r2
    BY <1>1, <2>3, <2>6
  <2>8. QED
    BY <2>1, <2>5, <2>6, <2>7 DEF Altered, r
<1>4. Altered(inode, n1, cwd)
  BY <1>2, <1>3
<1>5. IsFunction(n1)
  BY <1>4 DEF Altered, IsFunction
<1>6. Put(inode, cwd, n1[cwd]) = n1
  <2>1. SameBut(inode, n1, cwd)
    BY <1>1, <1>4, <1>5, Zenon DEF Altered, SameBut
  <2>2. QED
    BY <2>1, SameWhole, Zenon
<1>7. QED
  BY <1>2, <1>3, <1>4, <1>5, <1>6

\* The slot that a new name takes: row k of the directory, its block q, column j.
NewSlot(c, k, q, j) ==
    /\ k \in Rows /\ j \in Columns /\ q \in Blocks /\ q # 0
    /\ NeedsBlock => k = Min(Holes) /\ q = c /\ j = 1
    /\ ~NeedsBlock => q = inode[cwd].direct[k] /\ q \in DOMAIN dirBlock /\ dirBlock[q][j].sfd_ino = 0

NameEntered(c, E, b1, k, q, j) ==
    /\ NewSlot(c, k, q, j)
    /\ EntrySet(EntriesRead(dirBlock), EntriesRead(b1), q, j, E)
    /\ IsFunction(b1) /\ b1 \in [DOMAIN b1 -> [Columns -> EntryRecords]]
    /\ DOMAIN b1 = DOMAIN dirBlock \cup {q} /\ Put(dirBlock, q, b1[q]) = b1
    /\ b1[q][j] = E

LEMMA EnteredBlocks ==
    ASSUME Inside, ~DirectoryFull, NEW c, NeedsBlock => c \in Blocks \ bitmap,
           NEW E \in EntryRecords, NEW b1, b1 = DirBlocksEntered(E, c)
    PROVE  \E k, q, j : NameEntered(c, E, b1, k, q, j)
<1>1. /\ Tables(inode, dirBlock, indirect) /\ dirBlock \in [DOMAIN dirBlock -> [Columns -> EntryRecords]]
      /\ IsFunction(dirBlock) /\ DOMAIN dirBlock \subseteq bitmap /\ System \subseteq bitmap
  BY DiskIs DEF Tables, Inside
<1>2. CASE NeedsBlock
  <2>1. c \in Blocks /\ c \notin DOMAIN dirBlock /\ c # 0
    BY <1>1, <1>2, VolumeFacts
  <2>2. Min(Holes) \in Rows /\ 1 \in Columns
    BY <1>2, <2>1, EnteredInodes, SfsAssumption DEF Columns
  <2>3. b1 = Put(dirBlock, c, NewDirBlock(<<E>>))
    BY <1>2 DEF DirBlocksEntered
  <2>4. NewSlot(c, Min(Holes), c, 1)
    BY <1>2, <2>1, <2>2 DEF NewSlot
  <2>5. EntrySet(EntriesRead(dirBlock), EntriesRead(b1), c, 1, E)
    BY <1>1, <2>1, <2>3, ReadEntryNew
  <2>6. DOMAIN b1 = DOMAIN dirBlock \cup {c} /\ IsFunction(b1) /\ b1[c] = NewDirBlock(<<E>>)
    BY <2>3 DEF Put, IsFunction
  <2>7. b1[c] = EntriesRead(b1)[c]
    BY <2>1, <2>6, ReadWritten
  <2>8. b1[c] \in [Columns -> EntryRecords] /\ b1[c][1] = E
    BY <2>1, <2>2, <2>5, <2>7 DEF EntrySet, EntriesRead, Reading
  <2>9. b1 \in [DOMAIN b1 -> [Columns -> EntryRecords]]
    <3>1. \A f \in DOMAIN dirBlock : f # c => b1[f] = dirBlock[f]
      BY <2>3 DEF Put
    <3>2. QED
      BY <1>1, <2>6, <2>8, <3>1 DEF IsFunction
  <2>10. Put(dirBlock, c, b1[c]) = b1
    BY <2>3, <2>6
  <2>11. QED
    BY <2>4, <2>5, <2>6, <2>8, <2>9, <2>10 DEF NameEntered
<1>3. CASE ~NeedsBlock
  <2>1. DEFINE s == FirstOf(FreeSlots(cwd))
               k == s[1]
               j == s[2]
               q == inode[cwd].direct[k]
  <2>2. s \in FreeSlots(cwd)
    <3>1. FreeSlots(cwd) \in SUBSET (Rows \X Columns) /\ FreeSlots(cwd) # {}
      BY <1>3 DEF FreeSlots, Slots, NeedsBlock, Rows, Columns
    <3>2. QED
      BY <3>1, FirstSlot
  <2>3. k \in Rows /\ j \in Columns /\ q # 0 /\ dirBlock[q][j].sfd_ino = 0
    BY <2>2, Zenon DEF FreeSlots, Slots, At, SFS_NOINO, Rows, Columns
  <2>4. b1 = EntryPut(dirBlock, q, j, E)
    BY <1>3 DEF DirBlocksEntered, EntryPut
  <2> HIDE DEF s, k, j
  <2>5. q \in Blocks /\ q \in DOMAIN dirBlock
    BY <2>3, Here
  <2>6. NewSlot(c, k, q, j)
    BY <1>3, <2>3, <2>5 DEF NewSlot
  <2> HIDE DEF q
  <2>7. EntrySet(dirBlock, b1, q, j, E)
    BY <1>1, <2>3, <2>4, <2>5, EntryPutAt
  <2>8. EntrySet(EntriesRead(dirBlock), EntriesRead(b1), q, j, E)
    BY <1>1, <2>3, <2>5, <2>7, ReadEntrySet
  <2>9. /\ DOMAIN b1 = DOMAIN dirBlock \cup {q} /\ IsFunction(b1) /\ b1[q][j] = E
        /\ b1 \in [DOMAIN b1 -> [Columns -> EntryRecords]]
        /\ DOMAIN b1 = DOMAIN dirBlock /\ \A f \in DOMAIN dirBlock : f # q => b1[f] = dirBlock[f]
    BY <2>3, <2>5, <2>7, Zenon DEF EntrySet, IsFunction
  <2>10. Put(dirBlock, q, b1[q]) = b1
    <3>1. \A f \in DOMAIN b1 : b1[f] = IF f = q THEN b1[q] ELSE dirBlock[f]
      BY <2>9
    <3>2. QED
      BY <2>9, <3>1 DEF Put, IsFunction
  <2>11. QED
    BY <2>6, <2>8, <2>9, <2>10 DEF NameEntered
<1>4. QED
  BY <1>2, <1>3

----------------------------------------------------------------------------
\* Entering a name: the map, the inode of the directory, its block.

LEMMA EnteredInodeSane ==
    ASSUME Inside, ~DirectoryFull, NEW c \in Blocks \ bitmap, NEW n1, n1 = InodesEntered(c),
           NEW m, m = GrownMap(c)
    PROVE  /\ SaneDisk(Img(m, n1, dirBlock, indirect, data), 0)
           /\ \A h : LiveIn(n1, dirBlock, h) = LiveIn(inode, dirBlock, h)
           /\ \A h : FilesOf(n1, dirBlock, indirect, data, h) = FilesOf(inode, dirBlock, indirect, data, h)
           /\ Cardinality(UsedSlots(n1, EntriesRead(dirBlock), cwd)) + 1 <= n1[cwd].size
<1>1. /\ Altered(inode, n1, cwd) /\ n1[cwd].size = inode[cwd].size + 1
      /\ ~NeedsBlock => n1[cwd].direct = inode[cwd].direct
      /\ NeedsBlock => /\ Min(Holes) \in Rows /\ inode[cwd].direct[Min(Holes)] = 0
                       /\ \A l \in Rows : n1[cwd].direct[l] = IF l = Min(Holes) THEN c ELSE inode[cwd].direct[l]
  BY EnteredInodes
<1>2. DEFINE e == EntriesRead(dirBlock)
             y == RowsRead(indirect)
             z == DataRead(data)
             X == DOMAIN indirect
             T == DOMAIN data
<1>3. /\ Sane(inode, e, y, z, bitmap, X, T, 0) /\ Typed(inode, e, y, bitmap)
      /\ Tables(inode, dirBlock, indirect) /\ IsFunction(data) /\ DOMAIN dirBlock \subseteq bitmap
      /\ bitmap \subseteq Blocks /\ System \cup DOMAIN inode \subseteq bitmap
  BY DiskIs DEF SaneImg, Inside
<1>4. /\ cwd \in Live(inode, e, 0) /\ inode[cwd].type = "dir" /\ inode[cwd].size \in Nat
      /\ Cardinality(UsedSlots(inode, e, cwd)) <= inode[cwd].size
      /\ Cardinality(UsedSlots(inode, e, cwd)) \in Nat
  BY Here, UsedFinite DEF LiveIn
<1>5. Tables(n1, dirBlock, indirect)
  BY <1>1, <1>3 DEF Tables, Altered
<1>6. CASE ~NeedsBlock
  <2>1. m = bitmap
    BY <1>6 DEF GrownMap
  <2>2. n1[cwd].direct = inode[cwd].direct /\ Cardinality(UsedSlots(inode, e, cwd)) <= n1[cwd].size
    BY <1>1, <1>4, <1>6
  <2>3. UsedSlots(n1, e, cwd) = UsedSlots(inode, e, cwd)
    <3>1. SameDir(inode, e, n1, e, cwd)
      BY <2>2, Zenon DEF SameDir
    <3>2. QED
      BY <3>1, SameDirIs
  <2> HIDE DEF e, y, z, X, T
  <2>4. /\ Sane(n1, e, y, z, bitmap, X, T, 0)
        /\ \A h : Live(n1, e, h) = Live(inode, e, h)
        /\ \A h : Files(n1, e, y, z, h) = Files(inode, e, y, z, h)
    BY <1>1, <1>3, <1>4, <2>2, ResizeSane
  <2>5. SaneDisk(Img(m, n1, dirBlock, indirect, data), 0)
    BY <1>3, <1>5, <2>1, <2>4, SaneDiskIs DEF SaneImg, e, y, z, X, T
  <2>6. QED
    BY <1>1, <1>4, <2>3, <2>4, <2>5 DEF LiveIn, FilesOf, e, y, z
<1>7. CASE NeedsBlock
  <2>1. m = bitmap \cup {c}
    BY <1>7 DEF GrownMap
  <2>2. SaneDisk(Img(m, inode, dirBlock, indirect, data), 0)
    BY <1>3, <2>1, WiderMap, DiskIs DEF Inside
  <2>3. Sane(inode, e, y, z, m, X, T, 0)
    BY <2>2, SaneDiskIs DEF SaneImg
  <2>4. c \in m \ (System \cup {SFS_ROOT_LOCATION})
    BY <1>3, <2>1 DEF Typed
  <2>5. \A j \in Columns : e[c][j].sfd_ino = 0
    BY <1>3, ReadUnwritten
  <2>6. \A i \in Live(inode, e, 0) : ~LeadsTo(inode, e, y, i, c)
    <3>1. TargetsMarked(inode, e, y, bitmap, 0)
      BY <1>3 DEF Sane
    <3>2. QED
      BY <3>1, MarkedTarget
  <2>7. /\ Min(Holes) \in Rows /\ inode[cwd].direct[Min(Holes)] = 0 /\ inode[cwd].size <= n1[cwd].size
        /\ \A l \in Rows : n1[cwd].direct[l] = IF l = Min(Holes) THEN c ELSE inode[cwd].direct[l]
    BY <1>1, <1>4, <1>7
  <2> HIDE DEF e, y, z, X, T
  <2>8. /\ Sane(n1, e, y, z, m, X, T, 0)
        /\ \A h : Live(n1, e, h) = Live(inode, e, h)
        /\ \A h : Files(n1, e, y, z, h) = Files(inode, e, y, z, h)
        /\ UsedSlots(n1, e, cwd) = UsedSlots(inode, e, cwd)
    BY <1>1, <1>4, <2>3, <2>4, <2>5, <2>6, <2>7, GrowSane
  <2>9. SaneDisk(Img(m, n1, dirBlock, indirect, data), 0)
    BY <1>3, <1>5, <2>1, <2>8, SaneDiskIs DEF SaneImg, e, y, z, X, T
  <2>10. QED
    BY <1>1, <1>4, <2>8, <2>9 DEF LiveIn, FilesOf, e, y, z
<1>8. QED
  BY <1>6, <1>7

\* The disk with the name in the directory: inode f has not been written.
Entered(c, f, path, n1, b1) ==
    /\ c \in Blocks \ bitmap /\ f \in Blocks \ bitmap /\ (NeedsBlock => c # f)
    /\ path \in Names /\ ~DirectoryFull
    /\ n1 = InodesEntered(c) /\ b1 = DirBlocksEntered(Entry(f, path), c)

LEMMA EnteredNameSane ==
    ASSUME Inside, NEW c, NEW f, NEW path, NEW n1, NEW b1, Entered(c, f, path, n1, b1),
           NEW m, m = GrownMap(c) \cup {f}
    PROVE  /\ SaneDisk(Img(m, n1, b1, indirect, data), f)
           /\ \A h : LiveIn(n1, b1, h) = LiveIn(inode, dirBlock, h)
           /\ \A h : FilesOf(n1, b1, indirect, data, h) = FilesOf(inode, dirBlock, indirect, data, h)
           /\ LiveIn(n1, b1, f) = LiveIn(inode, dirBlock, 0)
           /\ Given(EntriesRead(b1), f) /\ f \notin DOMAIN n1 /\ DOMAIN n1 = DOMAIN inode
           /\ Holds(n1, EntriesRead(b1), cwd, f)
<1>1. /\ c \in Blocks \ bitmap /\ f \in Blocks \ bitmap /\ (NeedsBlock => c # f)
      /\ path \in Names /\ ~DirectoryFull
      /\ n1 = InodesEntered(c) /\ b1 = DirBlocksEntered(Entry(f, path), c)
  BY DEF Entered
<1>2. DEFINE e == EntriesRead(dirBlock)
             e1 == EntriesRead(b1)
             y == RowsRead(indirect)
             z == DataRead(data)
             X == DOMAIN indirect
             T == DOMAIN data
             m0 == GrownMap(c)
<1>3. /\ bitmap \subseteq m0 /\ m0 \subseteq Blocks /\ f \notin m0 /\ m \subseteq Blocks /\ m0 \subseteq m
      /\ IsFunction(data) /\ DOMAIN dirBlock \subseteq bitmap /\ System \cup DOMAIN inode \subseteq bitmap
      /\ SFS_ROOT_LOCATION \in bitmap /\ cwd # f /\ Tables(inode, dirBlock, indirect)
  <2>1. bitmap \subseteq Blocks /\ System \cup DOMAIN inode \subseteq bitmap /\ cwd \in DOMAIN inode
        /\ IsFunction(data) /\ DOMAIN dirBlock \subseteq bitmap /\ SFS_ROOT_LOCATION \in DOMAIN inode
        /\ Tables(inode, dirBlock, indirect)
    BY DiskIs, Here DEF Inside, Typed
  <2>2. QED
    BY <1>1, <2>1 DEF GrownMap
<1>4. /\ SaneDisk(Img(m0, n1, dirBlock, indirect, data), 0)
      /\ \A h : LiveIn(n1, dirBlock, h) = LiveIn(inode, dirBlock, h)
      /\ \A h : FilesOf(n1, dirBlock, indirect, data, h) = FilesOf(inode, dirBlock, indirect, data, h)
      /\ Cardinality(UsedSlots(n1, e, cwd)) + 1 <= n1[cwd].size
  BY <1>1, EnteredInodeSane
<1>5. Sane(n1, e, y, z, m, X, T, 0)
  <2>1. SaneDisk(Img(m, n1, dirBlock, indirect, data), 0)
    BY <1>3, <1>4, WiderMap
  <2>2. QED
    BY <2>1, SaneDiskIs DEF SaneImg
<1>6. \A i \in Live(n1, e, 0) : ~LeadsTo(n1, e, y, i, f)
  <2>1. TargetsMarked(n1, e, y, m0, 0)
    BY <1>4, SaneDiskIs DEF SaneImg, Sane
  <2> HIDE DEF m0
  <2>2. QED
    BY <1>3, <2>1, MarkedTarget
<1>7. Altered(inode, n1, cwd) /\ DOMAIN n1 = DOMAIN inode
  BY <1>1, EnteredInodes DEF Altered
<1>8. f \in m \ (System \cup {SFS_ROOT_LOCATION}) /\ f \notin DOMAIN n1
  BY <1>1, <1>3, <1>7
<1>9. Entry(f, path) \in EntryRecords
  BY <1>1, Zenon DEF Entry, EntryRecords, Paths
<1>10. PICK k, q, j : NameEntered(c, Entry(f, path), b1, k, q, j)
  BY <1>1, <1>9, EnteredBlocks
<1>11. /\ NewSlot(c, k, q, j)
       /\ EntrySet(e, e1, q, j, Entry(f, path))
       /\ b1 \in [DOMAIN b1 -> [Columns -> EntryRecords]]
       /\ DOMAIN b1 = DOMAIN dirBlock \cup {q}
  BY <1>10 DEF NameEntered
<1>12. k \in Rows /\ j \in Columns /\ q # 0 /\ q = n1[cwd].direct[k] /\ e[q][j].sfd_ino = 0 /\ q \in m
  <2>1. CASE NeedsBlock
    <3>1. k = Min(Holes) /\ q = c /\ k \in Rows /\ j \in Columns /\ q # 0
      BY <1>11, <2>1 DEF NewSlot
    <3>2. e[q][j].sfd_ino = 0
      BY <1>1, <1>3, <3>1, ReadUnwritten
    <3>3. n1[cwd].direct[k] = c
      BY <1>1, <2>1, <3>1, EnteredInodes
    <3>4. c \in m
      BY <2>1 DEF GrownMap
    <3>5. QED
      BY <3>1, <3>2, <3>3, <3>4
  <2>2. CASE ~NeedsBlock
    <3>1. k \in Rows /\ j \in Columns /\ q # 0 /\ q = inode[cwd].direct[k] /\ q \in DOMAIN dirBlock
          /\ dirBlock[q][j].sfd_ino = 0 /\ q \in Blocks
      BY <1>11, <2>2 DEF NewSlot
    <3>2. e[q][j].sfd_ino = 0
      BY <3>1, ReadWritten
    <3>3. n1[cwd].direct[k] = q
      BY <1>1, <2>2, <3>1, EnteredInodes
    <3>4. QED
      BY <1>3, <3>1, <3>2, <3>3
  <2>3. QED
    BY <2>1, <2>2
<1>13. cwd \in Live(n1, e, 0) /\ n1[cwd].type = "dir"
  BY <1>4, <1>7, Here DEF LiveIn, Altered
<1>14. Tables(n1, b1, indirect)
  BY <1>3, <1>7, <1>11 DEF Tables, Altered
<1>15. DOMAIN b1 \subseteq m
  BY <1>3, <1>11, <1>12
<1>16. e1[q][j] = Entry(f, path)
  BY <1>11, <1>12 DEF EntrySet, NewSlot, EntriesRead, Reading
<1>17. Holds(n1, e1, cwd, f)
  <2>1. Entry(f, path).sfd_ino = f /\ Entry(f, path).sfd_name = path /\ f # 0 /\ path \notin Dots
    BY <1>1, <1>3, VolumeFacts, SfsAssumption DEF Entry, Dots
  <2>2. Gives(e1, q, j) /\ e1[q][j].sfd_ino = f
    BY <1>16, <2>1 DEF Gives
  <2>3. QED
    BY <1>12, <2>2 DEF Holds
<1> HIDE DEF e, e1, y, z, X, T
<1>18. /\ Sane(n1, e1, y, z, m, X, T, f)
       /\ \A h : Live(n1, e1, h) = Live(n1, e, h)
       /\ \A h : Files(n1, e1, y, z, h) = Files(n1, e, y, z, h)
       /\ Live(n1, e1, f) = Live(n1, e, 0)
       /\ Given(e1, f)
  <2>1. Cardinality(UsedSlots(n1, e, cwd)) + 1 <= n1[cwd].size
    BY <1>4 DEF e
  <2>2. path \in Names
    BY <1>1
  <2>3. EntrySet(e, e1, q, j, Entry(f, path))
    BY <1>11
  <2>4. QED
    BY <1>5, <1>6, <1>8, <1>12, <1>13, <2>1, <2>2, <2>3, EnterSane
<1>19. SaneDisk(Img(m, n1, b1, indirect, data), f)
  BY <1>3, <1>14, <1>15, <1>18, SaneDiskIs DEF SaneImg, e1, y, z, X, T
<1>20. QED
  BY <1>4, <1>7, <1>8, <1>17, <1>18, <1>19 DEF LiveIn, FilesOf, e, e1, y, z

----------------------------------------------------------------------------
\* The writes that enter a name.

LEMMA TrailTwo ==
    ASSUME NEW D, NEW v, NEW D2, D2 = Written(D, v), NEW w, NEW E, E = Written(D2, w), NEW F, NEW f,
           Fine(D, F, f), Fine(D2, F, f), Fine(E, F, f)
    PROVE  Trail(D, <<v, w>>, E, F, f)
<1>1. <<v, w>> \in Seq({v, w}) /\ Len(<<v, w>>) = 2 /\ <<v, w>>[1] = v /\ <<v, w>>[2] = w
  OBVIOUS
<1>2. DEFINE im == [j \in {0, 1, 2} |-> IF j = 0 THEN D ELSE IF j = 1 THEN D2 ELSE E]
<1>3. im[0] = D /\ im[1] = D2 /\ im[2] = E
  OBVIOUS
<1>4. IsTrail(im, D, <<v, w>>, E, F, f)
  <2>1. \A j \in 1 .. 2 : (j = 1 /\ j - 1 = 0) \/ (j = 2 /\ j - 1 = 1)
    OBVIOUS
  <2>2. \A j \in 0 .. 2 : j = 0 \/ j = 1 \/ j = 2
    OBVIOUS
  <2> HIDE DEF im
  <2>3. QED
    BY <1>1, <1>3, <2>1, <2>2 DEF IsTrail
<1>5. QED
  BY <1>1, <1>4, Zenon DEF Trail

\* The writes of a map that only grows.
LEMMA GrowMapTrail ==
    ASSUME NEW m, NEW n, NEW b, NEW x, NEW t, NEW g, SaneDisk(Img(m, n, b, x, t), g),
           NEW m2 \in SUBSET Blocks, m \subseteq m2, NEW F, NEW f,
           \A r \in SUBSET Blocks : m \subseteq r /\ r \subseteq m2 => Fine(Img(r, n, b, x, t), F, f)
    PROVE  Trail(Img(m, n, b, x, t), MapWrites(m2), Img(m2, n, b, x, t), F, f)
<1>1. IsFunction(n) /\ IsFunction(b) /\ IsFunction(x) /\ IsFunction(t)
  BY SaneDiskIs, ReadTyped
<1>2. m \in SUBSET Blocks
  OBVIOUS
<1>3. \A k \in 0 .. SFS_BITBLOCKS : ImgAt(m, n, b, x, t, m2, k) = Img(MapAt(m, m2, k), n, b, x, t)
  <2>1. \A k \in 0 .. SFS_BITBLOCKS : ClearedAt(m, m2, k) = {}
    BY DEF ClearedAt
  <2>2. Forget(n, {}) = n /\ Forget(b, {}) = b /\ Forget(x, {}) = x /\ Forget(t, {}) = t
    BY <1>1, ForgetNone
  <2>3. QED
    BY <2>1, <2>2 DEF ImgAt
<1>4. ASSUME NEW k \in 0 .. SFS_BITBLOCKS
      PROVE  Fine(ImgAt(m, n, b, x, t, m2, k), F, f)
  <2>1. \A q \in m : q \div SFS_BLOCKBITS \in Nat
    BY <1>2, MapBlock
  <2>2. m \subseteq MapAt(m, m2, k) /\ MapAt(m, m2, k) \subseteq m2
    BY <2>1, MapBlock DEF MapAt
  <2>3. QED
    BY <1>3, <2>2
<1>5. MapAt(m, m2, SFS_BITBLOCKS) = m2 /\ SFS_BITBLOCKS \in 0 .. SFS_BITBLOCKS
  <2>1. MapAt(m, m2, SFS_BITBLOCKS) = m2
    BY <1>1, <1>2, MapEnds
  <2>2. QED
    BY <2>1, MapBlock
<1>6. Trail(Img(m, n, b, x, t), MapWrites(m2), ImgAt(m, n, b, x, t, m2, SFS_BITBLOCKS), F, f)
  BY <1>1, <1>2, <1>4, MapTrail
<1>7. QED
  BY <1>3, <1>5, <1>6

LEMMA CreatedIs ==
    ASSUME NEW f, f \notin DOMAIN inode, DOMAIN inode' = DOMAIN inode \cup {f}
    PROVE  Created = f
BY DEF Created

LEMMA ChangedIs ==
    ASSUME NEW q, q \in Range(inode'[cwd].direct), q # 0, q \in DOMAIN dirBlock => dirBlock'[q] # dirBlock[q],
           \A p \in Range(inode'[cwd].direct) :
               p # 0 /\ p # q => p \in DOMAIN dirBlock /\ dirBlock'[p] = dirBlock[p]
    PROVE  Changed = q
BY DEF Changed

\* What the command leaves of the inode and the blocks of the working directory.
LeavesHere(n1, b1) == inode'[cwd] = n1[cwd] /\ \A p \in DOMAIN b1 : dirBlock'[p] = b1[p]

LEMMA EnterChanges ==
    ASSUME Inside, NEW c, NEW f, NEW path, NEW n1, NEW b1, Entered(c, f, path, n1, b1),
           NEW k, NEW q, NEW j, NameEntered(c, Entry(f, path), b1, k, q, j), LeavesHere(n1, b1)
    PROVE  Changed = q
<1>1. /\ c \in Blocks \ bitmap /\ f \in Blocks \ bitmap /\ ~DirectoryFull /\ n1 = InodesEntered(c)
      /\ inode'[cwd] = n1[cwd] /\ \A p \in DOMAIN b1 : dirBlock'[p] = b1[p]
  BY DEF Entered, LeavesHere
<1>2. /\ NewSlot(c, k, q, j) /\ DOMAIN b1 = DOMAIN dirBlock \cup {q}
      /\ Put(dirBlock, q, b1[q]) = b1 /\ b1[q][j] = Entry(f, path)
  BY DEF NameEntered
<1>3. k \in Rows /\ q # 0
  BY <1>2 DEF NewSlot
<1>4. /\ System \subseteq bitmap /\ DOMAIN dirBlock \subseteq bitmap /\ cwd \in DOMAIN inode
      /\ Tables(inode, dirBlock, indirect)
  BY DiskIs, Here DEF Inside
<1>5. Altered(inode, n1, cwd)
  BY <1>1, EnteredInodes
<1>6. n1[cwd].direct \in [Rows -> Blocks]
  BY <1>4, <1>5 DEF Altered, InodeRecords, Rows
<1>7. ASSUME NEW l \in Rows, n1[cwd].direct[l] # q
      PROVE  n1[cwd].direct[l] = inode[cwd].direct[l]
  <2>1. CASE NeedsBlock
    <3>1. \A i \in Rows : n1[cwd].direct[i] = IF i = Min(Holes) THEN c ELSE inode[cwd].direct[i]
      BY <1>1, <2>1, EnteredInodes
    <3>2. q = c
      BY <1>2, <2>1 DEF NewSlot
    <3>3. QED
      BY <1>7, <3>1, <3>2
  <2>2. CASE ~NeedsBlock
    BY <1>1, <2>2, EnteredInodes
  <2>3. QED
    BY <2>1, <2>2
<1>8. n1[cwd].direct[k] = q
  <2>1. CASE NeedsBlock
    <3>1. \A i \in Rows : n1[cwd].direct[i] = IF i = Min(Holes) THEN c ELSE inode[cwd].direct[i]
      BY <1>1, <2>1, EnteredInodes
    <3>2. q = c /\ k = Min(Holes)
      BY <1>2, <2>1 DEF NewSlot
    <3>3. QED
      BY <1>3, <3>1, <3>2
  <2>2. CASE ~NeedsBlock
    <3>1. q = inode[cwd].direct[k]
      BY <1>2, <2>2 DEF NewSlot
    <3>2. QED
      BY <1>1, <2>2, <3>1, EnteredInodes
  <2>3. QED
    BY <2>1, <2>2
<1>9. q \in Range(inode'[cwd].direct)
  BY <1>1, <1>3, <1>6, <1>8 DEF Range
<1>10. q \in DOMAIN dirBlock => dirBlock'[q] # dirBlock[q]
  <2>1. ASSUME q \in DOMAIN dirBlock
        PROVE  dirBlock[q][j].sfd_ino = 0
    <3>1. ~NeedsBlock
      BY <1>1, <1>2, <1>4, <2>1 DEF NewSlot
    <3>2. QED
      BY <1>2, <3>1 DEF NewSlot
  <2>2. b1[q][j].sfd_ino = f /\ f # 0
    BY <1>1, <1>2, <1>4, VolumeFacts DEF Entry
  <2>3. dirBlock'[q] = b1[q]
    BY <1>1, <1>2
  <2>4. QED
    BY <2>1, <2>2, <2>3
<1>11. ASSUME NEW p \in Range(inode'[cwd].direct), p # 0, p # q
       PROVE  p \in DOMAIN dirBlock /\ dirBlock'[p] = dirBlock[p]
  <2>1. PICK l \in Rows : p = n1[cwd].direct[l]
    BY <1>1, <1>6 DEF Range
  <2>2. p = inode[cwd].direct[l]
    BY <1>7, <1>11, <2>1
  <2>3. p \in DOMAIN dirBlock
    BY <1>11, <2>2, Here
  <2>4. Put(dirBlock, q, b1[q])[p] = dirBlock[p]
    BY <1>11, <2>3 DEF Put
  <2>5. QED
    BY <1>1, <1>2, <2>3, <2>4
<1>12. QED
  BY <1>3, <1>9, <1>10, <1>11, ChangedIs

LEMMA EnterTrail ==
    ASSUME Inside, NEW c, NEW f, NEW path, NEW n1, NEW b1, Entered(c, f, path, n1, b1), LeavesHere(n1, b1),
           NEW m \in SUBSET Blocks, GrownMap(c) \cup {f} \subseteq m, NEW F, Leaves(F, f, f)
    PROVE  Trail(Disk, Entering(m), Img(m, n1, b1, indirect, data), F, f)
<1>1. /\ c \in Blocks \ bitmap /\ f \in Blocks \ bitmap /\ path \in Names /\ ~DirectoryFull
      /\ n1 = InodesEntered(c) /\ b1 = DirBlocksEntered(Entry(f, path), c)
      /\ inode'[cwd] = n1[cwd] /\ \A p \in DOMAIN b1 : dirBlock'[p] = b1[p]
  BY DEF Entered, LeavesHere
<1>2. /\ Disk = Img(bitmap, inode, dirBlock, indirect, data) /\ Tables(inode, dirBlock, indirect)
      /\ SaneDisk(Img(bitmap, inode, dirBlock, indirect, data), 0)
      /\ bitmap \subseteq Blocks /\ System \subseteq bitmap /\ bitmap \subseteq GrownMap(c) /\ bitmap \subseteq m
      /\ GrownMap(c) \subseteq m
  BY DiskIs DEF Inside, GrownMap
<1>3. f # 0
  BY <1>1, <1>2, VolumeFacts
<1>4. \A r \in SUBSET Blocks :
          bitmap \subseteq r /\ r \subseteq m => Fine(Img(r, inode, dirBlock, indirect, data), F, f)
  <2>1. ASSUME NEW r \in SUBSET Blocks, bitmap \subseteq r
        PROVE  Fine(Img(r, inode, dirBlock, indirect, data), F, f)
    <3>1. Step(r, inode, dirBlock, indirect, data, 0, f)
      BY <1>2, <2>1, WiderMap DEF Step
    <3>2. QED
      BY <3>1, StepFine
  <2>2. QED
    BY <2>1
<1>5. Trail(Disk, MapWrites(m), Img(m, inode, dirBlock, indirect, data), F, f)
  BY <1>2, <1>4, GrowMapTrail
<1>6. Fine(Img(m, n1, dirBlock, indirect, data), F, f)
  <2>1. /\ SaneDisk(Img(GrownMap(c), n1, dirBlock, indirect, data), 0)
        /\ \A h : FilesOf(n1, dirBlock, indirect, data, h) = FilesOf(inode, dirBlock, indirect, data, h)
    BY <1>1, EnteredInodeSane
  <2>2. Step(m, n1, dirBlock, indirect, data, 0, f)
    BY <1>2, <2>1, WiderMap DEF Step
  <2>3. QED
    BY <2>2, StepFine
<1>7. Fine(Img(m, n1, b1, indirect, data), F, f)
  <2>1. /\ SaneDisk(Img(GrownMap(c) \cup {f}, n1, b1, indirect, data), f)
        /\ \A h : FilesOf(n1, b1, indirect, data, h) = FilesOf(inode, dirBlock, indirect, data, h)
        /\ Given(EntriesRead(b1), f) /\ f \notin DOMAIN n1
    BY EnteredNameSane
  <2>2. Step(m, n1, b1, indirect, data, f, f)
    BY <2>1, WiderMap DEF Step
  <2>3. ~Crashable(Img(m, n1, b1, indirect, data))
    BY <2>1, ImgParts DEF Crashable
  <2>4. TableHeld(n1, indirect, f)
    BY <2>1 DEF TableHeld
  <2>5. QED
    BY <1>3, <2>2, <2>3, <2>4, StepFine
<1>8. Entry(f, path) \in EntryRecords
  BY <1>1, Zenon DEF Entry, EntryRecords, Paths
<1>9. PICK k, q, j : NameEntered(c, Entry(f, path), b1, k, q, j)
  BY <1>1, <1>8, EnteredBlocks
<1>10. Changed = q
  BY <1>9, EnterChanges
<1>11. q \in DOMAIN b1 /\ Put(dirBlock, q, b1[q]) = b1
  BY <1>9 DEF NameEntered
<1>12. InodeWrite(cwd) = Write("inode", cwd, n1[cwd]) /\ DirWrite(Changed) = Write("dirBlock", q, b1[q])
  BY <1>1, <1>10, <1>11 DEF InodeWrite, DirWrite
<1>13. Img(m, n1, dirBlock, indirect, data)
          = Written(Img(m, inode, dirBlock, indirect, data), Write("inode", cwd, n1[cwd]))
  <2>1. Put(inode, cwd, n1[cwd]) = n1
    BY <1>1, EnteredInodes
  <2>2. QED
    BY <2>1, WrittenIs
<1>14. Img(m, n1, b1, indirect, data)
          = Written(Img(m, n1, dirBlock, indirect, data), Write("dirBlock", q, b1[q]))
  BY <1>11, WrittenIs
<1>15. Fine(Img(m, inode, dirBlock, indirect, data), F, f)
  BY <1>2, <1>4
<1>16. Trail(Img(m, inode, dirBlock, indirect, data), <<InodeWrite(cwd), DirWrite(Changed)>>,
             Img(m, n1, b1, indirect, data), F, f)
  BY <1>6, <1>7, <1>12, <1>13, <1>14, <1>15, TrailTwo
<1>17. QED
  BY <1>5, <1>16, TrailCat DEF Entering

----------------------------------------------------------------------------
\* touch.

\* The directories, once the name is entered.
LEMMA EnteredDirs ==
    ASSUME Inside, NEW c, NEW f, NEW path, NEW n1, NEW b1, Entered(c, f, path, n1, b1)
    PROVE  /\ cwd \in LiveIn(n1, b1, f) /\ n1[cwd].type = "dir" /\ cwd # f
           /\ \A d \in LiveIn(n1, b1, f), k \in Rows :
                 n1[d].type = "dir" /\ n1[d].direct[k] # 0 => n1[d].direct[k] \in DOMAIN b1
<1>1. /\ c \in Blocks \ bitmap /\ f \in Blocks \ bitmap /\ path \in Names /\ ~DirectoryFull
      /\ n1 = InodesEntered(c) /\ b1 = DirBlocksEntered(Entry(f, path), c)
  BY DEF Entered
<1>2. LiveIn(n1, b1, f) = LiveIn(inode, dirBlock, 0)
  <2>1. DEFINE m == GrownMap(c) \cup {f}
  <2>2. m = GrownMap(c) \cup {f}
    OBVIOUS
  <2> HIDE DEF m
  <2>3. QED
    BY <2>2, EnteredNameSane
<1>3. Altered(inode, n1, cwd)
  BY <1>1, EnteredInodes
<1>4. cwd \in LiveIn(n1, b1, f) /\ n1[cwd].type = "dir"
  BY <1>2, <1>3, Here DEF Altered
<1>5. Entry(f, path) \in EntryRecords
  BY <1>1, Zenon DEF Entry, EntryRecords, Paths
<1>6. PICK k, q, j : NameEntered(c, Entry(f, path), b1, k, q, j)
  BY <1>1, <1>5, EnteredBlocks
<1>7. DOMAIN b1 = DOMAIN dirBlock \cup {q} /\ (NeedsBlock => q = c)
  BY <1>6 DEF NameEntered, NewSlot
<1>8. ASSUME NEW d \in LiveIn(inode, dirBlock, 0), NEW l \in Rows, n1[d].type = "dir", n1[d].direct[l] # 0
      PROVE  n1[d].direct[l] \in DOMAIN b1
  <2>1. \A k2 \in Rows : inode[d].type = "dir" /\ inode[d].direct[k2] # 0 => inode[d].direct[k2] \in DOMAIN dirBlock
    BY DEF Inside, Rest, DirsWritten, LiveIn
  <2>2. d \in DOMAIN inode
    BY DEF LiveIn, Live
  <2>3. CASE d # cwd
    <3>1. n1[d] = inode[d]
      BY <1>3, <2>2, <2>3 DEF Altered
    <3>2. QED
      BY <1>7, <1>8, <2>1, <3>1
  <2>4. CASE d = cwd
    <3>1. inode[d].type = "dir"
      BY <2>4, Here
    <3>2. CASE NeedsBlock
      <4>1. \A i \in Rows : n1[cwd].direct[i] = IF i = Min(Holes) THEN c ELSE inode[cwd].direct[i]
        BY <1>1, <3>2, EnteredInodes
      <4>2. n1[d].direct[l] = IF l = Min(Holes) THEN c ELSE inode[d].direct[l]
        BY <2>4, <4>1
      <4>3. QED
        BY <1>7, <1>8, <2>1, <3>1, <3>2, <4>2
    <3>3. CASE ~NeedsBlock
      <4>1. n1[d].direct = inode[d].direct
        BY <1>1, <2>4, <3>3, EnteredInodes
      <4>2. QED
        BY <1>7, <1>8, <2>1, <3>1, <4>1
    <3>4. QED
      BY <3>2, <3>3
  <2>5. QED
    BY <2>3, <2>4
<1>9. cwd # f
  BY <1>4 DEF LiveIn, Live
<1>10. QED
  BY <1>2, <1>4, <1>8, <1>9

\* The inode of the new name is written: r, at f.
LEMMA InodeWritten ==
    ASSUME NEW m, NEW n, NEW b, NEW x, NEW t, NEW f \in Blocks, SaneDisk(Img(m, n, b, x, t), f),
           f \in m, f # 0, NEW r \in InodeRecords, NEW n2, n2 = Put(n, f, r),
           f \in LiveIn(n2, b, 0) => Sized(n2, EntriesRead(b), RowsRead(x), DataRead(t), f)
    PROVE  /\ SaneDisk(Img(m, n2, b, x, t), f)
           /\ LiveIn(n2, b, f) = LiveIn(n, b, f)
           /\ FilesOf(n2, b, x, t, f) = FilesOf(n, b, x, t, f)
           /\ \A i \in LiveIn(n, b, f) : n2[i] = n[i]
<1>1. /\ Tables(n, b, x) /\ DOMAIN b \subseteq m /\ IsFunction(t)
      /\ Typed(n, EntriesRead(b), RowsRead(x), m)
      /\ TargetsMarked(n, EntriesRead(b), RowsRead(x), m, f)
  BY SaneDiskIs DEF SaneImg, Sane
<1>2. DOMAIN n2 = DOMAIN n \cup {f} /\ n2[f] = r /\ \A i \in DOMAIN n : i # f => n2[i] = n[i]
  BY DEF Put
<1>3. n2 \in [DOMAIN n2 -> InodeRecords]
  <2>1. n \in [DOMAIN n -> InodeRecords]
    BY <1>1 DEF Tables
  <2>2. n2 = [i \in DOMAIN n \cup {f} |-> IF i = f THEN r ELSE n[i]]
    BY DEF Put
  <2>3. QED
    BY <2>1, <2>2
<1>4. Formed(m, n2, b, x, t)
  BY <1>1, <1>2, <1>3 DEF Formed, Typed, Tables
<1>5. Outside(n, b, x, f, {}) /\ Agree(n, n2, {} \cup {f}) /\ \A h : Agree(h, h, {})
  <2>1. Agree(n, n2, {} \cup {f})
    BY <1>2 DEF Agree
  <2>2. QED
    BY <2>1 DEF Outside, Agree
<1>6. LedMarked(n, b, x, f, m)
  BY <1>1, MarkedTarget DEF LiveIn, LedMarked
<1>7. Bare(b, {})
  BY DEF Bare
<1>8. /\ SaneDisk(Img(m, n2, b, x, t), f)
      /\ LiveIn(n2, b, f) = LiveIn(n, b, f)
      /\ FilesOf(n2, b, x, t, f) = FilesOf(n, b, x, t, f)
  BY <1>4, <1>5, <1>6, <1>7, OutsideSane
<1>9. \A i \in LiveIn(n, b, f) : n2[i] = n[i]
  BY <1>2 DEF LiveIn, Live
<1>10. QED
  BY <1>8, <1>9

LEMMA NewFileSane ==
    ASSUME Inside, NEW c, NEW f, NEW path, NEW n1, NEW b1, Entered(c, f, path, n1, b1),
           NEW n2, n2 = Put(n1, f, NewFile), NEW m, m = GrownMap(c) \cup {f}
    PROVE  /\ SaneDisk(Img(m, n2, b1, indirect, data), f)
           /\ SaneDisk(Img(m, n2, b1, indirect, data), 0)
           /\ LiveIn(n2, b1, f) = LiveIn(inode, dirBlock, 0)
           /\ LiveIn(n2, b1, 0) = LiveIn(inode, dirBlock, 0) \cup {f}
           /\ FilesOf(n2, b1, indirect, data, f) = FilesOf(inode, dirBlock, indirect, data, f)
           /\ \A i \in LiveIn(n2, b1, f) : n2[i] = n1[i]
<1>1. /\ SaneDisk(Img(m, n1, b1, indirect, data), f)
      /\ FilesOf(n1, b1, indirect, data, f) = FilesOf(inode, dirBlock, indirect, data, f)
      /\ LiveIn(n1, b1, f) = LiveIn(inode, dirBlock, 0)
      /\ Given(EntriesRead(b1), f)
  BY EnteredNameSane
<1>2. f \in Blocks /\ f \in m /\ f # 0 /\ f # SFS_ROOT_LOCATION
  BY DiskIs, VolumeFacts DEF Entered, Inside, Typed
<1>3. DEFINE r == NewFile
             e == EntriesRead(b1)
             y == RowsRead(indirect)
             z == DataRead(data)
<1>4. r \in InodeRecords /\ r.type = "file" /\ r.indirect = 0 /\ \A k \in Rows : r.direct[k] = 0
  BY NewFileIs
<1>5. n2[f] = r /\ f \in DOMAIN n2
  BY DEF Put
<1>6. Sized(n2, e, y, z, f)
  <2>1. ContentIn(n2, y, z, f) = [size |-> 0, chunks |-> << >>]
    BY <1>5, NothingRead
  <2>2. n2[f].type = "file"
    BY <1>4, <1>5
  <2>3. QED
    BY <2>1, <2>2 DEF Sized, FromHost
<1> HIDE DEF r
<1>7. /\ SaneDisk(Img(m, n2, b1, indirect, data), f)
      /\ LiveIn(n2, b1, f) = LiveIn(n1, b1, f)
      /\ FilesOf(n2, b1, indirect, data, f) = FilesOf(n1, b1, indirect, data, f)
      /\ \A i \in LiveIn(n1, b1, f) : n2[i] = n1[i]
  BY <1>1, <1>2, <1>4, <1>6, InodeWritten DEF r
<1>8. Sane(n2, e, y, z, m, DOMAIN indirect, DOMAIN data, f) /\ Tables(n2, b1, indirect)
      /\ DOMAIN b1 \subseteq m /\ IsFunction(data)
  BY <1>7, SaneDiskIs DEF SaneImg
<1>9. \A k, l, q : q # 0 => ~Place(n2, e, y, f, k, l, q)
  BY <1>4, <1>5 DEF Place
<1>10. PlacesApart(Live(n2, e, f), n2, e, y, m, f)
  BY <1>9 DEF PlacesApart, LeadsTo
<1>11. FileHeld(n2, y, DOMAIN indirect, DOMAIN data, f)
  BY <1>4, <1>5 DEF FileHeld
<1> HIDE DEF e, y, z
<1>12. /\ Sane(n2, e, y, z, m, DOMAIN indirect, DOMAIN data, 0)
       /\ Live(n2, e, 0) = Live(n2, e, f) \cup {f}
  <2>1. n2[f].type # "dir" /\ Given(e, f)
    BY <1>1, <1>4, <1>5 DEF e
  <2>2. QED
    BY <1>5, <1>8, <1>10, <1>11, <2>1, AdoptSane
<1>13. SaneDisk(Img(m, n2, b1, indirect, data), 0)
  BY <1>8, <1>12, SaneDiskIs DEF SaneImg, e, y, z
<1>14. QED
  BY <1>1, <1>7, <1>12, <1>13 DEF LiveIn, e

\* A command has left the disk whole.
LEMMA RestNext ==
    ASSUME SaneDisk(Img(bitmap', inode', dirBlock', indirect', data'), 0), DirsWritten(inode', dirBlock'),
           cwd' \in LiveIn(inode', dirBlock', 0), inode'[cwd'].type = "dir"
    PROVE  Rest'
<1>1. SaneDisk(Disk', 0)
  BY DEF Disk, Img
<1>2. cwd' \in Live(inode', EntriesRead(dirBlock'), 0)
  BY DEF LiveIn
<1>3. QED
  BY <1>1, <1>2 DEF Rest

LEMMA DiskNext == Disk' = Img(bitmap', inode', dirBlock', indirect', data')
BY DEF Disk, Img

LEMMA TouchTrail ==
    ASSUME Inside, NEW path \in Names, Touch(path), disk' # disk
    PROVE  Rest' /\ Trail(Disk, TouchWrites, Disk', Disk', Created) /\ Created # 0
<1>1. DEFINE s == Lowest(Need(1))
             f == s[1]
             c == Last(s)
             n1 == InodesEntered(c)
             b1 == DirBlocksEntered(Entry(f, path), c)
             n2 == Put(n1, f, NewFile)
             m == GrownMap(c) \cup {f}
<1>2. /\ Room(1) /\ bitmap' = bitmap \cup ToSet(s) /\ inode' = n2 /\ dirBlock' = b1
      /\ cwd' = cwd /\ indirect' = indirect /\ data' = data
  BY DEF Touch, NoRoom, Refuse, RefuseForRoom, disk
<1>3. /\ f \in Blocks \ bitmap /\ c \in Blocks \ bitmap /\ (NeedsBlock => c # f)
      /\ bitmap \cup ToSet(s) = m
  BY <1>2, BlocksForFile
<1>4. Entered(c, f, path, n1, b1)
  BY <1>2, <1>3 DEF Entered, Room
<1>5. m \in SUBSET Blocks /\ f \notin DOMAIN inode /\ f # 0
  BY <1>3, DiskIs, VolumeFacts DEF GrownMap, Inside
<1> HIDE DEF s, f, c, n1, b1, n2, m
<1>6. bitmap' = m
  BY <1>2, <1>3
<1>7. /\ SaneDisk(Img(m, n2, b1, indirect, data), f)
      /\ SaneDisk(Img(m, n2, b1, indirect, data), 0)
      /\ LiveIn(n2, b1, f) = LiveIn(inode, dirBlock, 0)
      /\ LiveIn(n2, b1, 0) = LiveIn(inode, dirBlock, 0) \cup {f}
      /\ FilesOf(n2, b1, indirect, data, f) = FilesOf(inode, dirBlock, indirect, data, f)
      /\ \A i \in LiveIn(n2, b1, f) : n2[i] = n1[i]
  BY <1>4, NewFileSane DEF n2, m
<1>8. /\ LiveIn(n1, b1, f) = LiveIn(inode, dirBlock, 0) /\ DOMAIN n1 = DOMAIN inode
  <2>1. m = GrownMap(c) \cup {f}
    BY DEF m
  <2>2. QED
    BY <1>4, <2>1, EnteredNameSane
<1>9. /\ cwd \in LiveIn(n1, b1, f) /\ n1[cwd].type = "dir" /\ cwd # f
      /\ \A d \in LiveIn(n1, b1, f), k \in Rows :
            n1[d].type = "dir" /\ n1[d].direct[k] # 0 => n1[d].direct[k] \in DOMAIN b1
  BY <1>4, EnteredDirs
<1>10. DOMAIN n2 = DOMAIN n1 \cup {f} /\ n2[f] = NewFile /\ NewFile.type = "file"
  BY NewFileIs DEF n2, Put
<1>11. Disk' = Img(m, n2, b1, indirect, data)
  BY <1>2, <1>6, DiskNext
<1>12. Created = f
  BY <1>2, <1>5, <1>8, <1>10, CreatedIs
<1>13. LeavesHere(n1, b1)
  BY <1>2, <1>7, <1>8, <1>9 DEF LeavesHere
<1>14. Leaves(Disk', f, f)
  BY <1>7, <1>11 DEF Leaves
<1>15. Trail(Disk, Entering(m), Img(m, n1, b1, indirect, data), Disk', f)
  BY <1>4, <1>5, <1>13, <1>14, EnterTrail DEF m
<1>16. Fine(Img(m, n1, b1, indirect, data), Disk', f)
  BY <1>15, TrailEnds
<1>17. Fine(Disk', Disk', f)
  <2>1. Step(m, n2, b1, indirect, data, 0, f)
    BY <1>7 DEF Step
  <2>2. QED
    BY <1>11, <1>14, <2>1, StepFine
<1>18. InodeWrite(Created) = Write("inode", f, NewFile)
  BY <1>2, <1>10, <1>12 DEF InodeWrite
<1>19. Disk' = Written(Img(m, n1, b1, indirect, data), Write("inode", f, NewFile))
  BY <1>11, WrittenIs DEF n2
<1>20. Trail(Img(m, n1, b1, indirect, data), <<InodeWrite(Created)>>, Disk', Disk', f)
  BY <1>16, <1>17, <1>18, <1>19, TrailOne
<1>21. Trail(Disk, TouchWrites, Disk', Disk', Created)
  BY <1>6, <1>12, <1>15, <1>20, TrailCat DEF TouchWrites
<1>22. DirsWritten(inode', dirBlock')
  <2>1. ASSUME NEW d \in LiveIn(n2, b1, 0), NEW k \in Rows, n2[d].type = "dir", n2[d].direct[k] # 0
        PROVE  n2[d].direct[k] \in DOMAIN b1
    <3>1. d # f
      BY <1>10, <2>1
    <3>2. QED
      BY <1>7, <1>8, <1>9, <2>1, <3>1
  <2>2. QED
    BY <1>2, <2>1 DEF DirsWritten, LiveIn
<1>23. cwd' \in LiveIn(inode', dirBlock', 0) /\ inode'[cwd'].type = "dir"
  BY <1>2, <1>7, <1>8, <1>9
<1>24. Rest'
  BY <1>2, <1>6, <1>7, <1>22, <1>23, RestNext
<1>25. QED
  BY <1>5, <1>12, <1>21, <1>24

----------------------------------------------------------------------------
\* mkdir.

LEMMA AdoptDisk ==
    ASSUME NEW m, NEW n, NEW b, NEW x, NEW t, NEW f, SaneDisk(Img(m, n, b, x, t), f),
           f \in DOMAIN n, Given(EntriesRead(b), f),
           PlacesApart(LiveIn(n, b, f), n, EntriesRead(b), RowsRead(x), m, f),
           n[f].type = "dir" =>
               \E p \in LiveIn(n, b, f) : n[p].type = "dir" /\ DotsIn(n, EntriesRead(b), f, p),
           n[f].type = "file" => FileHeld(n, RowsRead(x), DOMAIN x, DOMAIN t, f)
    PROVE  /\ SaneDisk(Img(m, n, b, x, t), 0)
           /\ LiveIn(n, b, 0) = LiveIn(n, b, f) \cup {f}
<1> DEFINE e == EntriesRead(b)
           y == RowsRead(x)
           z == DataRead(t)
<1>1. /\ Tables(n, b, x) /\ DOMAIN b \subseteq m /\ IsFunction(t)
      /\ Sane(n, e, y, z, m, DOMAIN x, DOMAIN t, f)
  BY SaneDiskIs DEF SaneImg
<1>2. /\ Given(e, f) /\ PlacesApart(Live(n, e, f), n, e, y, m, f)
      /\ n[f].type = "dir" => \E p \in Live(n, e, f) : n[p].type = "dir" /\ DotsIn(n, e, f, p)
      /\ n[f].type = "file" => FileHeld(n, y, DOMAIN x, DOMAIN t, f)
  BY DEF LiveIn
<1> HIDE DEF e, y, z
<1>3. Sane(n, e, y, z, m, DOMAIN x, DOMAIN t, 0) /\ Live(n, e, 0) = Live(n, e, f) \cup {f}
  BY <1>1, <1>2, AdoptSane
<1>4. QED
  BY <1>1, <1>3, SaneDiskIs DEF SaneImg, LiveIn, e, y, z

\* What a new directory's block gives: nothing but "." and "..".
LEMMA DotBlockRead ==
    ASSUME NEW b, NEW c \in Blocks, c \in DOMAIN b, NEW f \in Blocks, f # 0, NEW p \in Blocks, p # 0,
           b[c] = DotBlock(f, p), NEW e, e = EntriesRead(b)
    PROVE  /\ \A j \in Columns : ~Gives(e, c, j)
           /\ \A j \in Columns : e[c][j].sfd_ino # 0 <=> j \in {1, 2}
           /\ e[c][1] = Entry(f, ".") /\ e[c][2] = Entry(p, "..")
<1>1. e[c] = DotBlock(f, p)
  BY ReadWritten
<1>2. /\ e[c][1] = Entry(f, ".") /\ e[c][2] = Entry(p, "..")
      /\ \A j \in Columns : j \notin {1, 2} => e[c][j] = FreeEntry
  BY <1>1, NewDirIs
<1>3. /\ e[c][1].sfd_ino = f /\ e[c][1].sfd_name \in Dots /\ e[c][2].sfd_ino = p /\ e[c][2].sfd_name \in Dots
  BY <1>2 DEF Entry, Dots
<1>4. FreeEntry.sfd_ino = 0
  BY EmptyBlock, Zenon
<1>5. ASSUME NEW j \in Columns
      PROVE  ~Gives(e, c, j) /\ (e[c][j].sfd_ino # 0 <=> j \in {1, 2})
  BY <1>2, <1>3, <1>4 DEF Gives
<1>6. QED
  BY <1>2, <1>5

\* The directories are those there were, and the new one.
LEMMA NewDirSane ==
    ASSUME Inside, NEW c, NEW f, NEW path, NEW n1, NEW b1, Entered(c, f, path, n1, b1),
           NEW m0, m0 = GrownMap(c) \cup {f}, NEW first \in Blocks \ m0, NEW m, m = m0 \cup {first},
           NEW n2, n2 = Put(n1, f, NewDir(first)), NEW b2, b2 = Put(b1, first, DotBlock(f, cwd))
    PROVE  /\ SaneDisk(Img(m, n2, b1, indirect, data), f)
           /\ FilesOf(n2, b1, indirect, data, f) = FilesOf(inode, dirBlock, indirect, data, f)
           /\ ~Crashable(Img(m, n2, b1, indirect, data))
           /\ SaneDisk(Img(m, n2, b2, indirect, data), 0)
           /\ LiveIn(n2, b2, 0) = LiveIn(inode, dirBlock, 0) \cup {f}
           /\ FilesOf(n2, b2, indirect, data, f) = FilesOf(inode, dirBlock, indirect, data, f)
           /\ \A i \in LiveIn(inode, dirBlock, 0) : n2[i] = n1[i]
<1>1. /\ SaneDisk(Img(m0, n1, b1, indirect, data), f)
      /\ FilesOf(n1, b1, indirect, data, f) = FilesOf(inode, dirBlock, indirect, data, f)
      /\ LiveIn(n1, b1, f) = LiveIn(inode, dirBlock, 0)
      /\ Given(EntriesRead(b1), f) /\ Holds(n1, EntriesRead(b1), cwd, f) /\ f \notin DOMAIN n1
  BY EnteredNameSane
<1>2. /\ f \in Blocks /\ f \in m0 /\ f # 0 /\ f # SFS_ROOT_LOCATION
      /\ first # 0 /\ first # SFS_ROOT_LOCATION /\ first \notin System /\ m \in SUBSET Blocks
      /\ bitmap \subseteq m0 /\ m0 \subseteq m
  <2>1. /\ bitmap \subseteq Blocks /\ System \cup DOMAIN inode \subseteq bitmap
        /\ SFS_ROOT_LOCATION \in DOMAIN inode /\ 0 \in System
    BY DiskIs, VolumeFacts DEF Inside, Typed
  <2>2. bitmap \subseteq m0 /\ m0 \subseteq Blocks
    BY <2>1 DEF GrownMap, Entered
  <2>3. QED
    BY <2>1, <2>2 DEF Entered
<1>3. cwd \in LiveIn(n1, b1, f) /\ n1[cwd].type = "dir" /\ cwd # f /\ cwd \in Blocks /\ cwd # 0
  BY EnteredDirs, Here
<1> DEFINE r == NewDir(first)
           block == DotBlock(f, cwd)
           e1 == EntriesRead(b1)
           e2 == EntriesRead(b2)
           y == RowsRead(indirect)
           z == DataRead(data)
<1>4. /\ r \in InodeRecords /\ r.type = "dir" /\ r.size = 2 /\ r.indirect = 0
      /\ \A k \in Rows : r.direct[k] = IF k = 1 THEN first ELSE 0
      /\ r.direct[1] = first
      /\ block \in [Columns -> EntryRecords]
  BY <1>2, <1>3, NewDirIs
<1>5. n2[f] = r /\ DOMAIN n2 = DOMAIN n1 \cup {f} /\ \A i \in DOMAIN n1 : i # f => n2[i] = n1[i]
  BY DEF Put
<1>6. DOMAIN b1 \subseteq m0 /\ first \notin DOMAIN b1 /\ Tables(n1, b1, indirect) /\ IsFunction(data)
  BY <1>1, SaneDiskIs
<1>7. DOMAIN b2 = DOMAIN b1 \cup {first} /\ b2[first] = block /\ \A q \in DOMAIN b1 : q # first => b2[q] = b1[q]
  BY DEF Put
<1>8. 1 \in Rows /\ 1 \in Columns /\ 2 \in Columns
  BY SfsAssumption DEF Rows, Columns
<1> HIDE DEF r, block
<1>9. f \in LiveIn(n2, b1, 0) /\ Sized(n2, e1, y, z, f)
  <2>1. f \in LiveIn(n2, b1, 0)
    BY <1>1, <1>2, <1>5 DEF LiveIn, Live
  <2>2. \A j \in Columns : e1[first][j].sfd_ino = 0
    BY <1>6, ReadUnwritten
  <2>3. UsedSlots(n2, e1, f) = {}
    BY <1>4, <1>5, <2>2 DEF UsedSlots, Used
  <2>4. Cardinality(UsedSlots(n2, e1, f)) = 0
    BY <2>3, FS_EmptySet
  <2>5. QED
    BY <1>4, <1>5, <2>1, <2>4 DEF Sized
<1>10. /\ SaneDisk(Img(m0, n2, b1, indirect, data), f)
       /\ LiveIn(n2, b1, f) = LiveIn(n1, b1, f)
       /\ FilesOf(n2, b1, indirect, data, f) = FilesOf(n1, b1, indirect, data, f)
       /\ \A i \in LiveIn(n1, b1, f) : n2[i] = n1[i]
  BY <1>1, <1>2, <1>4, <1>9, InodeWritten DEF r
<1>11. SaneDisk(Img(m, n2, b1, indirect, data), f)
  BY <1>2, <1>10, WiderMap
<1>12. ~Crashable(Img(m, n2, b1, indirect, data))
  <2>1. ~DirsWritten(n2, b1)
    BY <1>2, <1>4, <1>5, <1>6, <1>8, <1>9 DEF DirsWritten, LiveIn
  <2>2. QED
    BY <2>1, ImgParts DEF Crashable
<1>13. \A i \in LiveIn(n2, b1, f) : \A q : LeadsTo(n2, e1, y, i, q) => q \in m /\ q # first
  <2>1. TargetsMarked(n2, e1, y, m0, f)
    BY <1>10, SaneDiskIs DEF SaneImg, Sane
  <2>2. ASSUME NEW i \in LiveIn(n2, b1, f), NEW q, LeadsTo(n2, e1, y, i, q)
        PROVE  q \in m0
    BY <2>1, <2>2, MarkedTarget DEF LiveIn
  <2>3. QED
    BY <1>2, <2>2
<1>14. /\ \A j \in Columns : ~Gives(e2, first, j)
       /\ \A j \in Columns : e2[first][j].sfd_ino # 0 <=> j \in {1, 2}
       /\ e2[first][1] = Entry(f, ".") /\ e2[first][2] = Entry(cwd, "..")
  BY <1>2, <1>3, <1>7, DotBlockRead DEF block
<1>15. Used(n2, e2, f, 1, 1) /\ \A k \in Rows, j \in Columns : Used(n2, e2, f, k, j) <=> k = 1 /\ j \in {1, 2}
  BY <1>2, <1>4, <1>5, <1>8, <1>14 DEF Used
<1>16. Sized(n2, e2, y, z, f)
  <2>1. Cardinality(UsedSlots(n2, e2, f)) = 2
    BY <1>15, TwoUsed
  <2>2. QED
    BY <1>4, <1>5, <2>1 DEF Sized
<1>17. Formed(m, n2, b2, indirect, data) /\ Tables(n2, b2, indirect)
  <2>1. Tables(n2, b1, indirect) /\ System \cup DOMAIN n2 \subseteq m /\ 0 \notin DOMAIN n2
    BY <1>11, SaneDiskIs DEF SaneImg, Sane, Typed
  <2>2. b2 \in [DOMAIN b2 -> [Columns -> EntryRecords]]
    <3>1. b2 = [q \in DOMAIN b1 \cup {first} |-> IF q = first THEN block ELSE b1[q]]
      BY DEF Put, block
    <3>2. b1 \in [DOMAIN b1 -> [Columns -> EntryRecords]]
      BY <2>1 DEF Tables
    <3> HIDE DEF e1, e2
    <3>3. QED
      BY <1>4, <3>1, <3>2
  <2>3. QED
    BY <1>2, <1>6, <1>7, <2>1, <2>2 DEF Formed, Tables
<1>18. Outside(n2, b1, indirect, f, {first}) /\ Agree(b1, b2, {first}) /\ \A h, G : Agree(h, h, G)
  <2>1. \A i \in LiveIn(n2, b1, f) : i # first
    BY <1>2, <1>11, SaneDiskIs, <1>10, LiveFacts DEF SaneImg, Sane, LiveIn
  <2>2. QED
    BY <1>7, <1>13, <2>1 DEF Outside, Agree
<1>19. /\ SaneDisk(Img(m, n2, b2, indirect, data), f)
       /\ LiveIn(n2, b2, f) = LiveIn(n2, b1, f)
       /\ FilesOf(n2, b2, indirect, data, f) = FilesOf(n2, b1, indirect, data, f)
       /\ \A i \in LiveIn(n2, b1, f) : \A q : LeadsTo(n2, e2, y, i, q) <=> LeadsTo(n2, e1, y, i, q)
  <2>1. LedMarked(n2, b1, indirect, f, m)
    BY <1>13 DEF LedMarked
  <2>2. Bare(b2, {first})
    BY <1>14 DEF Bare
  <2>3. /\ Agree(n2, n2, {first} \cup {f}) /\ Agree(indirect, indirect, {first}) /\ Agree(data, data, {first})
        /\ Outside(n2, b1, indirect, f, {first}) /\ Agree(b1, b2, {first})
    BY <1>18
  <2> HIDE DEF e1, e2, y, z
  <2>4. /\ SaneDisk(Img(m, n2, b2, indirect, data), f)
        /\ LiveIn(n2, b2, f) = LiveIn(n2, b1, f)
        /\ FilesOf(n2, b2, indirect, data, f) = FilesOf(n2, b1, indirect, data, f)
    BY <1>11, <1>16, <1>17, <2>1, <2>2, <2>3, OutsideSane DEF e1, e2, y, z
  <2>5. \A i \in LiveIn(n2, b1, f) : \A q : LeadsTo(n2, e2, y, i, q) <=> LeadsTo(n2, e1, y, i, q)
    BY <1>11, <1>16, <1>17, <2>1, <2>2, <2>3, OutsideSane DEF e1, e2, y, z
  <2>6. QED
    BY <2>4, <2>5
<1>20. Holds(n2, e2, cwd, f)
  <2>1. \A k \in Rows : n2[cwd].direct[k] # 0 => n2[cwd].direct[k] # first
    <3>1. cwd \in LiveIn(n2, b1, f)
      BY <1>3, <1>10
    <3>2. \A k \in Rows : n2[cwd].direct[k] # 0 => LeadsTo(n2, e1, y, cwd, n2[cwd].direct[k])
      BY PlacesLead, Zenon
    <3>3. QED
      BY <1>13, <3>1, <3>2
  <2>2. \A k \in Rows : n1[cwd].direct[k] \in Blocks
    BY <1>1, <1>3, SaneDiskIs, LiveFacts DEF SaneImg, Sane, LiveIn
  <2>3. \A k \in Rows : n2[cwd].direct[k] = n1[cwd].direct[k]
    BY <1>3, <1>10
  <2>4. \A k \in Rows : n1[cwd].direct[k] # 0 => e2[n1[cwd].direct[k]] = e1[n1[cwd].direct[k]]
    BY <2>1, <2>2, <2>3, EntriesPut
  <2>5. QED
    BY <1>1, <2>3, <2>4, SameDirectory, Zenon
<1>21. Given(e2, f)
  <2>1. \A k \in Rows : n2[cwd].direct[k] \in Blocks
    BY <1>3, <1>10, <1>11, SaneDiskIs, LiveFacts DEF SaneImg, Sane, LiveIn
  <2>2. QED
    BY <1>20, <2>1 DEF Holds, Given
<1>22. ASSUME NEW k, NEW l, NEW q, q # 0, Place(n2, e2, y, f, k, l, q)
       PROVE  k = 1 /\ l = 0 /\ q = first
  BY <1>4, <1>5, <1>14, <1>22 DEF Place
<1>23. PlacesApart(LiveIn(n2, b2, f), n2, e2, y, m, f)
  <2>1. ASSUME NEW q, LeadsTo(n2, e2, y, f, q)
        PROVE  q = first
    BY <1>22, <2>1 DEF LeadsTo
  <2>2. \A i \in LiveIn(n2, b2, f) : ~LeadsTo(n2, e2, y, i, first)
    BY <1>13, <1>19
  <2>3. \A q : LeadsTo(n2, e2, y, f, q) =>
           /\ q \in m /\ q \notin System /\ q # SFS_ROOT_LOCATION
           /\ \A i \in LiveIn(n2, b2, f) : ~LeadsTo(n2, e2, y, i, q)
    BY <1>2, <2>1, <2>2
  <2>4. QED
    BY <1>22, <2>3 DEF PlacesApart
<1>24. cwd \in LiveIn(n2, b2, f) /\ n2[cwd].type = "dir" /\ DotsIn(n2, e2, f, cwd)
  <2>1. \A k \in Rows, j \in Columns :
           Used(n2, e2, f, k, j) /\ e2[n2[f].direct[k]][j].sfd_name \in Dots => k = 1 /\ j \in {1, 2}
    BY <1>15
  <2>2. DotsIn(n2, e2, f, cwd)
    BY <1>2, <1>4, <1>5, <1>14, <1>20, <2>1 DEF DotsIn
  <2>3. QED
    BY <1>3, <1>10, <1>19, <2>2
<1>25. SaneDisk(Img(m, n2, b2, indirect, data), 0) /\ LiveIn(n2, b2, 0) = LiveIn(n2, b2, f) \cup {f}
  <2>1. n2[f].type # "file" /\ f \in DOMAIN n2
    BY <1>4, <1>5
  <2>2. QED
    BY <1>19, <1>21, <1>23, <1>24, <2>1, AdoptDisk
<1>26. QED
  BY <1>1, <1>10, <1>11, <1>12, <1>19, <1>25

LEMMA MkdirTrail ==
    ASSUME Inside, NEW path \in Names, Mkdir(path), disk' # disk
    PROVE  Rest' /\ Trail(Disk, MkdirWrites, Disk', Disk', Created) /\ Created # 0
<1>1. DEFINE s == Lowest(Need(2))
             c == s[1]
             f == s[Need(1)]
             first == s[Need(2)]
             n1 == InodesEntered(c)
             b1 == DirBlocksEntered(Entry(f, path), c)
             n2 == Put(n1, f, NewDir(first))
             b2 == Put(b1, first, DotBlock(f, cwd))
             m0 == GrownMap(c) \cup {f}
             m == m0 \cup {first}
<1>2. /\ Room(2) /\ bitmap' = bitmap \cup ToSet(s) /\ inode' = n2 /\ dirBlock' = b2
      /\ cwd' = cwd /\ indirect' = indirect /\ data' = data
  BY DEF Mkdir, NoRoom, Refuse, RefuseForRoom, disk, NewDir, DotBlock
<1>3. /\ f \in Blocks \ bitmap /\ first \in Blocks \ bitmap /\ f # first /\ c \in Blocks \ bitmap
      /\ NeedsBlock => c # f /\ c # first
      /\ bitmap \cup ToSet(s) = GrownMap(c) \cup {f, first}
  BY <1>2, BlocksForDir
<1>4. Entered(c, f, path, n1, b1)
  BY <1>2, <1>3 DEF Entered, Room
<1>5. m \in SUBSET Blocks /\ m0 \in SUBSET Blocks /\ f \notin DOMAIN inode /\ f # 0 /\ first \in Blocks \ m0
  BY <1>3, DiskIs, VolumeFacts DEF GrownMap, Inside
<1> HIDE DEF s, f, c, first, n1, b1, n2, b2, m0, m
<1>6. bitmap' = m
  BY <1>2, <1>3 DEF m, m0
<1>7. /\ SaneDisk(Img(m, n2, b1, indirect, data), f)
      /\ FilesOf(n2, b1, indirect, data, f) = FilesOf(inode, dirBlock, indirect, data, f)
      /\ ~Crashable(Img(m, n2, b1, indirect, data))
      /\ SaneDisk(Img(m, n2, b2, indirect, data), 0)
      /\ LiveIn(n2, b2, 0) = LiveIn(inode, dirBlock, 0) \cup {f}
      /\ FilesOf(n2, b2, indirect, data, f) = FilesOf(inode, dirBlock, indirect, data, f)
      /\ \A i \in LiveIn(inode, dirBlock, 0) : n2[i] = n1[i]
  <2>1. /\ m0 = GrownMap(c) \cup {f} /\ m = m0 \cup {first}
        /\ n2 = Put(n1, f, NewDir(first)) /\ b2 = Put(b1, first, DotBlock(f, cwd))
    BY DEF n2, b2, m, m0
  <2>2. QED
    BY <1>4, <1>5, <2>1, NewDirSane
<1>8. /\ LiveIn(n1, b1, f) = LiveIn(inode, dirBlock, 0) /\ DOMAIN n1 = DOMAIN inode
      /\ DOMAIN b1 \subseteq m0
  <2>1. m0 = GrownMap(c) \cup {f}
    BY DEF m0
  <2>2. SaneDisk(Img(m0, n1, b1, indirect, data), f)
    BY <1>4, <2>1, EnteredNameSane
  <2>3. QED
    BY <1>4, <2>1, <2>2, EnteredNameSane, SaneDiskIs
<1>9. /\ cwd \in LiveIn(n1, b1, f) /\ n1[cwd].type = "dir" /\ cwd # f
      /\ \A d \in LiveIn(n1, b1, f), k \in Rows :
            n1[d].type = "dir" /\ n1[d].direct[k] # 0 => n1[d].direct[k] \in DOMAIN b1
  BY <1>4, EnteredDirs
<1>10. /\ DOMAIN n2 = DOMAIN n1 \cup {f} /\ n2[f] = NewDir(first)
       /\ NewDir(first).direct[1] = first
       /\ \A k \in Rows : NewDir(first).direct[k] = IF k = 1 THEN first ELSE 0
  BY <1>3, <1>9, Here, NewDirIs DEF n2, Put
<1>11. DOMAIN b2 = DOMAIN b1 \cup {first} /\ b2[first] = DotBlock(f, cwd) /\ \A q \in DOMAIN b1 : b2[q] = b1[q]
  BY <1>5, <1>8 DEF b2, Put
<1>12. Disk' = Img(m, n2, b2, indirect, data)
  BY <1>2, <1>6, DiskNext
<1>13. Created = f
  BY <1>2, <1>5, <1>8, <1>10, CreatedIs
<1>14. LeavesHere(n1, b1)
  BY <1>2, <1>7, <1>8, <1>9, <1>11 DEF LeavesHere
<1>15. Leaves(Disk', f, f)
  BY <1>7, <1>12 DEF Leaves
<1>16. Trail(Disk, Entering(m), Img(m, n1, b1, indirect, data), Disk', f)
  <2>1. GrownMap(c) \cup {f} \subseteq m
    BY DEF m, m0
  <2>2. QED
    BY <1>4, <1>5, <1>14, <1>15, <2>1, EnterTrail
<1>17. Fine(Img(m, n1, b1, indirect, data), Disk', f)
  BY <1>16, TrailEnds
<1>18. Fine(Img(m, n2, b1, indirect, data), Disk', f)
  <2>1. Step(m, n2, b1, indirect, data, f, f)
    BY <1>7 DEF Step
  <2>2. TableHeld(n2, indirect, f)
    BY <1>3, <1>9, <1>10, Here, NewDirIs DEF TableHeld
  <2>3. QED
    BY <1>5, <1>7, <1>15, <2>1, <2>2, StepFine
<1>19. Fine(Disk', Disk', f)
  <2>1. Step(m, n2, b2, indirect, data, 0, f)
    BY <1>7 DEF Step
  <2>2. QED
    BY <1>12, <1>15, <2>1, StepFine
<1>20. /\ InodeWrite(Created) = Write("inode", f, NewDir(first))
       /\ DirWrite(inode'[Created].direct[1]) = Write("dirBlock", first, DotBlock(f, cwd))
  BY <1>2, <1>10, <1>11, <1>13 DEF InodeWrite, DirWrite
<1>21. /\ Img(m, n2, b1, indirect, data)
            = Written(Img(m, n1, b1, indirect, data), Write("inode", f, NewDir(first)))
       /\ Disk' = Written(Img(m, n2, b1, indirect, data), Write("dirBlock", first, DotBlock(f, cwd)))
  BY <1>12, WrittenIs DEF n2, b2
<1>22. Trail(Img(m, n1, b1, indirect, data),
             <<InodeWrite(Created), DirWrite(inode'[Created].direct[1])>>, Disk', Disk', f)
  BY <1>17, <1>18, <1>19, <1>20, <1>21, TrailTwo
<1>23. Trail(Disk, MkdirWrites, Disk', Disk', Created)
  BY <1>6, <1>13, <1>16, <1>22, TrailCat DEF MkdirWrites
<1>24. DirsWritten(inode', dirBlock')
  <2>1. ASSUME NEW d \in LiveIn(n2, b2, 0), NEW k \in Rows, n2[d].type = "dir", n2[d].direct[k] # 0
        PROVE  n2[d].direct[k] \in DOMAIN b2
    <3>1. CASE d = f
      BY <1>10, <1>11, <2>1, <3>1
    <3>2. CASE d # f
      BY <1>7, <1>8, <1>9, <1>11, <2>1, <3>2
    <3>3. QED
      BY <3>1, <3>2
  <2>2. QED
    BY <1>2, <2>1 DEF DirsWritten, LiveIn
<1>25. cwd' \in LiveIn(inode', dirBlock', 0) /\ inode'[cwd'].type = "dir"
  BY <1>2, <1>7, <1>8, <1>9
<1>26. Rest'
  BY <1>2, <1>6, <1>7, <1>12, <1>24, <1>25, RestNext
<1>27. QED
  BY <1>5, <1>13, <1>23, <1>26

----------------------------------------------------------------------------
\* mv.

\* The place of a name in the working directory.
LEMMA NamedSlot ==
    ASSUME Inside, NEW path, Exists(path), NEW k, NEW j, k = Slot(path)[1], j = Slot(path)[2],
           NEW q, q = inode[cwd].direct[k]
    PROVE  /\ k \in Rows /\ j \in Columns /\ q # 0 /\ q \in Blocks /\ q \in DOMAIN dirBlock
           /\ dirBlock[q][j].sfd_ino # 0 /\ dirBlock[q][j].sfd_name = path
           /\ Ino(path) = dirBlock[q][j].sfd_ino
           /\ EntriesRead(dirBlock)[q] = dirBlock[q] /\ dirBlock[q][j] \in EntryRecords
<1>1. /\ k \in Rows /\ j \in Columns /\ q # 0
      /\ dirBlock[q][j].sfd_ino # 0 /\ dirBlock[q][j].sfd_name = path
      /\ Ino(path) = dirBlock[q][j].sfd_ino
  BY FoundName DEF FoundAt, Used
<1>2. q \in DOMAIN dirBlock /\ q \in Blocks /\ EntriesRead(dirBlock)[q] = dirBlock[q]
  BY <1>1, Here
<1>3. dirBlock \in [DOMAIN dirBlock -> [Columns -> EntryRecords]]
  BY DiskIs DEF Tables, Inside
<1>4. dirBlock[q][j] \in EntryRecords
  BY <1>1, <1>2, <1>3
<1>5. QED
  BY <1>1, <1>2, <1>4

\* The working directory keeps its blocks, which hold what they hold in b1.
BlocksAs(b1) ==
    /\ inode'[cwd].direct = inode[cwd].direct
    /\ \A l \in Rows : inode[cwd].direct[l] # 0 => dirBlock'[inode[cwd].direct[l]] = b1[inode[cwd].direct[l]]

\* The block that a command changes is the one with the entry.
LEMMA EntryChanges ==
    ASSUME Inside, NEW k \in Rows, NEW j \in Columns, NEW q, q = inode[cwd].direct[k], q # 0,
           NEW E, E # dirBlock[q][j], NEW b1, EntrySet(dirBlock, b1, q, j, E), BlocksAs(b1)
    PROVE  Changed = q /\ dirBlock'[q] = b1[q] /\ Put(dirBlock, q, b1[q]) = b1
<1>1. /\ q \in DOMAIN dirBlock /\ \A l \in Rows : inode[cwd].direct[l] # 0 => inode[cwd].direct[l] \in DOMAIN dirBlock
      /\ inode[cwd].direct \in [Rows -> Blocks]
      /\ dirBlock \in [DOMAIN dirBlock -> [Columns -> EntryRecords]]
  BY Here, DiskIs DEF InodeRecords, Rows, Inside, Tables
<1>2. /\ b1[q][j] = E /\ DOMAIN b1 = DOMAIN dirBlock /\ IsFunction(b1)
      /\ \A p \in DOMAIN dirBlock : p # q => b1[p] = dirBlock[p]
  BY <1>1 DEF EntrySet, IsFunction
<1>3. dirBlock'[q] = b1[q] /\ dirBlock'[q] # dirBlock[q]
  BY <1>1, <1>2 DEF BlocksAs
<1>4. q \in Range(inode'[cwd].direct)
  BY <1>1 DEF Range, BlocksAs
<1>5. ASSUME NEW p \in Range(inode'[cwd].direct), p # 0, p # q
      PROVE  p \in DOMAIN dirBlock /\ dirBlock'[p] = dirBlock[p]
  <2>1. PICK l \in Rows : p = inode[cwd].direct[l]
    BY <1>1, <1>5 DEF Range, BlocksAs
  <2>2. QED
    BY <1>1, <1>2, <1>5, <2>1 DEF BlocksAs
<1>6. Changed = q
  BY <1>3, <1>4, <1>5, ChangedIs
<1>7. Put(dirBlock, q, b1[q]) = b1
  <2>1. SameBut(dirBlock, b1, q)
    BY <1>1, <1>2, Zenon DEF SameBut
  <2>2. QED
    BY <2>1, SameWhole, Zenon
<1>8. QED
  BY <1>3, <1>6, <1>7

LEMMA MvTrail ==
    ASSUME Inside, NEW src \in Names, NEW dst \in Names, Mv(src, dst), disk' # disk
    PROVE  Rest' /\ Trail(Disk, MvWrites, Disk', Disk', 0)
<1>1. DEFINE k == Slot(src)[1]
             j == Slot(src)[2]
             q == inode[cwd].direct[k]
             E == Entry(Ino(src), dst)
             b1 == Renamed(dirBlock, q, j, dst)
<1>2. /\ ~Exists(dst) /\ Exists(src) /\ dirBlock' = b1
      /\ cwd' = cwd /\ bitmap' = bitmap /\ inode' = inode /\ indirect' = indirect /\ data' = data
  BY Zenon DEF Mv, Refuse, disk, Renamed
<1>3. /\ k \in Rows /\ j \in Columns /\ q # 0 /\ q \in Blocks /\ q \in DOMAIN dirBlock
      /\ dirBlock[q][j].sfd_ino # 0 /\ dirBlock[q][j].sfd_name = src
      /\ Ino(src) = dirBlock[q][j].sfd_ino
      /\ EntriesRead(dirBlock)[q] = dirBlock[q] /\ dirBlock[q][j] \in EntryRecords
  BY <1>2, NamedSlot
<1>4. /\ Tables(inode, dirBlock, indirect) /\ IsFunction(data) /\ DOMAIN dirBlock \subseteq bitmap
      /\ SaneImg(inode, dirBlock, indirect, data, bitmap, 0)
      /\ Disk = Img(bitmap, inode, dirBlock, indirect, data)
      /\ SaneDisk(Img(bitmap, inode, dirBlock, indirect, data), 0)
  BY DiskIs DEF Inside
<1> HIDE DEF k, j, q
<1>5. E \in EntryRecords /\ E.sfd_name = dst /\ src # dst /\ src \notin Dots /\ E # dirBlock[q][j]
  <2>1. Ino(src) \in Blocks
    BY <1>3, Zenon DEF EntryRecords
  <2>2. E \in EntryRecords /\ E.sfd_name = dst
    BY <2>1, Zenon DEF Entry, EntryRecords, Paths
  <2>3. QED
    BY <1>2, <1>3, <2>2, SfsAssumption DEF Dots
<1>6. EntrySet(dirBlock, b1, q, j, E)
  <2>1. b1 = EntryPut(dirBlock, q, j, E)
    BY <1>3, <1>4, RenamedEntry DEF Tables
  <2>2. QED
    BY <1>3, <1>4, <1>5, <2>1, EntryPutAt DEF Tables
<1>7. EntrySet(EntriesRead(dirBlock), EntriesRead(b1), q, j, E)
  BY <1>3, <1>4, <1>5, <1>6, ReadEntrySet
<1> HIDE DEF b1
<1>8. DOMAIN b1 = DOMAIN dirBlock /\ Tables(inode, b1, indirect)
  BY <1>4, <1>6 DEF EntrySet, Tables
<1>9. /\ SaneDisk(Img(bitmap, inode, b1, indirect, data), 0)
      /\ \A h : LiveIn(inode, b1, h) = LiveIn(inode, dirBlock, h)
      /\ \A h : FilesOf(inode, b1, indirect, data, h) = FilesOf(inode, dirBlock, indirect, data, h)
  <2> DEFINE e == EntriesRead(dirBlock)
             e1 == EntriesRead(b1)
             y == RowsRead(indirect)
             z == DataRead(data)
             X == DOMAIN indirect
             T == DOMAIN data
  <2>1. Sane(inode, e, y, z, bitmap, X, T, 0)
    BY <1>4 DEF SaneImg
  <2>2. Gives(e, q, j) /\ e[q][j].sfd_ino = Ino(src)
    BY <1>3, <1>5 DEF Gives
  <2>3. EntrySet(e, e1, q, j, Entry(e[q][j].sfd_ino, dst))
    BY <1>7, <2>2
  <2> HIDE DEF e, e1, y, z, X, T
  <2>4. /\ Sane(inode, e1, y, z, bitmap, X, T, 0)
        /\ \A h : Live(inode, e1, h) = Live(inode, e, h)
        /\ \A h : Files(inode, e1, y, z, h) = Files(inode, e, y, z, h)
    BY <1>3, <2>1, <2>2, <2>3, RenameSane
  <2>5. QED
    BY <1>4, <1>8, <2>4, SaneDiskIs DEF SaneImg, LiveIn, FilesOf, e, e1, y, z, X, T
<1>10. Changed = q /\ dirBlock'[q] = b1[q] /\ Put(dirBlock, q, b1[q]) = b1
  <2>1. inode'[cwd].direct = inode[cwd].direct /\ dirBlock' = b1
    BY <1>2
  <2>2. q = inode[cwd].direct[k]
    BY DEF q
  <2>3. BlocksAs(b1)
    BY <2>1 DEF BlocksAs
  <2>4. QED
    BY <1>3, <1>5, <1>6, <2>2, <2>3, EntryChanges, Zenon
<1>11. Disk' = Img(bitmap, inode, b1, indirect, data)
  BY <1>2, DiskNext
<1>12. Leaves(Disk', 0, 0)
  BY <1>9, <1>11 DEF Leaves
<1>13. Fine(Disk, Disk', 0) /\ Fine(Disk', Disk', 0)
  <2>1. Step(bitmap, inode, dirBlock, indirect, data, 0, 0) /\ Step(bitmap, inode, b1, indirect, data, 0, 0)
    BY <1>4, <1>9 DEF Step
  <2>2. QED
    BY <1>4, <1>11, <1>12, <2>1, StepFine
<1>14. DirWrite(Changed) = Write("dirBlock", q, b1[q])
  BY <1>10 DEF DirWrite
<1>15. Disk' = Written(Disk, Write("dirBlock", q, b1[q]))
  BY <1>4, <1>10, <1>11, WrittenIs
<1>16. Trail(Disk, MvWrites, Disk', Disk', 0)
  BY <1>13, <1>14, <1>15, TrailOne DEF MvWrites
<1>17. DirsWritten(inode', dirBlock')
  <2>1. DirsWritten(inode, dirBlock)
    BY DEF Inside, Rest
  <2>2. QED
    BY <1>2, <1>8, <1>9, <2>1 DEF DirsWritten, LiveIn
<1>18. cwd' \in LiveIn(inode', dirBlock', 0) /\ inode'[cwd'].type = "dir"
  BY <1>2, <1>9, Here
<1>19. Rest'
  BY <1>2, <1>9, <1>17, <1>18, RestNext
<1>20. QED
  BY <1>16, <1>19

----------------------------------------------------------------------------
\* rm and rmdir.

\* What the names in the working directory stand for.
LEMMA NamedLive ==
    ASSUME Inside, NEW path, Exists(path), NEW k, NEW j, k = Slot(path)[1], j = Slot(path)[2],
           NEW q, q = inode[cwd].direct[k], NEW e, e = EntriesRead(dirBlock)
    PROVE  /\ Ino(path) \in LiveIn(inode, dirBlock, 0)
           /\ path \notin Dots => Gives(e, q, j) /\ e[q][j].sfd_ino = Ino(path)
           /\ path \in Dots => inode[Ino(path)].type = "dir"
           /\ path = ".." => Ino(path) = SFS_ROOT_LOCATION \/ Holds(inode, e, Ino(path), cwd)
<1>1. /\ k \in Rows /\ j \in Columns /\ q # 0 /\ q \in Blocks /\ q \in DOMAIN dirBlock
      /\ dirBlock[q][j].sfd_ino # 0 /\ dirBlock[q][j].sfd_name = path
      /\ Ino(path) = dirBlock[q][j].sfd_ino
      /\ e[q] = dirBlock[q]
  BY NamedSlot
<1>2. /\ Typed(inode, e, RowsRead(indirect), bitmap) /\ NamesLead(inode, e, 0) /\ DirsFormed(inode, e, 0)
  BY DiskIs DEF SaneImg, Sane, Inside
<1>3. /\ cwd \in Live(inode, e, 0) /\ inode[cwd].type = "dir"
  BY Here DEF LiveIn
<1>4. CASE path \notin Dots
  <2>1. Gives(e, q, j) /\ e[q][j].sfd_ino = Ino(path)
    BY <1>1, <1>4 DEF Gives
  <2>2. Ino(path) \in DOMAIN inode /\ Given(e, Ino(path)) /\ Ino(path) # 0
    BY <1>1, <1>2, <2>1 DEF NamesLead, Given
  <2>3. path # ".."
    BY <1>4 DEF Dots
  <2>4. QED
    BY <1>4, <2>1, <2>2, <2>3 DEF LiveIn, Live
<1>5. CASE path \in Dots
  <2>1. PICK p \in Live(inode, e, 0) : inode[p].type = "dir" /\ DotsIn(inode, e, cwd, p)
    BY <1>2, <1>3 DEF DirsFormed
  <2>2. k = 1 /\ j \in {1, 2}
    BY <1>1, <1>5, <2>1 DEF DotsIn, Used
  <2>3. e[q][1] = Entry(cwd, ".") /\ e[q][2] = Entry(p, "..")
    BY <2>1, <2>2 DEF DotsIn
  <2>4. (j = 1 /\ Ino(path) = cwd /\ path = ".") \/ (j = 2 /\ Ino(path) = p /\ path = "..")
    BY <1>1, <2>2, <2>3 DEF Entry
  <2>5. p = SFS_ROOT_LOCATION \/ Holds(inode, e, p, cwd)
    BY <2>1 DEF DotsIn
  <2>6. QED
    BY <1>3, <1>5, <2>1, <2>4, <2>5 DEF LiveIn
<1>6. QED
  BY <1>4, <1>5

LEMMA FilesWithout ==
    ASSUME NEW n, NEW b, NEW x, NEW t, NEW h, h \notin LiveIn(n, b, 0), 0 \notin DOMAIN n
    PROVE  FilesOf(n, b, x, t, h) = FilesOf(n, b, x, t, 0)
<1>1. Live(n, EntriesRead(b), h) = Live(n, EntriesRead(b), 0)
  BY DEF LiveIn, Live
<1>2. QED
  BY <1>1 DEF FilesOf, Files

\* An image without the blocks H.
Without(H, m, n, b, x, t) == Img(m \ H, Forget(n, H), Forget(b, H), Forget(x, H), Forget(t, H))

LEMMA FormedWithout ==
    ASSUME NEW m, NEW n, NEW b, NEW x, NEW t, Formed(m, n, b, x, t), NEW H, H \cap System = {}
    PROVE  /\ Formed(m \ H, Forget(n, H), Forget(b, H), Forget(x, H), Forget(t, H))
           /\ \A f, G : Agree(f, Forget(f, H), H) /\ Agree(f, Forget(f, H), H \cup G)
<1>1. \A f : DOMAIN Forget(f, H) = DOMAIN f \ H /\ IsFunction(Forget(f, H))
             /\ \A c \in DOMAIN f \ H : Forget(f, H)[c] = f[c]
  BY ReadForget, Zenon
<1>2. Tables(Forget(n, H), Forget(b, H), Forget(x, H))
  BY <1>1, ForgetType, Zenon DEF Formed, Tables
<1>3. Formed(m \ H, Forget(n, H), Forget(b, H), Forget(x, H), Forget(t, H))
  BY <1>1, <1>2, Zenon DEF Formed
<1>4. ASSUME NEW f, NEW G
      PROVE  Agree(f, Forget(f, H), H) /\ Agree(f, Forget(f, H), H \cup G)
  BY <1>1, Zenon DEF Agree
<1>5. QED
  BY <1>3, <1>4

\* Blocks that no name leads to may go.
LEMMA WithoutSane ==
    ASSUME NEW m, NEW n, NEW b, NEW x, NEW t, SaneDisk(Img(m, n, b, x, t), 0), NEW H, H \cap System = {},
           Outside(n, b, x, 0, H)
    PROVE  /\ SaneDisk(Without(H, m, n, b, x, t), 0)
           /\ LiveIn(Forget(n, H), Forget(b, H), 0) = LiveIn(n, b, 0)
           /\ FilesOf(Forget(n, H), Forget(b, H), Forget(x, H), Forget(t, H), 0) = FilesOf(n, b, x, t, 0)
           /\ \A i \in LiveIn(n, b, 0) : n[i].type = "dir" =>
                 UsedSlots(Forget(n, H), EntriesRead(Forget(b, H)), i) = UsedSlots(n, EntriesRead(b), i)
<1>1. Tables(n, b, x) /\ DOMAIN b \subseteq m /\ IsFunction(t) /\ SaneImg(n, b, x, t, m, 0)
  BY SaneDiskIs
<1>2. /\ Typed(n, EntriesRead(b), RowsRead(x), m)
      /\ TargetsMarked(n, EntriesRead(b), RowsRead(x), m, 0)
  BY <1>1 DEF SaneImg, Sane
<1>3. Formed(m, n, b, x, t)
  BY <1>1, <1>2 DEF Formed, Typed
<1>4. /\ Formed(m \ H, Forget(n, H), Forget(b, H), Forget(x, H), Forget(t, H))
      /\ Agree(n, Forget(n, H), H \cup {0}) /\ Agree(b, Forget(b, H), H)
      /\ Agree(x, Forget(x, H), H) /\ Agree(t, Forget(t, H), H)
  BY <1>3, FormedWithout, Zenon
<1>5. Bare(Forget(b, H), H)
  <2>1. ASSUME NEW c \in H \cap Blocks, NEW j \in Columns
        PROVE  EntriesRead(Forget(b, H))[c][j].sfd_ino = 0
    <3>1. c \notin DOMAIN Forget(b, H)
      BY DEF Forget, Restrict
    <3>2. QED
      BY <3>1, ReadUnwritten
  <2>2. QED
    BY <2>1 DEF Gives, Bare
<1>6. LedMarked(n, b, x, 0, m \ H)
  <2>1. ASSUME NEW i \in LiveIn(n, b, 0), NEW c, LeadsTo(n, EntriesRead(b), RowsRead(x), i, c)
        PROVE  c \in m /\ c \notin H
    <3>1. c \in m
      BY <1>2, <2>1, MarkedTarget DEF LiveIn
    <3>2. c \notin H
      BY <2>1 DEF Outside
    <3>3. QED
      BY <3>1, <3>2
  <2>2. QED
    BY <2>1 DEF LedMarked
<1>7. 0 \notin LiveIn(Forget(n, H), Forget(b, H), 0)
  BY DEF LiveIn, Live
<1> DEFINE m2 == m \ H
           n2 == Forget(n, H)
           b2 == Forget(b, H)
           x2 == Forget(x, H)
           t2 == Forget(t, H)
<1>8. /\ Formed(m2, n2, b2, x2, t2) /\ 0 \notin LiveIn(n2, b2, 0)
      /\ Agree(n, n2, H \cup {0}) /\ Agree(b, b2, H) /\ Agree(x, x2, H) /\ Agree(t, t2, H)
      /\ Bare(b2, H) /\ LedMarked(n, b, x, 0, m2)
  BY <1>4, <1>5, <1>6, <1>7
<1>9. Without(H, m, n, b, x, t) = Img(m2, n2, b2, x2, t2)
  BY DEF Without
<1> HIDE DEF m2, n2, b2, x2, t2
<1>10. /\ SaneDisk(Img(m2, n2, b2, x2, t2), 0)
       /\ LiveIn(n2, b2, 0) = LiveIn(n, b, 0)
       /\ FilesOf(n2, b2, x2, t2, 0) = FilesOf(n, b, x, t, 0)
       /\ \A i \in LiveIn(n, b, 0) : n[i].type = "dir" =>
             UsedSlots(n2, EntriesRead(b2), i) = UsedSlots(n, EntriesRead(b), i)
  BY <1>8, OutsideSane
<1>11. QED
  BY <1>9, <1>10 DEF n2, b2, x2, t2

\* The name of h is gone, what it leads to is still marked: G, or a part of it.
Unnamed(h, b1, G) ==
    /\ SaneDisk(Img(bitmap, inode, b1, indirect, data), 0)
    /\ FilesOf(inode, b1, indirect, data, h) = FilesOf(inode, dirBlock, indirect, data, h)
    /\ LiveIn(inode, b1, 0) = LiveIn(inode, dirBlock, 0) \ {h}
    /\ h # cwd /\ h \in G /\ G \subseteq bitmap /\ G \cap System = {}
    /\ Cardinality(UsedSlots(inode, EntriesRead(b1), cwd)) + 1 <= inode[cwd].size
    /\ Outside(inode, b1, indirect, 0, G)
    /\ DOMAIN b1 = DOMAIN dirBlock /\ IsFunction(b1)

Owned(h, G) ==
    h \in G /\ \A c \in G : c = h \/ LeadsTo(inode, EntriesRead(dirBlock), RowsRead(indirect), h, c)

LEMMA UnnamedSane ==
    ASSUME Inside, NEW k \in Rows, NEW j \in Columns, NEW q, q = inode[cwd].direct[k], q # 0,
           Gives(EntriesRead(dirBlock), q, j), NEW h, h = EntriesRead(dirBlock)[q][j].sfd_ino,
           Nameless(inode, EntriesRead(dirBlock), h), NEW b1, EntrySet(dirBlock, b1, q, j, FreeEntry),
           NEW G, Owned(h, G)
    PROVE  Unnamed(h, b1, G)
<1> DEFINE e == EntriesRead(dirBlock)
           e1 == EntriesRead(b1)
           y == RowsRead(indirect)
           z == DataRead(data)
           X == DOMAIN indirect
           T == DOMAIN data
<1>1. /\ Tables(inode, dirBlock, indirect) /\ IsFunction(data) /\ DOMAIN dirBlock \subseteq bitmap
      /\ SaneImg(inode, dirBlock, indirect, data, bitmap, 0)
  BY DiskIs DEF Inside
<1>2. /\ Sane(inode, e, y, z, bitmap, X, T, 0) /\ TargetsMarked(inode, e, y, bitmap, 0)
  BY <1>1 DEF SaneImg, Sane
<1>3. cwd \in Live(inode, e, 0) /\ inode[cwd].type = "dir" /\ q \in DOMAIN dirBlock /\ q \in Blocks
  BY Here DEF LiveIn
<1>4. EntrySet(e, e1, q, j, FreeEntry)
  BY <1>1, <1>3, EmptyBlock, ReadEntrySet, Zenon
<1>5. DOMAIN b1 = DOMAIN dirBlock /\ Tables(inode, b1, indirect) /\ IsFunction(b1)
  BY <1>1 DEF EntrySet, Tables, IsFunction
<1>6. Gives(e, q, j) /\ h = e[q][j].sfd_ino /\ Nameless(inode, e, h)
      /\ q = inode[cwd].direct[k] /\ q # 0
  OBVIOUS
<1>7. \A c \in G : c = h \/ LeadsTo(inode, e, y, h, c)
  BY DEF Owned
<1> HIDE DEF e, e1, y, z, X, T
<1>8. /\ Sane(inode, e1, y, z, bitmap, X, T, 0)
      /\ h \in Live(inode, e, 0) /\ h # SFS_ROOT_LOCATION /\ h # cwd
      /\ Live(inode, e1, 0) = Live(inode, e, 0) \ {h}
      /\ Files(inode, e1, y, z, h) = Files(inode, e, y, z, h)
      /\ Cardinality(UsedSlots(inode, e1, cwd)) + 1 <= inode[cwd].size
  <2>1. Sane(inode, e, y, z, bitmap, X, T, 0)
    BY <1>2
  <2>2. QED
    BY <1>3, <1>4, <1>6, <2>1, LeaveSane, Zenon
<1>9. LeadsTo(inode, e, y, cwd, h) /\ ApartFrom(inode, e, e1, y, h)
  BY <1>2, <1>3, <1>4, <1>6, LeaveApart, Zenon
<1>10. \A i \in Live(inode, e1, 0) : i \notin G /\ \A c : LeadsTo(inode, e1, y, i, c) => c \notin G
  <2>1. ASSUME NEW i \in Live(inode, e1, 0)
        PROVE  i \notin G
    BY <1>7, <1>8, <1>9, Zenon DEF ApartFrom
  <2>2. ASSUME NEW i \in Live(inode, e1, 0), NEW c, LeadsTo(inode, e1, y, i, c)
        PROVE  c \notin G
    BY <1>7, <1>8, <1>9, <2>2, Zenon DEF ApartFrom
  <2>3. QED
    BY <2>1, <2>2
<1>11. ASSUME NEW c \in G
       PROVE  c \in bitmap /\ c \notin System
  <2>1. \E i \in Live(inode, e, 0) : LeadsTo(inode, e, y, i, c)
    <3>1. CASE c = h
      BY <1>3, <1>9, <3>1, Zenon
    <3>2. CASE LeadsTo(inode, e, y, h, c)
      BY <1>8, <3>2, Zenon
    <3>3. QED
      BY <1>7, <3>1, <3>2, Zenon
  <2>2. QED
    BY <1>2, <2>1, MarkedTarget
<1>12. Outside(inode, b1, indirect, 0, G)
  BY <1>10 DEF Outside, LiveIn, e1, y
<1>13. SaneDisk(Img(bitmap, inode, b1, indirect, data), 0)
  BY <1>1, <1>5, <1>8, SaneDiskIs, Zenon DEF SaneImg, e1, y, z, X, T
<1>14. /\ FilesOf(inode, b1, indirect, data, h) = FilesOf(inode, dirBlock, indirect, data, h)
       /\ LiveIn(inode, b1, 0) = LiveIn(inode, dirBlock, 0) \ {h}
       /\ Cardinality(UsedSlots(inode, EntriesRead(b1), cwd)) + 1 <= inode[cwd].size
  BY <1>8, Zenon DEF FilesOf, LiveIn, e, e1, y, z
<1>15. h \in G
  BY DEF Owned
<1>16. QED
  BY <1>5, <1>8, <1>11, <1>12, <1>13, <1>14, <1>15, Zenon DEF Unnamed

\* The files that are left are the same while the map is written.
LEMMA UnnamedStep ==
    ASSUME Rest, NEW h, NEW b1, NEW G, Unnamed(h, b1, G), NEW H, H \subseteq G
    PROVE  Step(bitmap \ H, Forget(inode, H), Forget(b1, H), Forget(indirect, H), Forget(data, H), 0, h)
<1> DEFINE n2 == Forget(inode, H)
           b2 == Forget(b1, H)
           x2 == Forget(indirect, H)
           t2 == Forget(data, H)
<1>1. /\ SaneDisk(Img(bitmap, inode, b1, indirect, data), 0)
      /\ FilesOf(inode, b1, indirect, data, h) = FilesOf(inode, dirBlock, indirect, data, h)
      /\ LiveIn(inode, b1, 0) = LiveIn(inode, dirBlock, 0) \ {h}
      /\ G \cap System = {} /\ Outside(inode, b1, indirect, 0, G)
  BY DEF Unnamed
<1>2. H \cap System = {} /\ Outside(inode, b1, indirect, 0, H)
  BY <1>1 DEF Outside
<1>3. /\ SaneDisk(Without(H, bitmap, inode, b1, indirect, data), 0)
      /\ LiveIn(n2, b2, 0) = LiveIn(inode, b1, 0)
      /\ FilesOf(n2, b2, x2, t2, 0) = FilesOf(inode, b1, indirect, data, 0)
  BY <1>1, <1>2, WithoutSane
<1>4. 0 \notin DOMAIN inode /\ 0 \notin DOMAIN n2
  <2>1. DOMAIN n2 = DOMAIN inode \ H
    BY DEF Forget, Restrict
  <2>2. QED
    BY <2>1, DiskIs
<1> HIDE DEF n2, b2, x2, t2
<1>5. h \notin LiveIn(inode, b1, 0) /\ h \notin LiveIn(n2, b2, 0)
  BY <1>1, <1>3
<1>6. FilesOf(n2, b2, x2, t2, h) = FilesOf(n2, b2, x2, t2, 0)
  BY <1>4, <1>5, FilesWithout
<1>7. FilesOf(inode, b1, indirect, data, h) = FilesOf(inode, b1, indirect, data, 0)
  BY <1>4, <1>5, FilesWithout
<1>8. QED
  BY <1>1, <1>3, <1>6, <1>7 DEF Step, Without, n2, b2, x2, t2

LEMMA UnnamedTrail ==
    ASSUME Rest, NEW h, NEW b1, NEW G, Unnamed(h, b1, G), NEW F, Leaves(F, h, 0)
    PROVE  Trail(Img(bitmap, inode, b1, indirect, data), MapWrites(bitmap \ G),
                 Without(G, bitmap, inode, b1, indirect, data), F, 0)
<1>1. bitmap \in SUBSET Blocks /\ bitmap \ G \in SUBSET Blocks
      /\ IsFunction(inode) /\ IsFunction(b1) /\ IsFunction(indirect) /\ IsFunction(data)
  BY DiskIs DEF Unnamed
<1>2. \A q \in bitmap : q \div SFS_BLOCKBITS \in Nat
  BY <1>1, MapBlock
<1>3. ASSUME NEW k \in 0 .. SFS_BITBLOCKS
      PROVE  Fine(ImgAt(bitmap, inode, b1, indirect, data, bitmap \ G, k), F, 0)
  <2> DEFINE H == ClearedAt(bitmap, bitmap \ G, k)
  <2>1. H \subseteq G
    BY DEF ClearedAt
  <2>2. MapAt(bitmap, bitmap \ G, k) = bitmap \ H
    <3>1. k \in Nat
      BY MapBlock
    <3>2. QED
      BY <1>2, <3>1 DEF MapAt, ClearedAt
  <2> DEFINE m2 == bitmap \ H
             n2 == Forget(inode, H)
             b2 == Forget(b1, H)
             x2 == Forget(indirect, H)
             t2 == Forget(data, H)
  <2>3. ImgAt(bitmap, inode, b1, indirect, data, bitmap \ G, k) = Img(m2, n2, b2, x2, t2)
    BY <2>2, Zenon DEF ImgAt
  <2> HIDE DEF H
  <2>4. Step(m2, n2, b2, x2, t2, 0, h)
    BY <2>1, UnnamedStep
  <2> HIDE DEF m2, n2, b2, x2, t2
  <2>5. Fine(Img(m2, n2, b2, x2, t2), F, 0)
    BY <2>4, StepFine
  <2>6. QED
    BY <2>3, <2>5
<1>4. Trail(Img(bitmap, inode, b1, indirect, data), MapWrites(bitmap \ G),
            ImgAt(bitmap, inode, b1, indirect, data, bitmap \ G, SFS_BITBLOCKS), F, 0)
  BY <1>1, <1>3, MapTrail
<1>5. ImgAt(bitmap, inode, b1, indirect, data, bitmap \ G, SFS_BITBLOCKS)
        = Without(G, bitmap, inode, b1, indirect, data)
  <2>1. MapAt(bitmap, bitmap \ G, SFS_BITBLOCKS) = bitmap \ G
        /\ ClearedAt(bitmap, bitmap \ G, SFS_BITBLOCKS) = bitmap \ (bitmap \ G)
    BY <1>1, MapEnds, Zenon
  <2>2. bitmap \ (bitmap \ G) = G
    BY DEF Unnamed
  <2>3. QED
    BY <2>1, <2>2 DEF ImgAt, Without
<1>6. QED
  BY <1>4, <1>5

\* The size of the working directory is written last.
Fewer == [inode EXCEPT ![cwd].size = @ - 1]

LEMMA FewerSane ==
    ASSUME Inside, NEW h, NEW b1, NEW G, Unnamed(h, b1, G),
           NEW n2, n2 = Forget(inode, G), NEW n3, n3 = Forget(Fewer, G), NEW b2, b2 = Forget(b1, G),
           NEW x2, x2 = Forget(indirect, G), NEW t2, t2 = Forget(data, G), NEW m2, m2 = bitmap \ G
    PROVE  /\ Step(m2, n3, b2, x2, t2, 0, h)
           /\ Put(n2, cwd, n3[cwd]) = n3 /\ h \notin DOMAIN n3
           /\ cwd \in LiveIn(n3, b2, 0) /\ n3[cwd].type = "dir" /\ n3[cwd].direct = inode[cwd].direct
           /\ DirsWritten(n3, b2)
<1>1. /\ SaneDisk(Img(bitmap, inode, b1, indirect, data), 0)
      /\ LiveIn(inode, b1, 0) = LiveIn(inode, dirBlock, 0) \ {h}
      /\ h # cwd /\ h \in G /\ G \cap System = {} /\ Outside(inode, b1, indirect, 0, G)
      /\ Cardinality(UsedSlots(inode, EntriesRead(b1), cwd)) + 1 <= inode[cwd].size
      /\ DOMAIN b1 = DOMAIN dirBlock
  BY DEF Unnamed
<1>2. /\ cwd \in LiveIn(inode, b1, 0) /\ cwd \in DOMAIN inode /\ inode[cwd].type = "dir"
      /\ inode[cwd].size \in Nat
  BY <1>1, Here
<1>3. /\ SaneDisk(Without(G, bitmap, inode, b1, indirect, data), 0)
      /\ LiveIn(n2, b2, 0) = LiveIn(inode, b1, 0)
      /\ UsedSlots(n2, EntriesRead(b2), cwd) = UsedSlots(inode, EntriesRead(b1), cwd)
  BY <1>1, <1>2, WithoutSane
<1>4. SaneDisk(Img(m2, n2, b2, x2, t2), 0)
  BY <1>3 DEF Without
<1>5. Step(m2, n2, b2, x2, t2, 0, h)
  BY UnnamedStep DEF Inside
<1>6. cwd \notin G
  BY <1>1, <1>2 DEF Outside
<1>7. inode[cwd].size - 1 \in Nat /\ Cardinality(UsedSlots(inode, EntriesRead(b1), cwd)) <= inode[cwd].size - 1
  <2>1. Cardinality(UsedSlots(inode, EntriesRead(b1), cwd)) \in Nat
    BY UsedFinite
  <2>2. QED
    BY <1>1, <1>2, <2>1
<1>8. /\ Fewer \in [DOMAIN inode -> InodeRecords] /\ DOMAIN Fewer = DOMAIN inode
      /\ \A i \in DOMAIN inode :
            /\ Fewer[i].type = inode[i].type /\ Fewer[i].indirect = inode[i].indirect
            /\ Fewer[i].direct = inode[i].direct
            /\ i # cwd => Fewer[i] = inode[i]
      /\ Fewer[cwd].size = inode[cwd].size - 1
  <2>1. inode \in [DOMAIN inode -> InodeRecords]
    BY DiskIs DEF Tables, Inside
  <2>2. Fewer = Resized(inode, cwd, inode[cwd].size - 1)
    BY DEF Fewer, Resized
  <2>3. QED
    BY <1>2, <1>7, <2>1, <2>2, ResizedAt
<1>9. /\ DOMAIN n2 = DOMAIN inode \ G /\ DOMAIN n3 = DOMAIN inode \ G /\ IsFunction(n3)
      /\ \A i \in DOMAIN inode \ G : n2[i] = inode[i] /\ n3[i] = Fewer[i]
  BY <1>8 DEF Forget, Restrict, IsFunction
<1>10. Altered(n2, n3, cwd) /\ n3[cwd].direct = n2[cwd].direct /\ n3[cwd].size = inode[cwd].size - 1
  <2>1. n3 \in [DOMAIN n2 -> InodeRecords]
    BY <1>8, <1>9 DEF IsFunction
  <2>2. QED
    BY <1>2, <1>6, <1>8, <1>9, <2>1 DEF Altered
<1>11. /\ SaneDisk(Img(m2, n3, b2, x2, t2), 0)
       /\ \A i : LiveIn(n3, b2, i) = LiveIn(n2, b2, i)
       /\ \A i : FilesOf(n3, b2, x2, t2, i) = FilesOf(n2, b2, x2, t2, i)
  <2> DEFINE e2 == EntriesRead(b2)
             y2 == RowsRead(x2)
             z2 == DataRead(t2)
             X2 == DOMAIN x2
             T2 == DOMAIN t2
  <2>1. /\ Tables(n2, b2, x2) /\ DOMAIN b2 \subseteq m2 /\ IsFunction(t2)
        /\ Sane(n2, e2, y2, z2, m2, X2, T2, 0)
    BY <1>4, SaneDiskIs DEF SaneImg
  <2>2. cwd \in Live(n2, e2, 0) /\ n2[cwd].type = "dir"
    BY <1>2, <1>3, <1>6, <1>9 DEF LiveIn
  <2>3. Cardinality(UsedSlots(n2, e2, cwd)) <= n3[cwd].size
    BY <1>3, <1>7, <1>10
  <2>4. Tables(n3, b2, x2)
    BY <1>10, <2>1 DEF Tables, Altered
  <2> HIDE DEF e2, y2, z2, X2, T2
  <2>5. /\ Sane(n3, e2, y2, z2, m2, X2, T2, 0)
        /\ \A i : Live(n3, e2, i) = Live(n2, e2, i)
        /\ \A i : Files(n3, e2, y2, z2, i) = Files(n2, e2, y2, z2, i)
    BY <1>10, <2>1, <2>2, <2>3, ResizeSane
  <2>6. QED
    BY <2>1, <2>4, <2>5, SaneDiskIs DEF SaneImg, LiveIn, FilesOf, e2, y2, z2, X2, T2
<1>12. Step(m2, n3, b2, x2, t2, 0, h)
  BY <1>5, <1>11 DEF Step
<1>13. Put(n2, cwd, n3[cwd]) = n3
  <2>2. cwd \in DOMAIN n2
    BY <1>2, <1>6, <1>9
  <2>3. \A i \in DOMAIN n2 : i # cwd => n3[i] = n2[i]
    BY <1>10 DEF Altered
  <2>4. SameBut(n2, n3, cwd)
    BY <1>9, <2>2, <2>3, Zenon DEF SameBut
  <2>5. QED
    BY <2>4, SameWhole, Zenon
<1>14. h \notin DOMAIN n3 /\ cwd \in LiveIn(n3, b2, 0) /\ n3[cwd].type = "dir" /\ n3[cwd].direct = inode[cwd].direct
  BY <1>1, <1>2, <1>3, <1>6, <1>8, <1>9, <1>11
<1>15. DirsWritten(n3, b2)
  <2>1. ASSUME NEW d \in LiveIn(n3, b2, 0), NEW k \in Rows, n3[d].type = "dir", n3[d].direct[k] # 0
        PROVE  n3[d].direct[k] \in DOMAIN b2
    <3>1. d \in LiveIn(inode, b1, 0) /\ d \in LiveIn(inode, dirBlock, 0) /\ d \notin G
      BY <1>1, <1>3, <1>11, <2>1 DEF Outside
    <3>2. d \in DOMAIN inode \ G
      BY <3>1 DEF LiveIn, Live
    <3>3. inode[d].type = "dir" /\ inode[d].direct = n3[d].direct
      BY <1>8, <1>9, <2>1, <3>2
    <3>4. inode[d].direct[k] \in DOMAIN dirBlock
      BY <2>1, <3>1, <3>3 DEF Inside, Rest, DirsWritten, LiveIn
    <3>5. LeadsTo(inode, EntriesRead(b1), RowsRead(indirect), d, inode[d].direct[k])
      BY <2>1, <3>3, PlacesLead, Zenon
    <3>6. inode[d].direct[k] \notin G
      BY <1>1, <3>1, <3>5 DEF Outside
    <3>7. DOMAIN b2 = DOMAIN b1 \ G
      BY DEF Forget, Restrict
    <3>8. QED
      BY <1>1, <3>3, <3>4, <3>6, <3>7
  <2>2. QED
    BY <2>1 DEF DirsWritten, LiveIn
<1>16. QED
  BY <1>12, <1>13, <1>14, <1>15

LEMMA RemoveTrail ==
    ASSUME Inside, NEW path, Exists(path), NEW k, NEW j, k = Slot(path)[1], j = Slot(path)[2],
           NEW q, q = inode[cwd].direct[k], Gives(EntriesRead(dirBlock), q, j),
           NEW h, h = Ino(path), Nameless(inode, EntriesRead(dirBlock), h),
           NEW G, Owned(h, G), Release(path, G), cwd' = cwd
    PROVE  Rest' /\ Trail(Disk, RemoveWrites, Disk', Disk', 0)
<1> DEFINE b1 == EntryPut(dirBlock, q, j, FreeEntry)
           n2 == Forget(inode, G)
           n3 == Forget(Fewer, G)
           b2 == Forget(b1, G)
           x2 == Forget(indirect, G)
           t2 == Forget(data, G)
           m2 == bitmap \ G
<1>1. /\ k \in Rows /\ j \in Columns /\ q # 0 /\ q \in Blocks /\ q \in DOMAIN dirBlock
      /\ dirBlock[q][j].sfd_ino # 0
      /\ Ino(path) = dirBlock[q][j].sfd_ino
      /\ EntriesRead(dirBlock)[q] = dirBlock[q]
  BY NamedSlot
<1>2. /\ Tables(inode, dirBlock, indirect) /\ IsFunction(data) /\ DOMAIN dirBlock \subseteq bitmap
      /\ Disk = Img(bitmap, inode, dirBlock, indirect, data)
      /\ SaneDisk(Img(bitmap, inode, dirBlock, indirect, data), 0)
  BY DiskIs DEF Inside
<1>3. bitmap' = m2 /\ inode' = n3 /\ dirBlock' = b2 /\ indirect' = x2 /\ data' = t2
  BY DEF Release, DirBlocksWithout, EntryPut, Fewer
<1>4. EntrySet(dirBlock, b1, q, j, FreeEntry) /\ FreeEntry # dirBlock[q][j]
  <2>1. FreeEntry \in EntryRecords /\ FreeEntry.sfd_ino = 0
    BY EmptyBlock, Zenon
  <2>2. QED
    BY <1>1, <1>2, <2>1, EntryPutAt, Zenon DEF Tables
<1> HIDE DEF b1
<1>5. h = EntriesRead(dirBlock)[q][j].sfd_ino
  BY <1>1, Zenon
<1>6. Unnamed(h, b1, G)
  BY <1>1, <1>4, <1>5, UnnamedSane, Zenon
<1>7. /\ Step(m2, n3, b2, x2, t2, 0, h)
      /\ Put(n2, cwd, n3[cwd]) = n3 /\ h \notin DOMAIN n3
      /\ cwd \in LiveIn(n3, b2, 0) /\ n3[cwd].type = "dir" /\ n3[cwd].direct = inode[cwd].direct
      /\ DirsWritten(n3, b2)
  BY <1>6, FewerSane
<1> HIDE DEF n2, n3, b2, x2, t2, m2
<1>8. Disk' = Img(m2, n3, b2, x2, t2)
  BY <1>3, DiskNext
<1>9. Leaves(Disk', h, 0)
  BY <1>7, <1>8 DEF Leaves, Step
<1>10. /\ SaneDisk(Img(bitmap, inode, b1, indirect, data), 0)
       /\ FilesOf(inode, b1, indirect, data, h) = FilesOf(inode, dirBlock, indirect, data, h)
       /\ LiveIn(inode, b1, 0) = LiveIn(inode, dirBlock, 0) \ {h}
       /\ h # cwd /\ Outside(inode, b1, indirect, 0, G)
  BY <1>6 DEF Unnamed
<1>11. Changed = q /\ Put(dirBlock, q, b1[q]) = b1 /\ dirBlock'[q] = b1[q]
  <2>1. ASSUME NEW l \in Rows, inode[cwd].direct[l] # 0
        PROVE  dirBlock'[inode[cwd].direct[l]] = b1[inode[cwd].direct[l]]
    <3>1. cwd \in LiveIn(inode, b1, 0)
      BY <1>10, Here
    <3>2. LeadsTo(inode, EntriesRead(b1), RowsRead(indirect), cwd, inode[cwd].direct[l])
      BY <2>1, PlacesLead, Zenon
    <3>3. inode[cwd].direct[l] \notin G
      BY <1>10, <3>1, <3>2 DEF Outside
    <3>4. inode[cwd].direct[l] \in DOMAIN b1
      BY <1>4, <2>1, Here DEF EntrySet
    <3>5. b2[inode[cwd].direct[l]] = b1[inode[cwd].direct[l]]
      BY <3>3, <3>4 DEF b2, Forget, Restrict
    <3>6. QED
      BY <1>3, <3>5
  <2>2. inode'[cwd].direct = inode[cwd].direct
    BY <1>3, <1>7
  <2>3. q = inode[cwd].direct[k] /\ q # 0 /\ k \in Rows /\ j \in Columns
    BY <1>1, Zenon
  <2>4. EntrySet(dirBlock, b1, q, j, FreeEntry) /\ FreeEntry # dirBlock[q][j]
    BY <1>4
  <2>5. BlocksAs(b1)
    BY <2>1, <2>2, Zenon DEF BlocksAs
  <2>6. QED
    BY <2>3, <2>4, <2>5, EntryChanges, Zenon
<1>12. Fine(Disk, Disk', 0) /\ Fine(Img(bitmap, inode, b1, indirect, data), Disk', 0) /\ Fine(Disk', Disk', 0)
  <2>1. /\ Step(bitmap, inode, dirBlock, indirect, data, 0, h)
        /\ Step(bitmap, inode, b1, indirect, data, 0, h)
    BY <1>2, <1>10 DEF Step
  <2>2. QED
    BY <1>2, <1>7, <1>8, <1>9, <2>1, StepFine
<1>13. Trail(Disk, <<DirWrite(Changed)>>, Img(bitmap, inode, b1, indirect, data), Disk', 0)
  <2>1. DirWrite(Changed) = Write("dirBlock", q, b1[q])
    BY <1>11 DEF DirWrite
  <2>2. Img(bitmap, inode, b1, indirect, data) = Written(Disk, Write("dirBlock", q, b1[q]))
    BY <1>2, <1>11, WrittenIs
  <2>3. QED
    BY <1>12, <2>1, <2>2, TrailOne
<1>14. Trail(Img(bitmap, inode, b1, indirect, data), MapWrites(bitmap'), Img(m2, n2, b2, x2, t2), Disk', 0)
  <2>1. Without(G, bitmap, inode, b1, indirect, data) = Img(m2, n2, b2, x2, t2)
    BY DEF Without, m2, n2, b2, x2, t2
  <2>2. bitmap' = bitmap \ G
    BY <1>3 DEF m2
  <2>3. QED
    BY <1>6, <1>9, <2>1, <2>2, UnnamedTrail DEF Inside
<1>15. Trail(Img(m2, n2, b2, x2, t2), <<InodeWrite(cwd)>>, Disk', Disk', 0)
  <2>1. InodeWrite(cwd) = Write("inode", cwd, n3[cwd])
    BY <1>3 DEF InodeWrite
  <2>2. Disk' = Written(Img(m2, n2, b2, x2, t2), Write("inode", cwd, n3[cwd]))
    BY <1>7, <1>8, WrittenIs
  <2>3. Fine(Img(m2, n2, b2, x2, t2), Disk', 0)
    BY <1>14, TrailEnds
  <2>4. QED
    BY <1>12, <2>1, <2>2, <2>3, TrailOne
<1>16. Trail(Disk, RemoveWrites, Disk', Disk', 0)
  <2>1. Trail(Disk, <<DirWrite(Changed)>> \o MapWrites(bitmap'), Img(m2, n2, b2, x2, t2), Disk', 0)
    BY <1>13, <1>14, TrailCat
  <2>2. QED
    BY <1>15, <2>1, TrailCat DEF RemoveWrites
<1>17. Rest'
  <2>1. SaneDisk(Img(m2, n3, b2, x2, t2), 0)
    BY <1>7 DEF Step
  <2>2. QED
    BY <1>3, <1>7, <2>1, RestNext
<1>18. QED
  BY <1>16, <1>17

LEMMA RmTrail ==
    ASSUME Inside, NEW path \in Paths, Rm(path), disk' # disk
    PROVE  Rest' /\ Trail(Disk, RemoveWrites, Disk', Disk', 0)
<1> DEFINE k == Slot(path)[1]
           j == Slot(path)[2]
           q == inode[cwd].direct[k]
           h == Ino(path)
           e == EntriesRead(dirBlock)
           y == RowsRead(indirect)
           G == RmBlocks(h)
<1>1. Exists(path) /\ inode[h].type = "file" /\ Release(path, G) /\ cwd' = cwd
  BY DEF Rm, Refuse, disk, IsFile
<1>2. /\ h \in LiveIn(inode, dirBlock, 0)
      /\ path \notin Dots => Gives(e, q, j)
      /\ path \in Dots => inode[h].type = "dir"
  BY <1>1, NamedLive
<1>3. /\ Typed(inode, e, y, bitmap) /\ FilesHeld(inode, e, y, DOMAIN indirect, DOMAIN data, 0)
      /\ 0 \notin DOMAIN inode
  BY DiskIs DEF SaneImg, Sane, Inside
<1>4. h \in Live(inode, e, 0) /\ h # 0
  BY <1>2, <1>3 DEF LiveIn, Live
<1>5. /\ inode[h].direct \in [Rows -> Blocks] /\ inode[h].indirect \in Blocks
  BY <1>3, <1>4, LiveFacts
<1> HIDE DEF k, j, q, h, e, y
<1>6. Gives(e, q, j) /\ Nameless(inode, e, h)
  BY <1>1, <1>2 DEF Nameless
<1>7. ASSUME NEW c \in G
      PROVE  c = h \/ LeadsTo(inode, e, y, h, c)
  <2>1. /\ \A r \in Rows : inode[h].direct[r] # 0 => LeadsTo(inode, e, y, h, inode[h].direct[r])
        /\ inode[h].indirect # 0 => LeadsTo(inode, e, y, h, inode[h].indirect)
        /\ inode[h].indirect # 0 => \A l \in IndirectRows :
              y[inode[h].indirect][l] # 0 => LeadsTo(inode, e, y, h, y[inode[h].indirect][l])
    BY PlacesLead, Zenon
  <2>2. /\ c # 0
        /\ \/ c = h \/ c = inode[h].indirect \/ c \in Range(inode[h].direct)
           \/ inode[h].indirect # 0 /\ c \in Range(indirect[inode[h].indirect])
    BY <1>7 DEF RmBlocks
  <2>3. CASE c \in Range(inode[h].direct)
    <3>1. PICK r \in Rows : c = inode[h].direct[r]
      BY <1>5, <2>3 DEF Range
    <3>2. QED
      BY <2>1, <2>2, <3>1
  <2>4. CASE inode[h].indirect # 0 /\ c \in Range(indirect[inode[h].indirect])
    <3>1. inode[h].indirect \in DOMAIN indirect
      BY <1>1, <1>3, <1>4, <2>4 DEF FilesHeld, FileHeld
    <3>2. y[inode[h].indirect] = indirect[inode[h].indirect]
      BY <1>5, <3>1 DEF y, RowsRead, Reading
    <3>3. y[inode[h].indirect] \in [IndirectRows -> Blocks]
      BY <1>3, <1>5, LiveFacts
    <3>4. PICK l \in IndirectRows : c = y[inode[h].indirect][l]
      BY <2>4, <3>2, <3>3 DEF Range
    <3>5. QED
      BY <2>1, <2>2, <2>4, <3>4
  <2>5. QED
    BY <2>1, <2>2, <2>3, <2>4
<1>8. Owned(h, G)
  <2>1. h \in G
    BY <1>4 DEF RmBlocks
  <2> HIDE DEF G
  <2>2. QED
    BY <1>7, <2>1 DEF Owned, e, y
<1> HIDE DEF G
<1>9. QED
  <2>1. k = Slot(path)[1] /\ j = Slot(path)[2] /\ q = inode[cwd].direct[k] /\ h = Ino(path)
    BY DEF k, j, q, h
  <2>2. Gives(EntriesRead(dirBlock), q, j) /\ Nameless(inode, EntriesRead(dirBlock), h)
    BY <1>6 DEF e
  <2>3. QED
    BY <1>1, <1>8, <2>1, <2>2, RemoveTrail

LEMMA RmdirTrail ==
    ASSUME Inside, NEW path \in Paths, Rmdir(path), ~RootLost', disk' # disk
    PROVE  Rest' /\ Trail(Disk, RemoveWrites, Disk', Disk', 0)
<1> DEFINE k == Slot(path)[1]
           j == Slot(path)[2]
           q == inode[cwd].direct[k]
           h == Ino(path)
           e == EntriesRead(dirBlock)
           y == RowsRead(indirect)
           G == RmdirBlocks(h)
<1>1. /\ Exists(path) /\ path # "." /\ inode[h].type # "file" /\ ~(inode[h].size > 2)
      /\ Release(path, G) /\ cwd' = cwd
  BY DEF Rmdir, Refuse, disk, IsFile, HasEntries
<1>2. /\ h \in LiveIn(inode, dirBlock, 0)
      /\ path \notin Dots => Gives(e, q, j)
      /\ path = ".." => h = SFS_ROOT_LOCATION \/ Holds(inode, e, h, cwd)
  BY <1>1, NamedLive
<1>3. /\ Typed(inode, e, y, bitmap) /\ Sane(inode, e, y, DataRead(data), bitmap, DOMAIN indirect, DOMAIN data, 0)
      /\ DirsFormed(inode, e, 0)
  BY DiskIs DEF SaneImg, Sane, Inside
<1>4. h \in Live(inode, e, 0)
  BY <1>2 DEF LiveIn
<1>5. inode[h].type = "dir" /\ inode[h].size <= 2 /\ 1 \in Rows
  <2>1. inode[h].type \in {"file", "dir"} /\ inode[h].size \in Nat
    BY <1>3, <1>4, LiveFacts
  <2>2. QED
    BY <1>1, <2>1, SfsAssumption DEF Rows
<1> HIDE DEF k, j, q, h, e, y
<1>6. Nameless(inode, e, h)
  BY <1>3, <1>4, <1>5, SizeTwo
<1>7. h # SFS_ROOT_LOCATION
  <2>1. SFS_ROOT_LOCATION \in bitmap' /\ bitmap' = bitmap \ G
    BY <1>1 DEF RootLost, Release
  <2>2. QED
    BY <2>1 DEF RmdirBlocks
<1>8. Gives(e, q, j)
  <2>1. path # ".."
    BY <1>2, <1>5, <1>6, <1>7 DEF Holds, Nameless
  <2>2. QED
    BY <1>1, <1>2, <2>1 DEF Dots
<1>9. Owned(h, G)
  <2>1. inode[h].direct[1] # 0
    BY <1>3, <1>4, <1>5 DEF DirsFormed, DotsIn
  <2>2. LeadsTo(inode, e, y, h, inode[h].direct[1])
    BY <1>5, <2>1, PlacesLead, Zenon
  <2>3. QED
    BY <2>2 DEF Owned, RmdirBlocks, e, y
<1> HIDE DEF G
<1>10. QED
  <2>1. k = Slot(path)[1] /\ j = Slot(path)[2] /\ q = inode[cwd].direct[k] /\ h = Ino(path)
    BY DEF k, j, q, h
  <2>2. Gives(EntriesRead(dirBlock), q, j) /\ Nameless(inode, EntriesRead(dirBlock), h)
    BY <1>6, <1>8 DEF e
  <2>3. QED
    BY <1>1, <1>9, <2>1, <2>2, RemoveTrail

----------------------------------------------------------------------------
\* cpin: what a file reads as when some of its blocks have been stored.

\* The copy of h into the blocks s: k of them are stored, inode r and table x
\* name some of these.
Copying(h, s, k, r, x, t) ==
    LET u == Stored(s)
        file == HostFile(h)
        N == SFS_NDIRECT
    IN  /\ h \in HostFiles /\ file # NoFile /\ k \in 0 .. Len(u)
        /\ r \in InodeRecords /\ r.type = "file" /\ r.size <= file.size
        /\ \A l \in Rows : r.direct[l] # 0 => l <= k /\ r.direct[l] = u[l]
        /\ r.indirect # 0 =>
              /\ r.indirect \in DOMAIN x /\ Len(s) > N /\ r.indirect = s[N + 1]
              /\ \A l \in IndirectRows :
                    x[r.indirect][l] # 0 => N + l <= k /\ x[r.indirect][l] = u[N + l]
        /\ \A l \in 1 .. k : u[l] \in DOMAIN t /\ (l <= Len(file.chunks) => t[u[l]] = file.chunks[l])

\* What it reads as is the start of h.
LEMMA CopyReads ==
    ASSUME NEW s \in Seq(Blocks), Len(s) <= MostBlocks + 1, NEW h, NEW k, NEW r, NEW x, NEW t,
           Copying(h, s, k, r, x, t), x \in [DOMAIN x -> [IndirectRows -> Blocks]],
           NEW n, NEW f, n[f] = r
    PROVE  FromHost(ContentIn(n, RowsRead(x), DataRead(t), f))
<1> DEFINE N == SFS_NDIRECT
           u == Stored(s)
           file == HostFile(h)
           y == RowsRead(x)
           z == DataRead(t)
           p == UpToMissing(r.direct)
           q == UpToMissing(y[r.indirect])
           v == BlocksIn(n, y, f)
<1>1. /\ h \in HostFiles /\ file # NoFile /\ k \in 0 .. Len(u)
      /\ r \in InodeRecords /\ r.size <= file.size
      /\ \A l \in Rows : r.direct[l] # 0 => l <= k /\ r.direct[l] = u[l]
      /\ r.indirect # 0 =>
            /\ r.indirect \in DOMAIN x
            /\ \A l \in IndirectRows :
                  x[r.indirect][l] # 0 => N + l <= k /\ x[r.indirect][l] = u[N + l]
      /\ \A l \in 1 .. k : u[l] \in DOMAIN t /\ (l <= Len(file.chunks) => t[u[l]] = file.chunks[l])
  BY DEF Copying
<1>2. /\ N \in Nat /\ SFS_DBPERIDB \in Nat /\ u \in Seq(Blocks) /\ Len(u) \in Nat
      /\ r.direct \in [1 .. N -> Blocks] /\ r.indirect \in Blocks /\ r.size \in Nat
  BY <1>1, SfsAssumption, StoredAt DEF InodeRecords
<1>3. /\ p \in Seq(Blocks) /\ Len(p) \in 0 .. N
      /\ \A l \in 1 .. Len(p) : p[l] = r.direct[l] /\ r.direct[l] # 0
  BY <1>2, UpToMissingIs
<1> HIDE DEF u, file, p
<1>4. \A l \in 1 .. Len(p) : l \in 1 .. k /\ p[l] = u[l]
  <2>1. ASSUME NEW l \in 1 .. Len(p)
        PROVE  l \in 1 .. k /\ p[l] = u[l]
    <3>1. l \in Rows
      BY <1>2, <1>3 DEF Rows
    <3>2. p[l] = r.direct[l] /\ r.direct[l] # 0
      BY <1>3
    <3>3. l <= k /\ r.direct[l] = u[l]
      BY <1>1, <3>1, <3>2
    <3>4. QED
      BY <1>1, <1>2, <3>2, <3>3
  <2>2. QED
    BY <2>1
<1>5. v \in Seq(Blocks) /\ \A l \in 1 .. Len(v) : l \in 1 .. k /\ v[l] = u[l]
  <2>1. CASE ~(Len(p) = N /\ r.indirect # 0)
    <3>1. v = p
      BY <2>1 DEF BlocksIn, p
    <3>2. QED
      BY <1>3, <1>4, <3>1
  <2>2. CASE Len(p) = N /\ r.indirect # 0
    <3>1. y[r.indirect] = x[r.indirect] /\ x[r.indirect] \in [IndirectRows -> Blocks]
      BY <1>1, <1>2, <2>2 DEF RowsRead, Reading
    <3>2. y[r.indirect] \in [1 .. SFS_DBPERIDB -> Blocks]
      BY <3>1 DEF IndirectRows
    <3>3. /\ q \in Seq(Blocks) /\ Len(q) \in 0 .. SFS_DBPERIDB
          /\ \A l \in 1 .. Len(q) : q[l] = y[r.indirect][l] /\ y[r.indirect][l] # 0
      BY <1>2, <3>2, UpToMissingIs
    <3>4. v = p \o q
      BY <2>2 DEF BlocksIn, p
    <3> HIDE DEF q
    <3>5. \A l \in 1 .. Len(q) : N + l \in 1 .. k /\ q[l] = u[N + l]
      <4>1. ASSUME NEW l \in 1 .. Len(q)
            PROVE  N + l \in 1 .. k /\ q[l] = u[N + l]
        <5>1. l \in IndirectRows
          BY <1>2, <3>3 DEF IndirectRows
        <5>2. q[l] = x[r.indirect][l] /\ x[r.indirect][l] # 0
          BY <3>1, <3>3
        <5>3. N + l <= k /\ x[r.indirect][l] = u[N + l]
          BY <1>1, <2>2, <5>1, <5>2
        <5>4. QED
          BY <1>1, <1>2, <3>3, <5>2, <5>3
      <4>2. QED
        BY <4>1
    <3>6. /\ p \o q \in Seq(Blocks) /\ Len(p \o q) = N + Len(q)
          /\ \A l \in 1 .. N : (p \o q)[l] = p[l]
          /\ \A l \in N + 1 .. N + Len(q) : (p \o q)[l] = q[l - N]
      <4>1. /\ p \o q \in Seq(Blocks) /\ Len(p \o q) = Len(p) + Len(q)
            /\ \A l \in 1 .. Len(p) : (p \o q)[l] = p[l]
            /\ \A l \in Len(p) + 1 .. Len(p) + Len(q) : (p \o q)[l] = q[l - Len(p)]
        BY <1>3, <3>3
      <4>2. QED
        BY <2>2, <4>1
    <3>7. ASSUME NEW l \in 1 .. N + Len(q)
          PROVE  l \in 1 .. k /\ (p \o q)[l] = u[l]
      <4>1. CASE l <= N
        <5>1. l \in 1 .. Len(p) /\ l \in 1 .. N
          BY <1>2, <2>2, <3>3, <4>1
        <5>2. QED
          BY <1>4, <3>6, <5>1
      <4>2. CASE ~(l <= N)
        <5>1. l \in N + 1 .. N + Len(q) /\ l - N \in 1 .. Len(q) /\ N + (l - N) = l
          BY <1>2, <3>3, <4>2
        <5>2. QED
          BY <3>5, <3>6, <5>1
      <4>3. QED
        BY <4>1, <4>2, Zenon
    <3>8. QED
      BY <3>4, <3>6, <3>7
  <2>3. QED
    BY <2>1, <2>2
<1> HIDE DEF v
<1>6. \A l \in 1 .. Len(v) : l <= Len(file.chunks) => z[v[l]] = file.chunks[l]
  <2>1. ASSUME NEW l \in 1 .. Len(v), l <= Len(file.chunks)
        PROVE  z[v[l]] = file.chunks[l]
    <3>1. l \in 1 .. k /\ v[l] = u[l] /\ v[l] \in Blocks
      BY <1>5
    <3>2. u[l] \in DOMAIN t /\ t[u[l]] = file.chunks[l]
      BY <1>1, <2>1, <3>1
    <3>3. QED
      BY <3>1, <3>2 DEF DataRead, Reading
  <2>2. QED
    BY <2>1
<1>7. ContentIn(n, y, z, f) = ContentOf(r.size, v, z)
  BY DEF ContentIn, v
<1> HIDE DEF z, y
<1>8. FromHost(ContentOf(r.size, v, z))
  BY <1>1, <1>2, <1>5, <1>6, ContentStart, Zenon DEF file
<1>9. QED
  BY <1>7, <1>8 DEF y, z

----------------------------------------------------------------------------
\* cpin: an image in the middle of the copy.

\* All that f leads to is marked.
Owns(n, b, x, m, f) == \A q : LeadsTo(n, EntriesRead(b), RowsRead(x), f, q) => q \in m

\* The places of the copy name different blocks of s.
LEMMA CopyPlaces ==
    ASSUME NEW m, NEW s, Untaken(m, MostBlocks + 1, s), NEW h, NEW k, NEW r, NEW x, NEW t,
           Copying(h, s, k, r, x, t), NEW n, NEW f, n[f] = r, NEW e, NEW y, y = RowsRead(x)
    PROVE  /\ \A i, j, q : q # 0 /\ Place(n, e, y, f, i, j, q) => q \in ToSet(s)
           /\ \A i, j, a, b, q :
                 q # 0 /\ Place(n, e, y, f, i, j, q) /\ Place(n, e, y, f, a, b, q) => i = a /\ j = b
<1> DEFINE N == SFS_NDIRECT
           u == Stored(s)
           at(i, j) == IF i # 0 THEN i ELSE N + 1 + j
<1>1. /\ s \in Seq(Blocks) /\ Len(s) \in Nat /\ Len(s) <= MostBlocks + 1 /\ N \in Nat
      /\ \A i, j \in 1 .. Len(s) : s[i] = s[j] => i = j
  BY SfsAssumption DEF Untaken
<1>2. /\ Len(u) \in Nat /\ \A l \in 1 .. Len(u) : Where(l) \in 1 .. Len(s) /\ u[l] = s[Where(l)]
  BY <1>1, StoredAt
<1>3. /\ r \in InodeRecords /\ r.type = "file" /\ k \in 0 .. Len(u)
      /\ \A l \in Rows : r.direct[l] # 0 => l <= k /\ r.direct[l] = u[l]
      /\ r.indirect # 0 =>
            /\ r.indirect \in DOMAIN x /\ Len(s) > N /\ r.indirect = s[N + 1]
            /\ \A l \in IndirectRows :
                  x[r.indirect][l] # 0 => N + l <= k /\ x[r.indirect][l] = u[N + l]
  BY DEF Copying
<1> HIDE DEF u
<1>4. ASSUME NEW i, NEW j, NEW q, q # 0, Place(n, e, y, f, i, j, q)
      PROVE  /\ i \in Rows \/ (i = 0 /\ (j = 0 \/ j \in IndirectRows))
             /\ i \in Rows => j = 0
             /\ at(i, j) \in 1 .. Len(s) /\ q = s[at(i, j)]
  <2>1. CASE i \in Rows /\ j = 0 /\ q = r.direct[i]
    <3>1. i \in 1 .. N /\ i # 0
      BY <2>1, <1>1 DEF Rows
    <3>2. i <= k /\ q = u[i]
      BY <1>3, <1>4, <2>1
    <3>3. i \in 1 .. Len(u) /\ Where(i) = i
      BY <1>1, <1>2, <1>3, <3>1, <3>2 DEF Where
    <3>4. QED
      BY <1>2, <2>1, <3>1, <3>2, <3>3
  <2>2. CASE i = 0 /\ j = 0 /\ q = r.indirect
    <3>1. Len(s) > N /\ q = s[N + 1]
      BY <1>3, <1>4, <2>2
    <3>2. N + 1 \in 1 .. Len(s) /\ at(i, j) = N + 1
      BY <1>1, <2>2, <3>1
    <3>3. 0 \notin Rows
      BY DEF Rows
    <3>4. QED
      BY <2>2, <3>1, <3>2, <3>3
  <2>3. CASE i = 0 /\ j \in IndirectRows /\ r.indirect # 0 /\ q = y[r.indirect][j]
    <3>1. q = x[r.indirect][j]
      BY <1>3, <2>3 DEF RowsRead, Reading, InodeRecords
    <3>2. N + j <= k /\ q = u[N + j]
      BY <1>3, <1>4, <2>3, <3>1
    <3>3. j \in Nat /\ j > 0 /\ 0 \notin Rows
      BY <2>3 DEF IndirectRows, Rows
    <3>4. N + j \in 1 .. Len(u) /\ Where(N + j) = N + 1 + j /\ at(i, j) = N + 1 + j
      BY <1>1, <1>2, <1>3, <2>3, <3>2, <3>3 DEF Where
    <3>5. QED
      BY <1>2, <2>3, <3>2, <3>3, <3>4
  <2>4. QED
    BY <1>3, <1>4, <2>1, <2>2, <2>3 DEF Place
<1>5. ToSet(s) = {s[l] : l \in 1 .. Len(s)}
  BY <1>1 DEF ToSet
<1>6. ASSUME NEW i, NEW j, NEW a, NEW b, NEW q, q # 0, Place(n, e, y, f, i, j, q), Place(n, e, y, f, a, b, q)
      PROVE  i = a /\ j = b
  <2>1. /\ i \in Rows \/ (i = 0 /\ (j = 0 \/ j \in IndirectRows))
        /\ i \in Rows => j = 0
        /\ a \in Rows \/ (a = 0 /\ (b = 0 \/ b \in IndirectRows))
        /\ a \in Rows => b = 0
    BY <1>4, <1>6
  <2>2. at(i, j) \in 1 .. Len(s) /\ q = s[at(i, j)] /\ at(a, b) \in 1 .. Len(s) /\ q = s[at(a, b)]
    BY <1>4, <1>6
  <2>3. at(i, j) = at(a, b)
    BY <1>1, <2>2, Zenon
  <2>4. QED
    BY <1>1, <2>1, <2>3 DEF Rows, IndirectRows
<1>7. QED
  BY <1>4, <1>5, <1>6

\* Inode r is at f, table and data have changed in the blocks of s only.
InCopy(c, f, path, n1, b1, m, s, h, k, r, x, t) ==
    /\ Entered(c, f, path, n1, b1) /\ m = GrownMap(c) \cup {f}
    /\ Untaken(m, MostBlocks + 1, s)
    /\ Copying(h, s, k, r, x, t)
    /\ x \in [DOMAIN x -> [IndirectRows -> Blocks]] /\ IsFunction(t)
    /\ Agree(indirect, x, ToSet(s)) /\ Agree(data, t, ToSet(s))

LEMMA CopySane ==
    ASSUME Inside, NEW c, NEW f, NEW path, NEW n1, NEW b1, NEW m, NEW s, NEW h, NEW k, NEW r, NEW x, NEW t,
           InCopy(c, f, path, n1, b1, m, s, h, k, r, x, t),
           NEW n2, n2 = Put(n1, f, r), NEW m2 \in SUBSET Blocks, m \subseteq m2
    PROVE  /\ SaneDisk(Img(m2, n2, b1, x, t), f)
           /\ LiveIn(n2, b1, f) = LiveIn(inode, dirBlock, 0)
           /\ FilesOf(n2, b1, x, t, f) = FilesOf(inode, dirBlock, indirect, data, f)
           /\ \A i \in LiveIn(n2, b1, f) : n2[i] = n1[i]
           /\ Owns(n2, b1, x, m2, f) =>
                 /\ SaneDisk(Img(m2, n2, b1, x, t), 0)
                 /\ LiveIn(n2, b1, 0) = LiveIn(inode, dirBlock, 0) \cup {f}
           /\ Crashable(Img(m2, n2, b1, x, t)) => SaneDisk(Img(m2, n2, b1, x, t), 0)
<1>1. /\ Entered(c, f, path, n1, b1) /\ m = GrownMap(c) \cup {f} /\ Untaken(m, MostBlocks + 1, s)
      /\ Copying(h, s, k, r, x, t)
      /\ x \in [DOMAIN x -> [IndirectRows -> Blocks]] /\ IsFunction(t)
      /\ Agree(indirect, x, ToSet(s)) /\ Agree(data, t, ToSet(s))
  BY DEF InCopy
<1> DEFINE G == ToSet(s)
           e1 == EntriesRead(b1)
           y == RowsRead(x)
           z == DataRead(t)
<1>2. /\ SaneDisk(Img(m, n1, b1, indirect, data), f)
      /\ LiveIn(n1, b1, f) = LiveIn(inode, dirBlock, 0)
      /\ FilesOf(n1, b1, indirect, data, f) = FilesOf(inode, dirBlock, indirect, data, f)
      /\ Given(e1, f) /\ f \notin DOMAIN n1
  <2>1. Entered(c, f, path, n1, b1)
    BY <1>1
  <2>2. m = GrownMap(c) \cup {f}
    BY <1>1
  <2>3. QED
    BY <2>1, <2>2, EnteredNameSane
<1>3. /\ s \in Seq(Blocks) /\ Len(s) <= MostBlocks + 1 /\ G \subseteq Blocks /\ G \cap m = {}
  <2>1. s \in Seq(Blocks) /\ Len(s) <= MostBlocks + 1 /\ \A l \in 1 .. Len(s) : s[l] \notin m
    BY <1>1 DEF Untaken
  <2>2. G = {s[l] : l \in 1 .. Len(s)}
    BY <2>1 DEF ToSet
  <2>3. QED
    BY <2>1, <2>2
<1>4. /\ Tables(n1, b1, indirect) /\ DOMAIN b1 \subseteq m /\ Typed(n1, e1, RowsRead(indirect), m)
      /\ TargetsMarked(n1, e1, RowsRead(indirect), m, f)
  BY <1>2, SaneDiskIs DEF SaneImg, Sane
<1>5. f \in Blocks /\ f \in m /\ f # 0 /\ f # SFS_ROOT_LOCATION
  BY <1>1, DiskIs, VolumeFacts DEF Entered, Inside, Typed
<1>6. r \in InodeRecords /\ r.type = "file"
  BY <1>1 DEF Copying
<1>7. n2[f] = r /\ DOMAIN n2 = DOMAIN n1 \cup {f} /\ \A i \in DOMAIN n1 : i # f => n2[i] = n1[i]
  BY DEF Put
<1>8. n2 \in [DOMAIN n2 -> InodeRecords]
  <2>1. n1 \in [DOMAIN n1 -> InodeRecords]
    BY <1>4 DEF Tables
  <2>2. n2 = [i \in DOMAIN n1 \cup {f} |-> IF i = f THEN r ELSE n1[i]]
    BY DEF Put
  <2>3. QED
    BY <1>6, <2>1, <2>2
<1> HIDE DEF G
<1>9. Formed(m2, n2, b1, x, t) /\ Tables(n2, b1, x)
  BY <1>1, <1>4, <1>5, <1>7, <1>8 DEF Formed, Typed, Tables
<1>10. Outside(n1, b1, indirect, f, G)
  <2>1. ASSUME NEW i \in LiveIn(n1, b1, f)
        PROVE  i \notin G /\ \A q : LeadsTo(n1, e1, RowsRead(indirect), i, q) => q \notin G
    <3>1. i \in m
      BY <1>4, LiveFacts DEF LiveIn
    <3>2. \A q : LeadsTo(n1, e1, RowsRead(indirect), i, q) => q \in m
      BY <1>4, MarkedTarget DEF LiveIn
    <3>3. QED
      BY <1>3, <3>1, <3>2
  <2>2. QED
    BY <2>1 DEF Outside
<1>11. Agree(n1, n2, G \cup {f}) /\ Agree(b1, b1, G) /\ Agree(indirect, x, G) /\ Agree(data, t, G)
  BY <1>1, <1>7 DEF Agree, G
<1>12. Bare(b1, G)
  <2>1. ASSUME NEW q \in G, NEW j \in Columns
        PROVE  ~Gives(e1, q, j)
    <3>1. q \in Blocks /\ q \notin DOMAIN b1
      BY <1>3, <1>4
    <3>2. QED
      BY <3>1, ReadUnwritten DEF Gives
  <2>2. QED
    BY <2>1 DEF Bare
<1>13. LedMarked(n1, b1, indirect, f, m2)
  <2>1. \A i \in LiveIn(n1, b1, f) : \A q : LeadsTo(n1, e1, RowsRead(indirect), i, q) => q \in m
    BY <1>4, MarkedTarget DEF LiveIn
  <2>2. QED
    BY <2>1 DEF LedMarked
<1>14. Sized(n2, e1, y, z, f)
  <2>1. FromHost(ContentIn(n2, y, z, f))
    BY <1>1, <1>3, <1>7, CopyReads
  <2>2. QED
    BY <1>6, <1>7, <2>1 DEF Sized
<1>15. /\ SaneDisk(Img(m2, n2, b1, x, t), f)
       /\ LiveIn(n2, b1, f) = LiveIn(n1, b1, f)
       /\ FilesOf(n2, b1, x, t, f) = FilesOf(n1, b1, indirect, data, f)
       /\ \A i \in LiveIn(n1, b1, f) : \A q :
             LeadsTo(n2, e1, y, i, q) <=> LeadsTo(n1, e1, RowsRead(indirect), i, q)
  <2> HIDE DEF e1, y, z
  <2>1. /\ SaneDisk(Img(m2, n2, b1, x, t), f)
        /\ LiveIn(n2, b1, f) = LiveIn(n1, b1, f)
        /\ FilesOf(n2, b1, x, t, f) = FilesOf(n1, b1, indirect, data, f)
    BY <1>2, <1>9, <1>10, <1>11, <1>12, <1>13, <1>14, OutsideSane DEF e1, y, z
  <2>2. \A i \in LiveIn(n1, b1, f) : \A q :
             LeadsTo(n2, e1, y, i, q) <=> LeadsTo(n1, e1, RowsRead(indirect), i, q)
    BY <1>2, <1>9, <1>10, <1>11, <1>12, <1>13, <1>14, OutsideSane DEF e1, y, z
  <2>3. QED
    BY <2>1, <2>2
<1>16. \A i \in LiveIn(n2, b1, f) : n2[i] = n1[i]
  BY <1>7, <1>15 DEF LiveIn, Live
<1>17. /\ \A i, j, q : q # 0 /\ Place(n2, e1, y, f, i, j, q) => q \in G
       /\ \A i, j, a, b, q :
             q # 0 /\ Place(n2, e1, y, f, i, j, q) /\ Place(n2, e1, y, f, a, b, q) => i = a /\ j = b
  BY <1>1, <1>7, CopyPlaces DEF G
<1>18. ASSUME Owns(n2, b1, x, m2, f)
       PROVE  /\ SaneDisk(Img(m2, n2, b1, x, t), 0)
              /\ LiveIn(n2, b1, 0) = LiveIn(inode, dirBlock, 0) \cup {f}
  <2>1. ASSUME NEW q, LeadsTo(n2, e1, y, f, q)
        PROVE  /\ q \in m2 /\ q \notin System /\ q # SFS_ROOT_LOCATION
               /\ \A i \in LiveIn(n2, b1, f) : ~LeadsTo(n2, e1, y, i, q)
    <3>1. q \in m2
      BY <1>18, <2>1 DEF Owns
    <3>2. q \in G
      BY <1>17, <2>1 DEF LeadsTo
    <3>3. q \notin m
      BY <1>3, <3>2
    <3>4. System \subseteq m /\ SFS_ROOT_LOCATION \in m
      BY <1>4 DEF Typed
    <3>5. \A i \in LiveIn(n2, b1, f) : ~LeadsTo(n2, e1, y, i, q)
      BY <1>10, <1>15, <3>2 DEF Outside
    <3>6. QED
      BY <3>1, <3>3, <3>4, <3>5
  <2>2. PlacesApart(LiveIn(n2, b1, f), n2, e1, y, m2, f)
    BY <1>17, <2>1 DEF PlacesApart
  <2>3. FileHeld(n2, y, DOMAIN x, DOMAIN t, f)
    <3> DEFINE N == SFS_NDIRECT
               u == Stored(s)
    <3>1. /\ k \in 0 .. Len(u)
          /\ \A l \in Rows : r.direct[l] # 0 => l <= k /\ r.direct[l] = u[l]
          /\ r.indirect # 0 =>
                /\ r.indirect \in DOMAIN x
                /\ \A l \in IndirectRows :
                      x[r.indirect][l] # 0 => N + l <= k /\ x[r.indirect][l] = u[N + l]
          /\ \A l \in 1 .. k : u[l] \in DOMAIN t
      BY <1>1 DEF Copying
    <3>2. Len(u) \in Nat /\ N \in Nat
      BY <1>3, StoredAt, SfsAssumption
    <3> HIDE DEF u
    <3>3. \A l \in Rows : l \in Nat /\ l > 0
      BY DEF Rows
    <3>4. \A l \in IndirectRows : N + l \in Nat /\ N + l > 0
      BY <3>2 DEF IndirectRows
    <3>5. r.indirect # 0 => y[r.indirect] = x[r.indirect]
      BY <1>1, <1>6, <3>1 DEF RowsRead, Reading, InodeRecords
    <3>6. QED
      BY <1>7, <3>1, <3>2, <3>3, <3>4, <3>5 DEF FileHeld
  <2>4. f \in DOMAIN n2 /\ n2[f].type # "dir"
    BY <1>6, <1>7
  <2>5. SaneDisk(Img(m2, n2, b1, x, t), 0) /\ LiveIn(n2, b1, 0) = LiveIn(n2, b1, f) \cup {f}
    BY <1>2, <1>15, <2>2, <2>3, <2>4, AdoptDisk
  <2>6. QED
    BY <1>2, <1>15, <2>5
<1>19. ASSUME Crashable(Img(m2, n2, b1, x, t))
       PROVE  Owns(n2, b1, x, m2, f)
  <2>1. f \in Live(n2, e1, 0)
    BY <1>2, <1>5, <1>7 DEF Live
  <2>2. QED
    BY <1>19, <2>1, ImgParts DEF Crashable, Owns
<1>20. QED
  BY <1>2, <1>15, <1>16, <1>18, <1>19

----------------------------------------------------------------------------
\* cpin: the images between its writes.

UpTo(u, k) == {u[l] : l \in 1 .. k}

\* The data when k of the blocks u have been stored.
DataUpTo(u, k) ==
    [q \in DOMAIN data \cup UpTo(u, k) |-> IF q \in UpTo(u, k) THEN data'[q] ELSE data[q]]

\* The file's inode r when k of the blocks u are in it, with indirect block i.
UpToInode(r, u, k, i) ==
    /\ r \in InodeRecords /\ r.type = "file" /\ r.indirect = i
    /\ r.size <= inode'[Created].size
    /\ \A l \in Rows : r.direct[l] = IF l <= k THEN u[l] ELSE 0

LEMMA CopiedUpToIs ==
    ASSUME NEW u \in Seq(Blocks), NEW k \in 0 .. Len(u), NEW i \in Blocks, inode'[Created].size \in Nat
    PROVE  UpToInode(CopiedUpTo(u, k, i), u, k, i)
<1> DEFINE N == SFS_NDIRECT
           e == Min({k, N})
           v == SubSeq(u, 1, e)
           z == k * SFS_BLOCKSIZE
           size == Min({inode'[Created].size, z})
           D == [l \in 1 .. N |-> IF l <= Len(v) THEN v[l] ELSE 0]
           r == CopiedUpTo(u, k, i)
<1>1. N \in Nat /\ k \in Nat /\ k <= Len(u) /\ Len(u) \in Nat /\ SFS_BLOCKSIZE \in Nat /\ 0 \in Blocks
  BY SfsAssumption, VolumeFacts
<1>2. e \in Nat /\ e = (IF k <= N THEN k ELSE N)
  <2>1. {k, N} \in SUBSET Nat
    BY <1>1
  <2>2. e \in {k, N} /\ e <= k /\ e <= N
    BY <2>1, MinOf, Zenon
  <2> HIDE DEF e
  <2>3. QED
    BY <1>1, <2>2
<1>3. z \in Nat
  BY <1>1
<1> HIDE DEF e, z
<1>4. size \in Nat /\ size <= inode'[Created].size
  <2>1. {inode'[Created].size, z} \in SUBSET Nat
    BY <1>3
  <2>2. QED
    BY <2>1, MinOf, Zenon
<1>5. Len(v) = e /\ \A l \in 1 .. e : v[l] = u[l]
  BY <1>1, <1>2
<1>6. r = [type |-> "file", size |-> size, indirect |-> i, direct |-> D]
  BY DEF CopiedUpTo, Inode, e, z
<1> HIDE DEF v
<1>7. \A l \in 1 .. N : D[l] = (IF l <= k THEN u[l] ELSE 0) /\ D[l] \in Blocks
  <2>1. ASSUME NEW l \in 1 .. N
        PROVE  D[l] = (IF l <= k THEN u[l] ELSE 0) /\ D[l] \in Blocks
    <3>1. l <= Len(v) <=> l <= k
      BY <1>1, <1>2, <1>5
    <3>2. l <= k => l \in 1 .. e /\ l \in 1 .. Len(u)
      BY <1>1, <1>2
    <3>3. QED
      BY <1>1, <1>5, <3>1, <3>2
  <2>2. QED
    BY <2>1
<1>8. D \in [1 .. N -> Blocks]
  BY <1>7
<1> HIDE DEF D, size, r
<1>9. r \in InodeRecords /\ r.type = "file" /\ r.indirect = i /\ r.size = size /\ r.direct = D
  BY <1>4, <1>6, <1>8 DEF InodeRecords
<1>10. QED
  BY <1>4, <1>7, <1>9 DEF Rows, UpToInode, r

LEMMA IndirectUpToIs ==
    ASSUME NEW u \in Seq(Blocks), NEW k \in 0 .. Len(u), NEW y, y = IndirectUpTo(u, k)
    PROVE  /\ y \in [IndirectRows -> Blocks]
           /\ \A l \in IndirectRows : y[l] = IF SFS_NDIRECT + l <= k THEN u[SFS_NDIRECT + l] ELSE 0
<1>1. SFS_NDIRECT \in Nat /\ 0 \in Blocks /\ Len(u) \in Nat /\ k \in Nat /\ k <= Len(u)
  BY SfsAssumption, VolumeFacts
<1>2. ASSUME NEW l \in IndirectRows, SFS_NDIRECT + l <= k
      PROVE  u[SFS_NDIRECT + l] \in Blocks
  <2>1. SFS_NDIRECT + l \in 1 .. Len(u)
    BY <1>1, <1>2 DEF IndirectRows
  <2>2. QED
    BY <2>1
<1>3. \A l \in IndirectRows : y[l] = (IF SFS_NDIRECT + l <= k THEN u[SFS_NDIRECT + l] ELSE 0) /\ y[l] \in Blocks
  BY <1>1, <1>2 DEF IndirectUpTo, IndirectRows
<1>4. DOMAIN y = IndirectRows /\ IsFunction(y)
  BY DEF IndirectUpTo, IndirectRows, IsFunction
<1>5. QED
  BY <1>3, <1>4 DEF IsFunction

\* What cpin has to do: h is copied into the blocks s.
CopyPlan(c, f, path, n1, b1, m, s, h) ==
    /\ Entered(c, f, path, n1, b1) /\ m = GrownMap(c) \cup {f}
    /\ Untaken(m, MostBlocks + 1, s)
    /\ h \in HostFiles /\ HostFile(h) # NoFile
    /\ Created = f /\ inode'[f] = CopiedInode(HostFile(h), s)
    /\ data' = CopiedData(HostFile(h), s)

\* The blocks that are stored, and their data.
Planned(f, s, h, u) ==
    /\ s \in Seq(Blocks) /\ Len(s) \in Nat /\ Len(s) <= MostBlocks + 1 /\ u \in Seq(Blocks) /\ Len(u) \in Nat
    /\ \A k, l \in 1 .. Len(u) : u[k] = u[l] => k = l
    /\ UpTo(u, Len(u)) = ToSet(u) /\ ToSet(u) \subseteq ToSet(s)
    /\ inode'[f].size \in Nat /\ inode'[f].size <= HostFile(h).size
    /\ DOMAIN data' = DOMAIN data \cup ToSet(u) /\ IsFunction(data')
    /\ \A q \in DOMAIN data \ ToSet(u) : data'[q] = data[q]
    /\ \A k \in 1 .. Len(u) : k <= Len(HostFile(h).chunks) => data'[u[k]] = HostFile(h).chunks[k]

LEMMA PlanFacts ==
    ASSUME NEW c, NEW f, NEW path, NEW n1, NEW b1, NEW m, NEW s, NEW h,
           CopyPlan(c, f, path, n1, b1, m, s, h), NEW u, u = Stored(s)
    PROVE  Planned(f, s, h, u)
<1> DEFINE file == HostFile(h)
<1>1. /\ Untaken(m, MostBlocks + 1, s) /\ h \in HostFiles /\ file # NoFile
      /\ inode'[f] = CopiedInode(file, s) /\ data' = CopiedData(file, s)
  BY DEF CopyPlan
<1>2. /\ s \in Seq(Blocks) /\ Len(s) \in Nat /\ Len(s) <= MostBlocks + 1
      /\ \A k, l \in 1 .. Len(s) : s[k] = s[l] => k = l
  BY <1>1 DEF Untaken
<1>3. /\ \A k, l \in 1 .. Len(u) : u[k] = u[l] => k = l
      /\ ToSet(u) = {u[k] : k \in 1 .. Len(u)}
      /\ ToSet(u) \subseteq ToSet(s)
  <2>1. /\ ToSet(u) \cup TableOf(s) = ToSet(s) /\ ToSet(u) \cap TableOf(s) = {}
        /\ \A k, l \in 1 .. Len(u) : u[k] = u[l] => k = l
        /\ ToSet(u) = {u[k] : k \in 1 .. Len(u)} /\ ToSet(s) = {s[k] : k \in 1 .. Len(s)}
    BY <1>2, BlocksFound
  <2>2. QED
    BY <2>1, Zenon
<1>4. u \in Seq(Blocks) /\ Len(u) \in Nat
  BY <1>2, StoredAt
<1>5. inode'[f].size \in Nat /\ inode'[f].size <= file.size
  <2>1. file.size \in Nat
    <3>1. file = HostFile(h)
      OBVIOUS
    <3> HIDE DEF file
    <3>2. QED
      BY <1>1, <3>1, HostFileIs
  <2> DEFINE r == CopiedInode(file, s)
  <2>2. r \in InodeRecords /\ r.size <= file.size
    <3>1. r = CopiedInode(file, s)
      OBVIOUS
    <3> HIDE DEF r
    <3>2. QED
      BY <1>2, <2>1, <3>1, CopiedInodeIs
  <2>3. QED
    BY <1>1, <2>2 DEF InodeRecords
<1> DEFINE T == ToSet(Stored(s))
           which(b) == CHOOSE k \in DOMAIN Stored(s) : Stored(s)[k] = b
           value(b) == IF b \notin T THEN data[b]
                       ELSE IF which(b) <= Len(file.chunks) THEN file.chunks[which(b)] ELSE EmptyChunk
<1>6. data' = [b \in DOMAIN data \cup T |-> value(b)]
  BY <1>1, Zenon DEF CopiedData
<1>7. T = ToSet(u) /\ \A b : which(b) = CHOOSE k \in DOMAIN u : u[k] = b
  OBVIOUS
<1>8. ASSUME NEW k \in 1 .. Len(u)
      PROVE  u[k] \in T /\ which(u[k]) = k
  <2>1. DOMAIN u = 1 .. Len(u)
    BY <1>4
  <2>2. which(u[k]) \in DOMAIN u /\ u[which(u[k])] = u[k]
    BY <1>7, <2>1
  <2> HIDE DEF which, T
  <2>3. QED
    BY <1>3, <1>7, <2>1, <2>2
<1> HIDE DEF which, T
<1>9. ASSUME NEW k \in 1 .. Len(u), k <= Len(file.chunks)
      PROVE  data'[u[k]] = file.chunks[k]
  <2>1. data'[u[k]] = value(u[k])
    BY <1>6, <1>8
  <2>2. QED
    BY <1>8, <1>9, <2>1
<1>10. DOMAIN data' = DOMAIN data \cup T /\ IsFunction(data') /\ \A q \in DOMAIN data \ T : data'[q] = data[q]
  BY <1>6 DEF IsFunction
<1>11. QED
  BY <1>2, <1>3, <1>4, <1>5, <1>7, <1>9, <1>10 DEF UpTo, Planned

\* The data of one more block is stored.
LEMMA DataSteps ==
    ASSUME NEW c, NEW f, NEW path, NEW n1, NEW b1, NEW m, NEW s, NEW h, IsFunction(data),
           CopyPlan(c, f, path, n1, b1, m, s, h), NEW u, u = Stored(s)
    PROVE  /\ DataUpTo(u, 0) = data /\ DataUpTo(u, Len(u)) = data'
           /\ \A k \in 1 .. Len(u) : Put(DataUpTo(u, k - 1), u[k], data'[u[k]]) = DataUpTo(u, k)
<1>1. /\ UpTo(u, Len(u)) = ToSet(u) /\ Len(u) \in Nat
      /\ DOMAIN data' = DOMAIN data \cup ToSet(u) /\ IsFunction(data')
      /\ \A q \in DOMAIN data \ ToSet(u) : data'[q] = data[q]
  <2>1. Planned(f, s, h, u)
    BY PlanFacts
  <2>2. QED
    BY <2>1 DEF Planned
<1>2. UpTo(u, 0) = {}
  BY DEF UpTo
<1>3. DataUpTo(u, 0) = data
  BY <1>2 DEF DataUpTo, IsFunction
<1>4. DataUpTo(u, Len(u)) = data'
  BY <1>1 DEF DataUpTo, IsFunction
<1>5. ASSUME NEW k \in 1 .. Len(u)
      PROVE  Put(DataUpTo(u, k - 1), u[k], data'[u[k]]) = DataUpTo(u, k)
  <2>1. UpTo(u, k) = UpTo(u, k - 1) \cup {u[k]}
    <3>1. \A l : l \in 1 .. k <=> l \in 1 .. k - 1 \/ l = k
      BY <1>1
    <3>2. QED
      BY <3>1 DEF UpTo
  <2>2. QED
    BY <2>1 DEF Put, DataUpTo
<1>6. QED
  BY <1>3, <1>4, <1>5

\* The table x when the inode's indirect block is i: there is none yet, or it
\* is written up to the l-th block.
TableUpTo(s, i, l, x) ==
    \/ i = 0 /\ x = indirect
    \/ /\ Len(s) > SFS_NDIRECT /\ i \in {0, s[SFS_NDIRECT + 1]}
       /\ x = Put(indirect, s[SFS_NDIRECT + 1], IndirectUpTo(Stored(s), l))

LEMMA StageIn ==
    ASSUME Inside, NEW c, NEW f, NEW path, NEW n1, NEW b1, NEW m, NEW s, NEW h,
           CopyPlan(c, f, path, n1, b1, m, s, h), NEW u, u = Stored(s),
           NEW k \in 0 .. Len(u), NEW j \in 0 .. k, NEW l \in 0 .. k,
           NEW i, NEW x, TableUpTo(s, i, l, x), NEW r, r = CopiedUpTo(u, j, i), NEW t, t = DataUpTo(u, k)
    PROVE  InCopy(c, f, path, n1, b1, m, s, h, k, r, x, t)
<1> DEFINE N == SFS_NDIRECT
           file == HostFile(h)
           G == ToSet(s)
           y == IndirectUpTo(u, l)
<1>1. /\ Entered(c, f, path, n1, b1) /\ m = GrownMap(c) \cup {f} /\ Untaken(m, MostBlocks + 1, s)
      /\ h \in HostFiles /\ file # NoFile /\ Created = f
  BY DEF CopyPlan
<1>2. Planned(f, s, h, u)
  BY PlanFacts
<1>3. /\ s \in Seq(Blocks) /\ Len(s) \in Nat /\ Len(s) <= MostBlocks + 1 /\ u \in Seq(Blocks) /\ Len(u) \in Nat
      /\ UpTo(u, Len(u)) = ToSet(u) /\ ToSet(u) \subseteq G
      /\ inode'[f].size \in Nat /\ inode'[f].size <= file.size
      /\ DOMAIN data' = DOMAIN data \cup ToSet(u)
      /\ \A q \in 1 .. Len(u) : q <= Len(file.chunks) => data'[u[q]] = file.chunks[q]
  BY <1>2 DEF Planned
<1>4. Len(s) > N => s[N + 1] \in Blocks /\ s[N + 1] \in G
  <2>1. N \in Nat /\ G = {s[q] : q \in 1 .. Len(s)}
    BY <1>3, SfsAssumption DEF ToSet
  <2>2. Len(s) > N => N + 1 \in 1 .. Len(s)
    BY <1>3, <2>1
  <2>3. QED
    BY <1>3, <2>1, <2>2
<1>5. i \in Blocks /\ 0 \in Blocks
  BY <1>4, VolumeFacts DEF TableUpTo
<1>6. k <= Len(u) /\ k \in Nat /\ j \in Nat /\ j <= k /\ l \in Nat /\ l <= k /\ j \in 0 .. Len(u) /\ l \in 0 .. Len(u)
  BY <1>3
<1>7. /\ r \in InodeRecords /\ r.type = "file" /\ r.indirect = i
      /\ r.size <= inode'[f].size
      /\ \A q \in Rows : r.direct[q] = IF q <= j THEN u[q] ELSE 0
  <2>1. inode'[Created].size \in Nat /\ inode'[Created].size = inode'[f].size
    BY <1>1, <1>3
  <2>2. u \in Seq(Blocks) /\ j \in 0 .. Len(u) /\ i \in Blocks
    BY <1>3, <1>5, <1>6
  <2>3. UpToInode(CopiedUpTo(u, j, i), u, j, i)
    BY <2>1, <2>2, CopiedUpToIs
  <2>4. QED
    BY <2>1, <2>3 DEF UpToInode
<1>8. /\ y \in [IndirectRows -> Blocks]
      /\ \A q \in IndirectRows : y[q] = IF N + q <= l THEN u[N + q] ELSE 0
  BY <1>3, <1>6, IndirectUpToIs
<1> HIDE DEF y, file
<1>9. r.size <= file.size
  <2>1. r.size \in Nat
    BY <1>7 DEF InodeRecords
  <2>2. file.size \in Nat
    BY <1>1, HostFileIs DEF file
  <2>3. QED
    BY <1>3, <1>7, <2>1, <2>2
<1>10. \A q \in Rows : r.direct[q] # 0 => q <= k /\ r.direct[q] = u[q]
  BY <1>6, <1>7 DEF Rows
<1>11. indirect \in [DOMAIN indirect -> [IndirectRows -> Blocks]]
  BY DiskIs DEF Tables, Inside
<1>12. /\ x \in [DOMAIN x -> [IndirectRows -> Blocks]]
       /\ Agree(indirect, x, G)
       /\ i # 0 => Len(s) > N /\ i = s[N + 1] /\ i \in DOMAIN x /\ x[i] = y
  <2>1. CASE i = 0 /\ x = indirect
    BY <1>11, <2>1 DEF Agree
  <2>2. CASE Len(s) > N /\ i \in {0, s[N + 1]} /\ x = Put(indirect, s[N + 1], y)
    <3> DEFINE a == s[N + 1]
    <3>1. DOMAIN x = DOMAIN indirect \cup {a} /\ x[a] = y /\ \A q \in DOMAIN indirect : q # a => x[q] = indirect[q]
      BY <2>2 DEF Put
    <3>2. IsFunction(x)
      BY <2>2 DEF Put, IsFunction
    <3>3. a \in Blocks /\ a \in G /\ i \in {0, a} /\ Len(s) > N
      BY <1>4, <2>2
    <3> HIDE DEF a
    <3>4. x \in [DOMAIN x -> [IndirectRows -> Blocks]]
      BY <1>8, <1>11, <3>1, <3>2 DEF IsFunction
    <3>5. Agree(indirect, x, G)
      BY <3>1, <3>3 DEF Agree
    <3>6. i # 0 => i \in DOMAIN x /\ x[i] = y
      BY <3>1, <3>3
    <3>7. QED
      BY <2>2, <3>4, <3>5, <3>6
  <2>3. QED
    BY <2>1, <2>2 DEF TableUpTo, y
<1>13. ASSUME i # 0, NEW q \in IndirectRows, x[i][q] # 0
       PROVE  N + q <= k /\ x[i][q] = u[N + q]
  <2>1. N + q <= l /\ x[i][q] = u[N + q]
    BY <1>8, <1>12, <1>13
  <2>2. N + q \in Nat
    BY SfsAssumption DEF IndirectRows
  <2>3. QED
    BY <1>6, <2>1, <2>2
<1>14. UpTo(u, k) \subseteq ToSet(u) /\ \A q \in 1 .. k : u[q] \in UpTo(u, k) /\ q \in 1 .. Len(u)
  BY <1>3, <1>6 DEF UpTo
<1>15. /\ DOMAIN t = DOMAIN data \cup UpTo(u, k) /\ IsFunction(t)
       /\ \A q \in UpTo(u, k) : t[q] = data'[q]
       /\ \A q \in DOMAIN data \ UpTo(u, k) : t[q] = data[q]
  BY DEF DataUpTo, IsFunction
<1>16. Agree(data, t, G)
  BY <1>3, <1>14, <1>15 DEF Agree
<1>17. \A q \in 1 .. k : u[q] \in DOMAIN t /\ (q <= Len(file.chunks) => t[u[q]] = file.chunks[q])
  BY <1>3, <1>14, <1>15
<1>18. Copying(h, s, k, r, x, t)
  BY <1>1, <1>6, <1>7, <1>9, <1>10, <1>12, <1>13, <1>17 DEF Copying, file
<1>19. QED
  BY <1>1, <1>12, <1>15, <1>16, <1>18 DEF InCopy

\* The image with the inode up to block j, table x and the data up to block k.
CopyImg(m, n1, f, b1, u, j, i, x, k) == Img(m, Put(n1, f, CopiedUpTo(u, j, i)), b1, x, DataUpTo(u, k))

LEMMA StageFine ==
    ASSUME Inside, NEW c, NEW f, NEW path, NEW n1, NEW b1, NEW m, NEW s, NEW h,
           CopyPlan(c, f, path, n1, b1, m, s, h), NEW u, u = Stored(s),
           NEW k \in 0 .. Len(u), NEW j \in 0 .. k, NEW l \in 0 .. k,
           NEW i, NEW x, TableUpTo(s, i, l, x), NEW m2 \in SUBSET Blocks, m \subseteq m2,
           NEW F, Leaves(F, f, f)
    PROVE  Fine(CopyImg(m2, n1, f, b1, u, j, i, x, k), F, f)
<1> DEFINE r == CopiedUpTo(u, j, i)
           t == DataUpTo(u, k)
           n2 == Put(n1, f, r)
<1>1. r = CopiedUpTo(u, j, i) /\ t = DataUpTo(u, k) /\ n2 = Put(n1, f, r)
  OBVIOUS
<1>2. CopyImg(m2, n1, f, b1, u, j, i, x, k) = Img(m2, n2, b1, x, t)
  BY DEF CopyImg
<1> HIDE DEF r, t, n2
<1>3. InCopy(c, f, path, n1, b1, m, s, h, k, r, x, t)
  BY <1>1, StageIn
<1>4. /\ SaneDisk(Img(m2, n2, b1, x, t), f)
      /\ FilesOf(n2, b1, x, t, f) = FilesOf(inode, dirBlock, indirect, data, f)
      /\ Crashable(Img(m2, n2, b1, x, t)) => SaneDisk(Img(m2, n2, b1, x, t), 0)
  BY <1>1, <1>3, CopySane
<1>5. Step(m2, n2, b1, x, t, f, f)
  BY <1>4 DEF Step
<1>6. f # 0
  BY DiskIs, VolumeFacts DEF CopyPlan, Entered, Inside
<1>7. TableHeld(n2, x, f)
  <2>1. r.indirect \in {0} \cup DOMAIN x
    BY <1>3 DEF InCopy, Copying
  <2>2. n2[f] = r
    BY <1>1 DEF Put
  <2>3. QED
    BY <2>1, <2>2 DEF TableHeld
<1>8. QED
  BY <1>2, <1>4, <1>5, <1>6, <1>7, StepFine

----------------------------------------------------------------------------
\* cpin: the writes of its loops.

LEMMA TrailBy ==
    ASSUME NEW L \in Nat, NEW w, DOMAIN w = 1 .. L, IsFunction(w), NEW im, NEW F, NEW f,
           \A p \in 1 .. L : im[p] = Written(im[p - 1], w[p]), \A p \in 0 .. L : Fine(im[p], F, f)
    PROVE  Trail(im[0], w, im[L], F, f)
<1>1. w \in Seq({w[k] : k \in 1 .. L}) /\ Len(w) = L
  BY ListOf
<1>2. IsTrail(im, im[0], w, im[L], F, f)
  BY <1>1 DEF IsTrail
<1>3. QED
  BY <1>1, <1>2 DEF Trail

LEMMA PutTwice ==
    ASSUME NEW g, NEW c, NEW v, NEW w
    PROVE  Put(Put(g, c, v), c, w) = Put(g, c, w)
BY DEF Put

\* The tables with the file's own written up to the l-th block.
TablesAt(s, l) == Put(indirect, s[SFS_NDIRECT + 1], IndirectUpTo(Stored(s), l))

\* The writes of the loops.
LEMMA DataStored ==
    ASSUME NEW c, NEW f, NEW path, NEW n1, NEW b1, NEW m, NEW s, NEW h, IsFunction(data),
           CopyPlan(c, f, path, n1, b1, m, s, h), NEW u, u = Stored(s),
           NEW k \in 1 .. Len(u), NEW j, NEW i, NEW x
    PROVE  CopyImg(m, n1, f, b1, u, j, i, x, k)
             = Written(CopyImg(m, n1, f, b1, u, j, i, x, k - 1), Write("data", u[k], data'[u[k]]))
<1>1. Put(DataUpTo(u, k - 1), u[k], data'[u[k]]) = DataUpTo(u, k)
  <2>1. \A q \in 1 .. Len(u) : Put(DataUpTo(u, q - 1), u[q], data'[u[q]]) = DataUpTo(u, q)
    BY DataSteps
  <2>2. QED
    BY <2>1
<1>2. QED
  BY <1>1, WrittenIs DEF CopyImg

LEMMA InodeStored ==
    ASSUME NEW c, NEW f, NEW path, NEW n1, NEW b1, NEW m, NEW s, NEW h,
           CopyPlan(c, f, path, n1, b1, m, s, h), NEW u, NEW k, NEW j, NEW i, NEW x, NEW j2, NEW i2
    PROVE  CopyImg(m, n1, f, b1, u, j2, i2, x, k)
             = Written(CopyImg(m, n1, f, b1, u, j, i, x, k), Write("inode", Created, CopiedUpTo(u, j2, i2)))
<1>1. Created = f
  BY DEF CopyPlan
<1>2. Put(Put(n1, f, CopiedUpTo(u, j, i)), f, CopiedUpTo(u, j2, i2)) = Put(n1, f, CopiedUpTo(u, j2, i2))
  BY PutTwice
<1>3. QED
  BY <1>1, <1>2, WrittenIs DEF CopyImg

LEMMA TableStored ==
    ASSUME NEW f, NEW n1, NEW b1, NEW m, NEW s, NEW u, u = Stored(s), NEW k, NEW j, NEW i, NEW l, NEW l2,
           NEW x, x = indirect \/ x = TablesAt(s, l)
    PROVE  CopyImg(m, n1, f, b1, u, j, i, TablesAt(s, l2), k)
             = Written(CopyImg(m, n1, f, b1, u, j, i, x, k),
                       Write("indirect", s[SFS_NDIRECT + 1], IndirectUpTo(u, l2)))
<1>1. Put(x, s[SFS_NDIRECT + 1], IndirectUpTo(u, l2)) = TablesAt(s, l2)
  BY PutTwice DEF TablesAt
<1>2. QED
  BY <1>1, WrittenIs DEF CopyImg

LEMMA CopyWrites ==
    ASSUME NEW u, NEW k, NEW a
    PROVE  /\ CopyDirect(u, k)[1] = Write("data", u[k], data'[u[k]])
           /\ CopyDirect(u, k)[2] = Write("inode", Created, CopiedUpTo(u, k, 0))
           /\ CopyIndirect(u, k, a)[1] = Write("data", u[k], data'[u[k]])
           /\ CopyIndirect(u, k, a)[2] = Write("inode", Created, CopiedUpTo(u, k, a))
           /\ CopyIndirect(u, k, a)[3] = Write("indirect", a, IndirectUpTo(u, k))
BY DEF CopyDirect, CopyIndirect

LEMMA DirectTrail ==
    ASSUME Inside, NEW c, NEW f, NEW path, NEW n1, NEW b1, NEW m, NEW s, NEW h,
           CopyPlan(c, f, path, n1, b1, m, s, h), m \in SUBSET Blocks, NEW u, u = Stored(s),
           NEW L \in 0 .. Len(u), NEW F, Leaves(F, f, f)
    PROVE  Trail(CopyImg(m, n1, f, b1, u, 0, 0, indirect, 0), CopyingDirect(u, L),
                 CopyImg(m, n1, f, b1, u, L, 0, indirect, L), F, f)
<1> DEFINE w == CopyingDirect(u, L)
           at(p) == CopyImg(m, n1, f, b1, u, p \div 2, 0, indirect, (p + 1) \div 2)
           im == [p \in 0 .. 2 * L |-> at(p)]
<1>1. L \in Nat /\ Len(u) \in Nat /\ L <= Len(u)
  <2>1. Planned(f, s, h, u)
    BY PlanFacts
  <2>2. QED
    BY <2>1 DEF Planned
<1>2. DOMAIN w = 1 .. 2 * L /\ IsFunction(w)
      /\ \A p \in 1 .. 2 * L : w[p] = CopyDirect(u, (p + 1) \div 2)[1 + ((p - 1) % 2)]
  BY DEF CopyingDirect, IsFunction
<1>3. \A p \in 0 .. 2 * L : im[p] = at(p)
  OBVIOUS
<1>4. ASSUME NEW p \in 0 .. 2 * L
      PROVE  Fine(im[p], F, f)
  <2>1. (p + 1) \div 2 \in 0 .. Len(u) /\ p \div 2 \in 0 .. (p + 1) \div 2 /\ 0 \in 0 .. (p + 1) \div 2
    BY <1>1
  <2>2. TableUpTo(s, 0, 0, indirect)
    BY DEF TableUpTo
  <2>3. m \subseteq m
    OBVIOUS
  <2>4. Fine(at(p), F, f)
    BY <2>1, <2>2, <2>3, StageFine
  <2>5. QED
    BY <1>3, <2>4
<1>5. ASSUME NEW p \in 1 .. 2 * L
      PROVE  im[p] = Written(im[p - 1], w[p])
  <2> DEFINE q == (p + 1) \div 2
  <2>1. q \in 1 .. Len(u) /\ (p = 2 * q - 1 \/ p = 2 * q) /\ p - 1 \in 0 .. 2 * L /\ p \in 0 .. 2 * L
        /\ p - 1 + 1 = p
    BY <1>1
  <2>2. im[p] = at(p) /\ im[p - 1] = at(p - 1)
    BY <1>3, <2>1
  <2>5. w[p] = CopyDirect(u, q)[1 + ((p - 1) % 2)]
    <3> HIDE DEF w
    <3>1. QED
      BY <1>2, Zenon
  <2>3. CASE p = 2 * q - 1
    <3>1. p \div 2 = q - 1 /\ (p - 1) \div 2 = q - 1 /\ 1 + ((p - 1) % 2) = 1
      BY <2>1, <2>3
    <3>2. w[p] = Write("data", u[q], data'[u[q]])
      <4> HIDE DEF q, w
      <4>1. CopyDirect(u, q)[1] = Write("data", u[q], data'[u[q]])
        BY CopyWrites, Zenon
      <4>2. QED
        BY <2>5, <3>1, <4>1
    <3>3. /\ at(p) = CopyImg(m, n1, f, b1, u, q - 1, 0, indirect, q)
          /\ at(p - 1) = CopyImg(m, n1, f, b1, u, q - 1, 0, indirect, q - 1)
      BY <2>1, <3>1
    <3>4. IsFunction(data)
      BY DiskIs DEF Inside
    <3> HIDE DEF q, im, at, w
    <3>5. QED
      BY <2>1, <2>2, <3>2, <3>3, <3>4, DataStored
  <2>4. CASE p = 2 * q
    <3>1. p \div 2 = q /\ (p - 1) \div 2 = q - 1 /\ 1 + ((p - 1) % 2) = 2
      BY <2>1, <2>4
    <3>2. w[p] = Write("inode", Created, CopiedUpTo(u, q, 0))
      BY <2>5, <3>1, CopyWrites
    <3>3. /\ at(p) = CopyImg(m, n1, f, b1, u, q, 0, indirect, q)
          /\ at(p - 1) = CopyImg(m, n1, f, b1, u, q - 1, 0, indirect, q)
      BY <2>1, <3>1
    <3> HIDE DEF q, im, at, w
    <3>4. QED
      BY <2>2, <3>2, <3>3, InodeStored
  <2>6. QED
    BY <2>1, <2>3, <2>4
<1>6. 2 * L \in Nat /\ 0 \in 0 .. 2 * L /\ 2 * L \in 0 .. 2 * L
      /\ 0 \div 2 = 0 /\ (0 + 1) \div 2 = 0 /\ (2 * L) \div 2 = L /\ (2 * L + 1) \div 2 = L
  BY <1>1
<1>7. /\ im[0] = CopyImg(m, n1, f, b1, u, 0, 0, indirect, 0)
      /\ im[2 * L] = CopyImg(m, n1, f, b1, u, L, 0, indirect, L)
  BY <1>3, <1>6
<1> HIDE DEF im, at, w
<1>8. Trail(im[0], w, im[2 * L], F, f)
  BY <1>2, <1>4, <1>5, <1>6, TrailBy, Zenon
<1>9. QED
  BY <1>7, <1>8 DEF w

LEMMA IndirectTrail ==
    ASSUME Inside, NEW c, NEW f, NEW path, NEW n1, NEW b1, NEW m, NEW s, NEW h,
           CopyPlan(c, f, path, n1, b1, m, s, h), m \in SUBSET Blocks, NEW u, u = Stored(s),
           Len(s) > SFS_NDIRECT, NEW a, a = s[SFS_NDIRECT + 1],
           NEW M \in Nat, SFS_NDIRECT + M <= Len(u), NEW F, Leaves(F, f, f)
    PROVE  Trail(CopyImg(m, n1, f, b1, u, SFS_NDIRECT, a, TablesAt(s, SFS_NDIRECT), SFS_NDIRECT),
                 CopyingIndirect(u, M, a),
                 CopyImg(m, n1, f, b1, u, SFS_NDIRECT + M, a, TablesAt(s, SFS_NDIRECT + M), SFS_NDIRECT + M), F, f)
<1> DEFINE N == SFS_NDIRECT
           w == CopyingIndirect(u, M, a)
           at(p) == CopyImg(m, n1, f, b1, u, N + ((p + 1) \div 3), a, TablesAt(s, N + (p \div 3)),
                            N + ((p + 2) \div 3))
           im == [p \in 0 .. 3 * M |-> at(p)]
<1>1. N \in Nat /\ Len(u) \in Nat
  <2>1. Planned(f, s, h, u)
    BY PlanFacts
  <2>2. QED
    BY <2>1, SfsAssumption DEF Planned
<1>2. DOMAIN w = 1 .. 3 * M /\ IsFunction(w)
      /\ \A p \in 1 .. 3 * M : w[p] = CopyIndirect(u, N + ((p + 2) \div 3), a)[1 + ((p - 1) % 3)]
  BY DEF CopyingIndirect, IsFunction
<1>3. \A p \in 0 .. 3 * M : im[p] = at(p)
  OBVIOUS
<1>4. ASSUME NEW p \in 0 .. 3 * M
      PROVE  Fine(im[p], F, f)
  <2> DEFINE k == N + ((p + 2) \div 3)
             j == N + ((p + 1) \div 3)
             l == N + (p \div 3)
  <2>1. k \in 0 .. Len(u) /\ j \in 0 .. k /\ l \in 0 .. k
    BY <1>1
  <2>2. TableUpTo(s, a, l, TablesAt(s, l))
    BY DEF TableUpTo, TablesAt
  <2>3. m \subseteq m
    OBVIOUS
  <2>4. at(p) = CopyImg(m, n1, f, b1, u, j, a, TablesAt(s, l), k)
    OBVIOUS
  <2> HIDE DEF k, j, l, at
  <2>5. Fine(CopyImg(m, n1, f, b1, u, j, a, TablesAt(s, l), k), F, f)
    BY <2>1, <2>2, <2>3, StageFine
  <2>6. QED
    BY <1>3, <2>4, <2>5
<1>5. ASSUME NEW p \in 1 .. 3 * M
      PROVE  im[p] = Written(im[p - 1], w[p])
  <2> DEFINE q == (p + 2) \div 3
             k == N + q
  <2>1. q \in 1 .. M /\ (p = 3 * q - 2 \/ p = 3 * q - 1 \/ p = 3 * q)
        /\ p - 1 \in 0 .. 3 * M /\ p \in 0 .. 3 * M /\ (p - 1) + 1 = p /\ (p - 1) + 2 = p + 1
    BY <1>1
  <2>2. im[p] = at(p) /\ im[p - 1] = at(p - 1)
    BY <1>3, <2>1
  <2>3. k \in 1 .. Len(u) /\ N + (q - 1) = k - 1
    BY <1>1, <2>1
  <2>8. w[p] = CopyIndirect(u, k, a)[1 + ((p - 1) % 3)]
    <3> HIDE DEF w
    <3>1. QED
      BY <1>2
  <2>4. CASE p = 3 * q - 2
    <3>1. /\ (p + 1) \div 3 = q - 1 /\ p \div 3 = q - 1 /\ (p - 1) \div 3 = q - 1 /\ 1 + ((p - 1) % 3) = 1
      BY <2>1, <2>4
    <3>2. w[p] = Write("data", u[k], data'[u[k]])
      <4> HIDE DEF q, k, w
      <4>1. CopyIndirect(u, k, a)[1] = Write("data", u[k], data'[u[k]])
        BY CopyWrites
      <4>2. QED
        BY <2>8, <3>1, <4>1
    <3>3. /\ at(p) = CopyImg(m, n1, f, b1, u, k - 1, a, TablesAt(s, k - 1), k)
          /\ at(p - 1) = CopyImg(m, n1, f, b1, u, k - 1, a, TablesAt(s, k - 1), k - 1)
      BY <2>1, <2>3, <3>1
    <3>4. IsFunction(data)
      BY DiskIs DEF Inside
    <3> HIDE DEF q, k, im, at, w
    <3>5. QED
      BY <2>2, <2>3, <3>2, <3>3, <3>4, DataStored
  <2>5. CASE p = 3 * q - 1
    <3>1. /\ (p + 1) \div 3 = q /\ p \div 3 = q - 1 /\ (p - 1) \div 3 = q - 1 /\ 1 + ((p - 1) % 3) = 2
      BY <2>1, <2>5
    <3>2. w[p] = Write("inode", Created, CopiedUpTo(u, k, a))
      BY <2>8, <3>1, CopyWrites
    <3>3. /\ at(p) = CopyImg(m, n1, f, b1, u, k, a, TablesAt(s, k - 1), k)
          /\ at(p - 1) = CopyImg(m, n1, f, b1, u, k - 1, a, TablesAt(s, k - 1), k)
      BY <2>1, <2>3, <3>1
    <3> HIDE DEF q, k, im, at, w
    <3>4. QED
      BY <2>2, <3>2, <3>3, InodeStored
  <2>6. CASE p = 3 * q
    <3>1. /\ (p + 1) \div 3 = q /\ p \div 3 = q /\ (p - 1) \div 3 = q - 1 /\ 1 + ((p - 1) % 3) = 3
      BY <2>1, <2>6
    <3>2. w[p] = Write("indirect", a, IndirectUpTo(u, k))
      BY <2>8, <3>1, CopyWrites
    <3>3. /\ at(p) = CopyImg(m, n1, f, b1, u, k, a, TablesAt(s, k), k)
          /\ at(p - 1) = CopyImg(m, n1, f, b1, u, k, a, TablesAt(s, k - 1), k)
      BY <2>1, <2>3, <3>1
    <3> HIDE DEF q, k, im, at, w
    <3>4. QED
      BY <2>2, <3>2, <3>3, TableStored
  <2>7. QED
    BY <2>1, <2>4, <2>5, <2>6
<1>6. 3 * M \in Nat /\ 0 \in 0 .. 3 * M /\ 3 * M \in 0 .. 3 * M
      /\ 0 \div 3 = 0 /\ (0 + 1) \div 3 = 0 /\ (0 + 2) \div 3 = 0 /\ N + 0 = N
      /\ (3 * M) \div 3 = M /\ (3 * M + 1) \div 3 = M /\ (3 * M + 2) \div 3 = M
  BY <1>1
<1>7. /\ im[0] = CopyImg(m, n1, f, b1, u, N, a, TablesAt(s, N), N)
      /\ im[3 * M] = CopyImg(m, n1, f, b1, u, N + M, a, TablesAt(s, N + M), N + M)
  BY <1>3, <1>6
<1> HIDE DEF im, at, w
<1>8. Trail(im[0], w, im[3 * M], F, f)
  BY <1>2, <1>4, <1>5, <1>6, TrailBy, Zenon
<1>9. QED
  BY <1>7, <1>8 DEF w

LEMMA StartTrail ==
    ASSUME Inside, NEW c, NEW f, NEW path, NEW n1, NEW b1, NEW m, NEW s, NEW h,
           CopyPlan(c, f, path, n1, b1, m, s, h), m \in SUBSET Blocks, NEW u, u = Stored(s),
           Len(s) > SFS_NDIRECT, NEW a, a = s[SFS_NDIRECT + 1], NEW F, Leaves(F, f, f)
    PROVE  Trail(CopyImg(m, n1, f, b1, u, SFS_NDIRECT, 0, indirect, SFS_NDIRECT), StartIndirect(u, a),
                 CopyImg(m, n1, f, b1, u, SFS_NDIRECT, a, TablesAt(s, SFS_NDIRECT), SFS_NDIRECT), F, f)
<1> DEFINE N == SFS_NDIRECT
           t == TablesAt(s, N)
           D == CopyImg(m, n1, f, b1, u, N, 0, indirect, N)
           D2 == CopyImg(m, n1, f, b1, u, N, 0, t, N)
           E == CopyImg(m, n1, f, b1, u, N, a, t, N)
<1>1. N \in 0 .. Len(u) /\ N \in 0 .. N
  <2>1. Planned(f, s, h, u)
    BY PlanFacts
  <2>2. s \in Seq(Blocks) /\ Len(s) <= MostBlocks + 1 /\ Len(s) \in Nat /\ N \in Nat
    BY <2>1, SfsAssumption DEF Planned
  <2>3. Len(u) = (IF Len(s) <= N THEN Len(s) ELSE Len(s) - 1)
    BY <2>2, StoredAt
  <2>4. QED
    BY <2>2, <2>3
<1>2. TableUpTo(s, 0, N, indirect) /\ TableUpTo(s, 0, N, t) /\ TableUpTo(s, a, N, t) /\ m \subseteq m
  BY DEF TableUpTo, TablesAt
<1> HIDE DEF t
<1>3. Fine(D, F, f) /\ Fine(D2, F, f) /\ Fine(E, F, f)
  <2>1. Fine(D, F, f)
    BY <1>1, <1>2, StageFine
  <2>2. Fine(D2, F, f)
    BY <1>1, <1>2, StageFine
  <2>3. Fine(E, F, f)
    BY <1>1, <1>2, StageFine
  <2>4. QED
    BY <2>1, <2>2, <2>3
<1>4. D2 = Written(D, Write("indirect", a, IndirectUpTo(u, N)))
  BY TableStored DEF t
<1>5. E = Written(D2, Write("inode", Created, CopiedUpTo(u, N, a)))
  BY InodeStored
<1>6. StartIndirect(u, a) = <<Write("indirect", a, IndirectUpTo(u, N)), Write("inode", Created, CopiedUpTo(u, N, a))>>
  BY DEF StartIndirect
<1> HIDE DEF D, D2, E
<1>7. Trail(D, StartIndirect(u, a), E, F, f)
  BY <1>3, <1>4, <1>5, <1>6, TrailTwo
<1>8. QED
  BY <1>7 DEF D, E, t

----------------------------------------------------------------------------
\* cpin: the list of its writes.

LEMMA LowerOf ==
    ASSUME NEW a \in Nat, NEW b \in Nat
    PROVE  Min({a, b}) = (IF a <= b THEN a ELSE b)
<1>1. {a, b} \in SUBSET Nat
  OBVIOUS
<1>2. Min({a, b}) \in {a, b} /\ Min({a, b}) <= a /\ Min({a, b}) <= b
  BY <1>1, MinOf
<1>3. QED
  BY <1>2

\* The indirect block among the blocks found, 0 if there is none.
IndirectOf(s) == IF Len(s) > SFS_NDIRECT THEN s[SFS_NDIRECT + 1] ELSE 0

\* The inode is empty at first and complete at the end.
LEMMA CopyEnds ==
    ASSUME NEW c, NEW f, NEW path, NEW n1, NEW b1, NEW m, NEW s, NEW h,
           CopyPlan(c, f, path, n1, b1, m, s, h), NEW u, u = Stored(s)
    PROVE  /\ CopiedUpTo(u, 0, 0) = NewFile
           /\ CopiedUpTo(u, Len(u), IndirectOf(s)) = inode'[f]
<1> DEFINE N == SFS_NDIRECT
           file == HostFile(h)
           d == Direct(s)
           i == Indirect(s)
           z == Len(u) * SFS_BLOCKSIZE
           size == inode'[Created].size
           g == IndirectOf(s)
<1>1. /\ s \in Seq(Blocks) /\ Len(s) \in Nat /\ Len(s) <= MostBlocks + 1 /\ u \in Seq(Blocks) /\ Len(u) \in Nat
      /\ inode'[f].size \in Nat
  <2>1. Planned(f, s, h, u)
    BY PlanFacts
  <2>2. QED
    BY <2>1 DEF Planned
<1>2. N \in Nat /\ z \in Nat /\ 0 * SFS_BLOCKSIZE = 0 /\ file.size \in Nat
  <2>1. HostFile(h).size \in Nat
    BY HostFileIs DEF CopyPlan
  <2>2. QED
    BY <1>1, <2>1, SfsAssumption
<1>3. Created = f /\ inode'[f] = CopiedInode(file, s)
  BY DEF CopyPlan
<1>4. size \in Nat
  BY <1>1, <1>3
<1>5. /\ d \in Seq(Blocks) /\ Len(d) = (IF Len(s) <= N THEN Len(s) ELSE N)
      /\ Len(u) = Len(d) + Len(i) /\ Len(i) = (IF Len(s) <= N THEN 0 ELSE Len(s) - N - 1)
      /\ \A k \in 1 .. Len(d) : u[k] = d[k]
  <2>1. SplitAs(s, d, i, u)
    BY <1>1, Splits
  <2> HIDE DEF d, i
  <2>2. QED
    BY <2>1 DEF SplitAs
<1> HIDE DEF d, i, z, size, file
<1>6. CopiedUpTo(u, 0, 0) = NewFile
  <2>1. Min({size, 0}) = 0 /\ Min({0, N}) = 0
    BY <1>2, <1>4, LowerOf
  <2>2. SubSeq(u, 1, 0) = << >>
    BY <1>1
  <2>3. CopiedUpTo(u, 0, 0) = Inode("file", Min({size, 0}), SubSeq(u, 1, Min({0, N})), 0)
    BY <1>2, Zenon DEF CopiedUpTo, size
  <2>4. QED
    BY <2>1, <2>2, <2>3, Zenon DEF NewFile
<1>7. CopiedUpTo(u, Len(u), g) = inode'[f]
  <2>1. SubSeq(u, 1, Min({Len(u), N})) = d
    <3>1. Min({Len(u), N}) = Len(d)
      BY <1>1, <1>2, <1>5, LowerOf
    <3>2. Len(d) \in 0 .. Len(u)
      BY <1>1, <1>2, <1>5
    <3>3. SubSeq(u, 1, Len(d)) \in Seq(Blocks) /\ Len(SubSeq(u, 1, Len(d))) = Len(d)
          /\ \A k \in 1 .. Len(d) : SubSeq(u, 1, Len(d))[k] = u[k]
      BY <1>1, <3>2
    <3>4. SubSeq(u, 1, Len(d)) = d
      BY <1>5, <3>3, SameSequence
    <3>5. QED
      BY <3>1, <3>4, Zenon
  <2>2. CopiedInode(file, s) = Inode("file", Min({file.size, z}), d, g)
    BY DEF CopiedInode, IndirectOf, z, d
  <2>3. size = Min({file.size, z})
    BY <1>3, <2>2 DEF size, Inode
  <2>4. Min({size, z}) = size
    BY <1>2, <1>4, <2>3, LowerOf
  <2>5. CopiedUpTo(u, Len(u), g) = Inode("file", Min({size, z}), SubSeq(u, 1, Min({Len(u), N})), g)
    BY DEF CopiedUpTo, size, z
  <2>6. QED
    BY <1>3, <2>1, <2>2, <2>3, <2>4, <2>5, Zenon
<1>8. QED
  BY <1>6, <1>7

\* So is the table.
LEMMA TableEnds ==
    ASSUME NEW s \in Seq(Blocks), Len(s) <= MostBlocks + 1, NEW u, u = Stored(s)
    PROVE  CopiedIndirect(s) = IF Len(s) > SFS_NDIRECT THEN TablesAt(s, Len(u)) ELSE indirect
<1> DEFINE N == SFS_NDIRECT
           d == Direct(s)
           i == Indirect(s)
           a == s[N + 1]
           table == [k \in 1 .. SFS_DBPERIDB |-> IF k <= Len(i) THEN i[k] ELSE 0]
<1>1. N \in Nat /\ Len(s) \in Nat
  BY SfsAssumption
<1>2. CASE Len(s) <= N
  BY <1>1, <1>2 DEF CopiedIndirect
<1>3. CASE ~(Len(s) <= N)
  <2>1. /\ d \in Seq(Blocks) /\ i \in Seq(Blocks) /\ Len(d) = N
        /\ Len(u) = Len(d) + Len(i) /\ Len(u) \in Nat
        /\ \A k \in Len(d) + 1 .. Len(u) : u[k] = i[k - Len(d)]
    <3>1. SplitAs(s, d, i, u)
      BY Splits
    <3> HIDE DEF d, i
    <3>2. QED
      BY <1>1, <1>3, <3>1 DEF SplitAs
  <2>2. CopiedIndirect(s) = Put(indirect, a, table)
    BY <1>3 DEF CopiedIndirect
  <2>3. Len(i) \in Nat
    BY <2>1
  <2> HIDE DEF i, d
  <2>4. ASSUME NEW k \in 1 .. SFS_DBPERIDB
        PROVE  (IF k <= Len(i) THEN i[k] ELSE 0) = (IF N + k <= Len(u) THEN u[N + k] ELSE 0)
    <3>1. k <= Len(i) <=> N + k <= Len(u)
      BY <1>1, <2>1, <2>3
    <3>2. ASSUME N + k <= Len(u)
          PROVE  u[N + k] = i[k]
      <4>1. N + k \in Len(d) + 1 .. Len(u) /\ (N + k) - Len(d) = k
        BY <1>1, <2>1, <2>3, <3>2
      <4>2. QED
        BY <2>1, <4>1
    <3>3. QED
      BY <3>1, <3>2
  <2>5. table = IndirectUpTo(u, Len(u))
    BY <2>4 DEF IndirectUpTo
  <2>6. QED
    <3>1. CopiedIndirect(s) = TablesAt(s, Len(u)) /\ Len(s) > N
      <4> HIDE DEF table
      <4>1. Put(indirect, a, table) = TablesAt(s, Len(u))
        BY <2>5 DEF TablesAt
      <4>2. QED
        BY <1>1, <1>3, <2>2, <4>1
    <3>2. QED
      BY <3>1
<1>4. QED
  BY <1>2, <1>3

\* What the writes are made of.
CpinMade(m, s, u, a) ==
    /\ a = 0 <=> Len(s) <= SFS_NDIRECT
    /\ CpinWrites = Entering(m) \o <<Write("inode", Created, NewFile)>>
         \o CopyingDirect(u, Len(Direct(s)))
         \o (IF a = 0 THEN << >> ELSE StartIndirect(u, a) \o CopyingIndirect(u, Len(u) - SFS_NDIRECT, a))
         \o MapWrites(bitmap')

LEMMA CpinList ==
    ASSUME NEW c, NEW f, NEW path, NEW n1, NEW b1, NEW m, NEW s, NEW h, 0 \in m,
           CopyPlan(c, f, path, n1, b1, m, s, h), NEW u, u = Stored(s), NEW a, a = IndirectOf(s),
           indirect' = CopiedIndirect(s), bitmap' = m \cup ToSet(s)
    PROVE  CpinMade(m, s, u, a)
<1> DEFINE N == SFS_NDIRECT
           i == inode'[Created]
           direct == UpToMissing(i.direct)
           stored == IF i.indirect = 0 THEN direct ELSE direct \o UpToMissing(indirect'[i.indirect])
           copied == ({i.indirect} \cup ToSet(stored)) \ {0}
           r == CopiedInode(HostFile(h), s)
<1>1. /\ s \in Seq(Blocks) /\ Len(s) \in Nat /\ Len(s) <= MostBlocks + 1 /\ N \in Nat
      /\ \A k \in 1 .. Len(s) : s[k] \notin m
      /\ \A k, l \in 1 .. Len(s) : s[k] = s[l] => k = l
  BY SfsAssumption DEF CopyPlan, Untaken
<1>2. \A k \in 1 .. Len(s) : s[k] # 0
  BY <1>1
<1>3. /\ r \in InodeRecords /\ ListsDirect(s, r)
      /\ r.indirect = a
  <2>1. HostFile(h).size \in Nat
    BY HostFileIs DEF CopyPlan
  <2>2. QED
    BY <1>1, <2>1, CopiedInodeIs DEF IndirectOf, ListsDirect
<1>4. i = r
  BY DEF CopyPlan
<1> HIDE DEF r, i
<1>5. direct = Direct(s)
  BY <1>1, <1>2, <1>3, <1>4, DirectCopied
<1>6. a = 0 <=> Len(s) <= N
  <2>1. Len(s) > N => N + 1 \in 1 .. Len(s)
    BY <1>1
  <2>2. QED
    BY <1>1, <1>2, <2>1 DEF IndirectOf
<1>7. stored = u
  <2>1. CASE a = 0
    <3>1. Len(s) <= N
      BY <1>6, <2>1
    <3>2. Direct(s) \in Seq(Blocks) /\ Indirect(s) = << >>
      <4>1. SplitAs(s, Direct(s), Indirect(s), u)
        BY <1>1, Splits
      <4>2. QED
        BY <3>1, <4>1 DEF SplitAs
    <3>3. u = Direct(s)
      <4>1. Direct(s) \o << >> = Direct(s)
        BY <3>2
      <4>2. QED
        BY <3>2, <4>1 DEF Stored
    <3>4. QED
      BY <1>3, <1>4, <1>5, <2>1, <3>3
  <2>2. CASE a # 0
    <3>1. Len(s) > N
      BY <1>1, <1>6, <2>2
    <3>2. ListedBy(s, r, indirect')
      <4>1. indirect'[a] = IndirectUpTo(u, Len(u))
        <5>1. indirect' = TablesAt(s, Len(u))
          BY <1>1, <3>1, TableEnds
        <5>2. a = s[N + 1]
          BY <3>1 DEF IndirectOf
        <5>3. QED
          BY <5>1, <5>2 DEF TablesAt, Put
      <4>2. u \in Seq(Blocks) /\ Len(u) \in Nat /\ Len(u) = Len(s) - 1
            /\ \A k \in 1 .. Len(u) : Where(k) \in 1 .. Len(s) /\ u[k] = s[Where(k)]
        BY <1>1, <3>1, StoredAt
      <4>3. Len(u) \in 0 .. Len(u)
        BY <4>2
      <4>4. /\ indirect'[a] \in [IndirectRows -> Blocks]
            /\ \A k \in IndirectRows : indirect'[a][k] = IF N + k <= Len(u) THEN u[N + k] ELSE 0
        BY <4>1, <4>2, <4>3, IndirectUpToIs
      <4>5. ASSUME NEW k \in IndirectRows
            PROVE  indirect'[a][k] = IF N + 1 + k <= Len(s) THEN s[N + 1 + k] ELSE 0
        <5>1. k \in Nat /\ k > 0
          BY DEF IndirectRows
        <5>2. N + k <= Len(u) <=> N + 1 + k <= Len(s)
          BY <1>1, <4>2, <5>1
        <5>3. N + k <= Len(u) => N + k \in 1 .. Len(u) /\ Where(N + k) = N + 1 + k
          BY <1>1, <4>2, <5>1 DEF Where
        <5>4. QED
          BY <4>2, <4>4, <5>2, <5>3
      <4>6. QED
        BY <1>3, <3>1, <4>4, <4>5 DEF ListedBy, IndirectOf
    <3>3. BlocksIn([q \in {f} |-> r], indirect', f) = u
      <4> DEFINE n == [q \in {f} |-> r]
      <4>1. n[f] = r
        OBVIOUS
      <4> HIDE DEF n
      <4>2. BlocksIn(n, indirect', f) = u
        BY <1>1, <1>2, <1>3, <3>2, <4>1, BlocksCopied
      <4>3. QED
        BY <4>2 DEF n
    <3>4. Len(direct) = N
      <4>1. Len(Direct(s)) = (IF Len(s) <= N THEN Len(s) ELSE N)
        BY <1>1, Splits DEF SplitAs
      <4>2. QED
        BY <1>5, <3>1, <4>1, <1>1
    <3>5. QED
      BY <1>3, <1>4, <2>2, <3>3, <3>4 DEF BlocksIn
  <2>3. QED
    BY <2>1, <2>2
<1>8. bitmap' \ copied = m
  <2>1. ToSet(u) \cup TableOf(s) = ToSet(s) /\ ToSet(s) = {s[k] : k \in 1 .. Len(s)}
    BY <1>1, BlocksFound
  <2>2. TableOf(s) = {a} \ {0}
    <3>1. Len(s) > N => N + 1 \in 1 .. Len(s)
      BY <1>1
    <3>2. QED
      BY <1>1, <1>2, <3>1 DEF TableOf, IndirectOf
  <2>3. 0 \notin ToSet(s) /\ ToSet(s) \cap m = {}
    BY <1>1, <1>2, <2>1
  <2>4. copied = ToSet(s)
    BY <1>3, <1>4, <1>7, <2>1, <2>2, <2>3, Zenon
  <2> HIDE DEF copied
  <2>5. QED
    BY <2>3, <2>4
<1>9. CpinWrites = Entering(bitmap' \ copied) \o <<Write("inode", Created, NewFile)>>
        \o CopyingDirect(stored, Len(direct))
        \o (IF i.indirect = 0 THEN << >>
            ELSE StartIndirect(stored, i.indirect) \o CopyingIndirect(stored, Len(stored) - N, i.indirect))
        \o MapWrites(bitmap')
  BY DEF CpinWrites, i
<1> HIDE DEF copied, stored, direct
<1>10. QED
  BY <1>3, <1>4, <1>5, <1>6, <1>7, <1>8, <1>9, Zenon DEF CpinMade

----------------------------------------------------------------------------
\* cpin as a whole.

LEMMA CpinPlan ==
    ASSUME Inside, NEW path \in Names, NEW h \in HostFiles, Cpin(path, h), disk' # disk,
           NEW e, e = Lowest(Need(1)), NEW c, c = e[1], NEW f, f = Last(e),
           NEW n1, n1 = InodesEntered(c), NEW b1, b1 = DirBlocksEntered(Entry(f, path), c),
           NEW m, m = GrownMap(c) \cup {f},
           NEW s, s = Scan(bitmap \cup ToSet(e), Wanted(HostFile(h).size))
    PROVE  /\ CopyPlan(c, f, path, n1, b1, m, s, h)
           /\ bitmap' = m \cup ToSet(s) /\ inode' = Put(n1, f, CopiedInode(HostFile(h), s))
           /\ dirBlock' = b1 /\ indirect' = CopiedIndirect(s) /\ cwd' = cwd
           /\ m \in SUBSET Blocks /\ 0 \in m /\ f # 0
<1> DEFINE file == HostFile(h)
<1>1. /\ Room(1) /\ file # NoFile /\ bitmap' = (bitmap \cup ToSet(e)) \cup ToSet(s)
      /\ inode' = Put(n1, f, CopiedInode(file, s)) /\ dirBlock' = b1
      /\ indirect' = CopiedIndirect(s) /\ data' = CopiedData(file, s) /\ cwd' = cwd
  BY Zenon DEF Cpin, NoRoom, Refuse, RefuseForRoom, disk, Marked
<1>2. /\ f \in Blocks \ bitmap /\ c \in Blocks \ bitmap /\ (NeedsBlock => c # f)
      /\ bitmap \cup ToSet(e) = m
  BY <1>1, BlocksForFile
<1>3. Entered(c, f, path, n1, b1)
  BY <1>1, <1>2 DEF Entered, Room
<1>4. Untaken(m, MostBlocks + 1, s)
  <2>1. file.size \in Nat
    BY <1>1, HostFileIs
  <2>2. Wanted(file.size) \in Nat /\ Wanted(file.size) <= MostBlocks + 1
    BY <2>1, WantedIs
  <2>3. Untaken(m, Wanted(file.size), s)
    BY <1>2, <2>2, ScanUntaken, Zenon
  <2>4. Len(s) \in Nat /\ MostBlocks + 1 \in Nat
    BY <2>3, SfsAssumption DEF Untaken, MostBlocks
  <2>5. Len(s) <= MostBlocks + 1
    <3> DEFINE w == Wanted(file.size)
    <3>1. w \in Nat /\ w <= MostBlocks + 1 /\ Len(s) <= w
      BY <2>2, <2>3 DEF Untaken
    <3> HIDE DEF w
    <3>2. QED
      BY <2>4, <3>1
  <2>6. QED
    BY <2>3, <2>5, Zenon DEF Untaken
<1>5. m \in SUBSET Blocks /\ f # 0 /\ 0 \in m /\ f \notin DOMAIN inode
  BY <1>2, DiskIs, VolumeFacts DEF GrownMap, Inside
<1>6. DOMAIN n1 = DOMAIN inode
  BY <1>3, EnteredNameSane
<1>7. inode'[f] = CopiedInode(file, s) /\ DOMAIN inode' = DOMAIN inode \cup {f}
  BY <1>1, <1>6 DEF Put
<1>8. Created = f
  BY <1>5, <1>7, CreatedIs
<1>9. QED
  BY <1>1, <1>2, <1>3, <1>4, <1>5, <1>7, <1>8, Zenon DEF CopyPlan

\* The disk m2, n2, b1, x, data' has the whole copy.
CopiedWhole(f, n1, b1, s, x, n2, m2) ==
    /\ m2 \in SUBSET Blocks /\ TableUpTo(s, IndirectOf(s), Len(Stored(s)), x)
    /\ SaneDisk(Img(m2, n2, b1, x, data'), 0)
    /\ LiveIn(n2, b1, f) = LiveIn(inode, dirBlock, 0)
    /\ LiveIn(n2, b1, 0) = LiveIn(inode, dirBlock, 0) \cup {f}
    /\ FilesOf(n2, b1, x, data', f) = FilesOf(inode, dirBlock, indirect, data, f)
    /\ \A i \in LiveIn(n2, b1, f) : n2[i] = n1[i]

LEMMA CopiedDisk ==
    ASSUME Inside, NEW c, NEW f, NEW path, NEW n1, NEW b1, NEW m, NEW s, NEW h,
           CopyPlan(c, f, path, n1, b1, m, s, h), m \in SUBSET Blocks,
           NEW x, x = CopiedIndirect(s), NEW n2, n2 = Put(n1, f, inode'[f]),
           NEW m2, m2 = m \cup ToSet(s)
    PROVE  CopiedWhole(f, n1, b1, s, x, n2, m2)
<1> DEFINE u == Stored(s)
           k == Len(u)
           a == IndirectOf(s)
           r == inode'[f]
           t == data'
<1>1. /\ s \in Seq(Blocks) /\ Len(s) \in Nat /\ Len(s) <= MostBlocks + 1 /\ k \in Nat /\ Untaken(m, MostBlocks + 1, s)
  <2>1. Planned(f, s, h, u)
    BY PlanFacts
  <2>2. QED
    BY <2>1 DEF Planned, CopyPlan
<1>2. ToSet(s) \subseteq Blocks
  BY <1>1 DEF ToSet
<1>3. m2 \in SUBSET Blocks /\ m \subseteq m2
  BY <1>2
<1>4. TableUpTo(s, a, k, x)
  BY <1>1, TableEnds DEF TableUpTo, TablesAt, IndirectOf
<1>5. t = DataUpTo(u, k)
  <2>1. IsFunction(data)
    BY DiskIs DEF Inside
  <2>2. DataUpTo(u, Len(u)) = data'
    BY <2>1, DataSteps
  <2>3. QED
    BY <2>2
<1>6. r = CopiedUpTo(u, k, a)
  BY CopyEnds
<1>7. k \in 0 .. Len(u) /\ k \in 0 .. k
  BY <1>1
<1>8. u = Stored(s) /\ n2 = Put(n1, f, r)
  OBVIOUS
<1> HIDE DEF u, k, a, r, t
<1>9. InCopy(c, f, path, n1, b1, m, s, h, k, r, x, t)
  BY <1>4, <1>5, <1>6, <1>7, <1>8, StageIn
<1>10. /\ LiveIn(n2, b1, f) = LiveIn(inode, dirBlock, 0)
       /\ FilesOf(n2, b1, x, t, f) = FilesOf(inode, dirBlock, indirect, data, f)
       /\ \A i \in LiveIn(n2, b1, f) : n2[i] = n1[i]
       /\ Owns(n2, b1, x, m2, f) =>
             /\ SaneDisk(Img(m2, n2, b1, x, t), 0)
             /\ LiveIn(n2, b1, 0) = LiveIn(inode, dirBlock, 0) \cup {f}
  BY <1>3, <1>8, <1>9, CopySane
<1>11. Owns(n2, b1, x, m2, f)
  <2> DEFINE e == EntriesRead(b1)
             y == RowsRead(x)
  <2>1. y = RowsRead(x)
    OBVIOUS
  <2>2. n2[f] = r
    BY <1>8 DEF Put
  <2>3. Copying(h, s, k, r, x, t)
    BY <1>9 DEF InCopy
  <2> HIDE DEF e, y
  <2>4. \A i, j, q : q # 0 /\ Place(n2, e, y, f, i, j, q) => q \in ToSet(s)
    BY <1>1, <2>1, <2>2, <2>3, CopyPlaces
  <2>5. QED
    BY <2>4 DEF Owns, LeadsTo, e, y
<1>12. QED
  BY <1>3, <1>4, <1>10, <1>11 DEF a, k, u, t, CopiedWhole

LEMMA CpinTrail ==
    ASSUME Inside, NEW path \in Names, NEW h \in HostFiles, Cpin(path, h), disk' # disk
    PROVE  Rest' /\ Trail(Disk, CpinWrites, Disk', Disk', Created) /\ Created # 0
<1> DEFINE e == Lowest(Need(1))
           c == e[1]
           f == Last(e)
           n1 == InodesEntered(c)
           b1 == DirBlocksEntered(Entry(f, path), c)
           m == GrownMap(c) \cup {f}
           s == Scan(bitmap \cup ToSet(e), Wanted(HostFile(h).size))
           u == Stored(s)
           a == IndirectOf(s)
           L == Len(Direct(s))
           F == Disk'
           x2 == CopiedIndirect(s)
           n2 == Put(n1, f, inode'[f])
           m2 == m \cup ToSet(s)
           N == SFS_NDIRECT
<1>1. /\ CopyPlan(c, f, path, n1, b1, m, s, h)
      /\ bitmap' = m2 /\ inode' = Put(n1, f, CopiedInode(HostFile(h), s))
      /\ dirBlock' = b1 /\ indirect' = x2 /\ cwd' = cwd
      /\ m \in SUBSET Blocks /\ 0 \in m /\ f # 0
  <2>1. /\ e = Lowest(Need(1)) /\ c = e[1] /\ f = Last(e) /\ n1 = InodesEntered(c)
        /\ b1 = DirBlocksEntered(Entry(f, path), c) /\ m = GrownMap(c) \cup {f}
        /\ s = Scan(bitmap \cup ToSet(e), Wanted(HostFile(h).size))
    OBVIOUS
  <2> HIDE DEF e, c, f, n1, b1, m, s
  <2>2. QED
    BY <2>1, CpinPlan
<1>2. u = Stored(s) /\ a = IndirectOf(s) /\ x2 = CopiedIndirect(s) /\ n2 = Put(n1, f, inode'[f]) /\ m2 = m \cup ToSet(s)
      /\ m = GrownMap(c) \cup {f}
  OBVIOUS
<1> HIDE DEF e, c, f, n1, b1, m, s, u, a, L, F, x2, n2, m2
<1>3. Created = f /\ inode' = n2 /\ Entered(c, f, path, n1, b1)
  BY <1>1 DEF CopyPlan, n2
<1>4. /\ m2 \in SUBSET Blocks /\ TableUpTo(s, a, Len(u), x2)
      /\ SaneDisk(Img(m2, n2, b1, x2, data'), 0)
      /\ LiveIn(n2, b1, f) = LiveIn(inode, dirBlock, 0)
      /\ LiveIn(n2, b1, 0) = LiveIn(inode, dirBlock, 0) \cup {f}
      /\ FilesOf(n2, b1, x2, data', f) = FilesOf(inode, dirBlock, indirect, data, f)
      /\ \A i \in LiveIn(n2, b1, f) : n2[i] = n1[i]
  <2>1. CopiedWhole(f, n1, b1, s, x2, n2, m2)
    BY <1>1, <1>2, CopiedDisk
  <2>2. QED
    BY <1>2, <2>1 DEF CopiedWhole
<1>5. F = Img(m2, n2, b1, x2, data')
  BY <1>1, <1>3, DiskNext DEF F
<1>6. Leaves(F, f, f)
  BY <1>4, <1>5 DEF Leaves
<1>7. LiveIn(n1, b1, f) = LiveIn(inode, dirBlock, 0) /\ DOMAIN n1 = DOMAIN inode
  BY <1>2, <1>3, EnteredNameSane
<1>8. /\ cwd \in LiveIn(n1, b1, f) /\ n1[cwd].type = "dir" /\ cwd # f
      /\ \A d \in LiveIn(n1, b1, f), k \in Rows :
            n1[d].type = "dir" /\ n1[d].direct[k] # 0 => n1[d].direct[k] \in DOMAIN b1
  BY <1>3, EnteredDirs
<1>9. LeavesHere(n1, b1)
  BY <1>1, <1>3, <1>4, <1>7, <1>8 DEF LeavesHere
<1>10. /\ Len(s) \in Nat /\ u \in Seq(Blocks) /\ Len(u) \in Nat /\ N \in Nat
       /\ L = (IF Len(s) <= N THEN Len(s) ELSE N)
       /\ Len(u) = (IF Len(s) <= N THEN Len(s) ELSE Len(s) - 1)
  <2>1. Planned(f, s, h, u)
    BY <1>1, <1>2, PlanFacts
  <2>2. /\ s \in Seq(Blocks) /\ Len(s) \in Nat /\ Len(s) <= MostBlocks + 1 /\ u \in Seq(Blocks) /\ Len(u) \in Nat
    BY <2>1 DEF Planned
  <2>3. SplitAs(s, Direct(s), Indirect(s), u)
    BY <1>2, <2>2, Splits
  <2>4. L = (IF Len(s) <= N THEN Len(s) ELSE N)
    BY <2>3 DEF SplitAs, L
  <2>5. Len(u) = (IF Len(s) <= N THEN Len(s) ELSE Len(s) - 1)
    BY <1>2, <2>2, StoredAt
  <2>6. QED
    BY <2>2, <2>4, <2>5, SfsAssumption
<1>11. /\ a = 0 <=> Len(s) <= N
       /\ CpinWrites = Entering(m) \o <<Write("inode", Created, NewFile)>>
            \o CopyingDirect(u, L)
            \o (IF a = 0 THEN << >> ELSE StartIndirect(u, a) \o CopyingIndirect(u, Len(u) - N, a))
            \o MapWrites(bitmap')
  <2>1. bitmap' = m \cup ToSet(s) /\ indirect' = CopiedIndirect(s)
    BY <1>1, <1>2
  <2>2. CpinMade(m, s, u, a)
    BY <1>1, <1>2, <2>1, CpinList
  <2>3. QED
    BY <2>2 DEF CpinMade, L
<1> DEFINE D0 == Img(m, n1, b1, indirect, data)
           D1 == CopyImg(m, n1, f, b1, u, 0, 0, indirect, 0)
           D2 == CopyImg(m, n1, f, b1, u, L, 0, indirect, L)
           D3 == CopyImg(m, n1, f, b1, u, Len(u), a, x2, Len(u))
<1>12. Trail(Disk, Entering(m), D0, F, f)
  <2>1. GrownMap(c) \cup {f} \subseteq m
    BY <1>2
  <2>2. QED
    BY <1>1, <1>3, <1>6, <1>9, <2>1, EnterTrail
<1>13. Trail(D0, <<Write("inode", Created, NewFile)>>, D1, F, f)
  <2>1. Fine(D0, F, f)
    BY <1>12, TrailEnds
  <2>2. Fine(D1, F, f)
    <3>1. 0 \in 0 .. Len(u) /\ 0 \in 0 .. 0 /\ m \subseteq m
      BY <1>10
    <3>2. TableUpTo(s, 0, 0, indirect)
      BY DEF TableUpTo
    <3>3. QED
      BY <1>1, <1>2, <1>6, <3>1, <3>2, StageFine
  <2>3. D1 = Written(D0, Write("inode", Created, NewFile))
    <3>1. CopiedUpTo(u, 0, 0) = NewFile
      BY <1>1, <1>2, CopyEnds
    <3>2. DataUpTo(u, 0) = data
      <4>1. IsFunction(data)
        BY DiskIs DEF Inside
      <4>2. QED
        BY <1>1, <1>2, <4>1, DataSteps
    <3>3. QED
      BY <1>3, <3>1, <3>2, WrittenIs DEF CopyImg
  <2> HIDE DEF D0, D1
  <2>4. QED
    BY <2>1, <2>2, <2>3, TrailOne
<1>14. Trail(D1, CopyingDirect(u, L), D2, F, f)
  <2>1. L \in 0 .. Len(u)
    BY <1>10
  <2>2. QED
    BY <1>1, <1>2, <1>6, <2>1, DirectTrail
<1>15. Trail(D2, IF a = 0 THEN << >> ELSE StartIndirect(u, a) \o CopyingIndirect(u, Len(u) - N, a), D3, F, f)
  <2>1. CASE a = 0
    <3>1. Len(s) <= N
      BY <1>11, <2>1
    <3>2. Len(u) = L
      BY <1>10, <3>1
    <3>3. x2 = indirect
      BY <3>1, <1>10 DEF x2, CopiedIndirect
    <3>4. D3 = D2
      BY <2>1, <3>2, <3>3
    <3>5. Fine(D2, F, f)
      BY <1>14, TrailEnds
    <3> HIDE DEF D2, D3
    <3>6. Trail(D2, << >>, D2, F, f)
      BY <3>5, TrailEmpty
    <3>7. QED
      BY <2>1, <3>4, <3>6
  <2>2. CASE a # 0
    <3> DEFINE M == Len(u) - N
               E == CopyImg(m, n1, f, b1, u, N, a, TablesAt(s, N), N)
    <3>1. Len(s) > N /\ L = N /\ M \in Nat /\ N + M = Len(u) /\ N + M <= Len(u)
      BY <1>10, <1>11, <2>2
    <3>2. a = s[SFS_NDIRECT + 1]
      BY <1>2, <3>1 DEF IndirectOf
    <3>3. x2 = TablesAt(s, N + M)
      <4>1. Planned(f, s, h, u)
        BY <1>1, <1>2, PlanFacts
      <4>2. s \in Seq(Blocks) /\ Len(s) <= MostBlocks + 1
        BY <4>1 DEF Planned
      <4>3. CopiedIndirect(s) = IF Len(s) > SFS_NDIRECT THEN TablesAt(s, Len(u)) ELSE indirect
        BY <1>2, <4>2, TableEnds
      <4>4. QED
        BY <1>2, <3>1, <4>3
    <3>4. D2 = CopyImg(m, n1, f, b1, u, SFS_NDIRECT, 0, indirect, SFS_NDIRECT)
      BY <3>1
    <3>5. D3 = CopyImg(m, n1, f, b1, u, SFS_NDIRECT + M, a, TablesAt(s, SFS_NDIRECT + M), SFS_NDIRECT + M)
      BY <3>1, <3>3
    <3> HIDE DEF M, D2, D3
    <3>6. Trail(D2, StartIndirect(u, a), E, F, f)
      BY <1>1, <1>2, <1>6, <3>1, <3>2, <3>4, StartTrail
    <3>7. Trail(E, CopyingIndirect(u, M, a), D3, F, f)
      BY <1>1, <1>2, <1>6, <3>1, <3>2, <3>5, IndirectTrail
    <3> HIDE DEF E
    <3>8. Trail(D2, StartIndirect(u, a) \o CopyingIndirect(u, M, a), D3, F, f)
      BY <3>6, <3>7, TrailCat
    <3>9. QED
      BY <2>2, <3>8 DEF M
  <2>3. QED
    BY <2>1, <2>2
<1>16. D3 = Img(m, n2, b1, x2, data') /\ Put(n1, f, CopiedUpTo(u, Len(u), a)) = n2
  <2>1. CopiedUpTo(u, Len(u), a) = inode'[f]
    BY <1>1, <1>2, CopyEnds
  <2>2. DataUpTo(u, Len(u)) = data'
    <3>1. IsFunction(data)
      BY DiskIs DEF Inside
    <3>2. QED
      BY <1>1, <1>2, <3>1, DataSteps
  <2>3. QED
    BY <1>2, <2>1, <2>2 DEF CopyImg
<1>17. Trail(D3, MapWrites(bitmap'), F, F, f)
  <2>1. ASSUME NEW r \in SUBSET Blocks, m \subseteq r
        PROVE  Fine(Img(r, n2, b1, x2, data'), F, f)
    <3>1. Len(u) \in 0 .. Len(u)
      BY <1>10
    <3>2. Fine(CopyImg(r, n1, f, b1, u, Len(u), a, x2, Len(u)), F, f)
      BY <1>1, <1>2, <1>4, <1>6, <2>1, <3>1, StageFine
    <3>3. DataUpTo(u, Len(u)) = data'
      <4>1. IsFunction(data)
        BY DiskIs DEF Inside
      <4>2. QED
        BY <1>1, <1>2, <4>1, DataSteps
    <3>4. QED
      BY <1>16, <3>2, <3>3 DEF CopyImg
  <2>2. \A r \in SUBSET Blocks : m \subseteq r /\ r \subseteq m2 => Fine(Img(r, n2, b1, x2, data'), F, f)
    BY <2>1
  <2>3. SaneDisk(Img(m, n2, b1, x2, data'), f)
    <3>1. Len(u) \in 0 .. Len(u) /\ m \subseteq m
      BY <1>10
    <3>2. DataUpTo(u, Len(u)) = data' /\ CopiedUpTo(u, Len(u), a) = inode'[f]
      <4>1. IsFunction(data)
        BY DiskIs DEF Inside
      <4>2. DataUpTo(u, Len(u)) = data'
        BY <1>1, <1>2, <4>1, DataSteps
      <4>3. CopiedUpTo(u, Len(u), a) = inode'[f]
        BY <1>1, <1>2, CopyEnds
      <4>4. QED
        BY <4>2, <4>3
    <3> DEFINE t == data'
               r == inode'[f]
               k == Len(u)
    <3>3. t = DataUpTo(u, k) /\ r = CopiedUpTo(u, k, a) /\ n2 = Put(n1, f, r)
          /\ k \in 0 .. Len(u) /\ TableUpTo(s, a, k, x2)
      BY <1>2, <1>4, <3>1, <3>2
    <3> HIDE DEF t, r, k
    <3>4. k \in 0 .. k
      BY <3>3, <1>10
    <3>5. InCopy(c, f, path, n1, b1, m, s, h, k, r, x2, t)
      BY <1>1, <1>2, <3>3, <3>4, StageIn
    <3>6. SaneDisk(Img(m, n2, b1, x2, t), f)
      BY <1>1, <3>1, <3>3, <3>5, CopySane
    <3>7. QED
      BY <3>6 DEF t
  <2>4. m2 \in SUBSET Blocks /\ m \subseteq m2
    BY <1>2, <1>4
  <2> DEFINE t2 == data'
  <2>5. Trail(Img(m, n2, b1, x2, t2), MapWrites(m2), Img(m2, n2, b1, x2, t2), F, f)
    <3>1. SaneDisk(Img(m, n2, b1, x2, t2), f)
          /\ \A r \in SUBSET Blocks : m \subseteq r /\ r \subseteq m2 => Fine(Img(r, n2, b1, x2, t2), F, f)
      BY <2>2, <2>3
    <3> HIDE DEF t2
    <3>2. QED
      BY <2>4, <3>1, GrowMapTrail
  <2>6. QED
    BY <1>1, <1>5, <1>16, <2>5
<1>18. Trail(Disk, CpinWrites, F, F, f)
  <2> DEFINE w1 == Entering(m)
             w2 == <<Write("inode", Created, NewFile)>>
             w3 == CopyingDirect(u, L)
             w4 == IF a = 0 THEN << >> ELSE StartIndirect(u, a) \o CopyingIndirect(u, Len(u) - N, a)
             w5 == MapWrites(bitmap')
  <2>1. Trail(Disk, w1, D0, F, f) /\ Trail(D0, w2, D1, F, f) /\ Trail(D1, w3, D2, F, f)
        /\ Trail(D2, w4, D3, F, f) /\ Trail(D3, w5, F, F, f)
    BY <1>12, <1>13, <1>14, <1>15, <1>17
  <2>2. CpinWrites = w1 \o w2 \o w3 \o w4 \o w5
    BY <1>11
  <2> HIDE DEF w1, w2, w3, w4, w5, D0, D1, D2, D3
  <2>3. Trail(Disk, w1 \o w2, D1, F, f)
    BY <2>1, TrailCat
  <2>4. Trail(Disk, w1 \o w2 \o w3, D2, F, f)
    BY <2>1, <2>3, TrailCat
  <2>5. Trail(Disk, w1 \o w2 \o w3 \o w4, D3, F, f)
    BY <2>1, <2>4, TrailCat
  <2>6. Trail(Disk, w1 \o w2 \o w3 \o w4 \o w5, F, F, f)
    BY <2>1, <2>5, TrailCat
  <2>7. QED
    BY <2>2, <2>6
<1>19. DirsWritten(inode', dirBlock')
  <2>1. ASSUME NEW d \in LiveIn(n2, b1, 0), NEW k \in Rows, n2[d].type = "dir", n2[d].direct[k] # 0
        PROVE  n2[d].direct[k] \in DOMAIN b1
    <3>1. n2[f].type = "file"
      <4>1. inode'[f].type = "file"
        BY <1>1 DEF CopyPlan, CopiedInode, Inode
      <4>2. QED
        BY <1>3, <4>1
    <3>2. d # f
      BY <2>1, <3>1
    <3>3. QED
      BY <1>4, <1>7, <1>8, <2>1, <3>2
  <2>2. QED
    BY <1>1, <1>3, <2>1 DEF DirsWritten, LiveIn
<1>20. cwd' \in LiveIn(inode', dirBlock', 0) /\ inode'[cwd'].type = "dir"
  BY <1>1, <1>3, <1>4, <1>7, <1>8
<1>21. Rest'
  <2>1. SaneDisk(Img(bitmap', inode', dirBlock', indirect', data'), 0)
    BY <1>1, <1>3, <1>4
  <2>2. QED
    BY <1>19, <1>20, <2>1, RestNext
<1>22. QED
  BY <1>1, <1>3, <1>18, <1>21 DEF F

----------------------------------------------------------------------------
\* A volume as it is formatted is sane.

LEMMA FormattedRest ==
    ASSUME Init
    PROVE  Rest
<1> DEFINE i == SFS_ROOT_LOCATION
           c == RootBlock
           e == EntriesRead(dirBlock)
           y == RowsRead(indirect)
           z == DataRead(data)
<1>1. Formatted(inode, dirBlock, indirect, data, bitmap)
  BY DEF Init, Formatted, NewDir, DotBlock
<1>2. /\ inode = Put(<< >>, i, NewDir(c)) /\ dirBlock = Put(<< >>, c, DotBlock(i, i))
      /\ indirect = << >> /\ data = << >> /\ bitmap = System \cup {i, c}
  BY <1>1 DEF Formatted
<1>3. Tables(inode, dirBlock, indirect)
  BY <1>1, FormattedOK DEF DiskOK
<1>4. /\ c \in Blocks /\ i \in Blocks /\ c # i /\ i # 0 /\ c # 0 /\ c \notin System /\ i \notin System
      /\ System \subseteq Blocks /\ 0 \in System
  BY VolumeFacts
<1>5. DOMAIN inode = {i} /\ inode[i] = NewDir(c) /\ DOMAIN dirBlock = {c} /\ dirBlock[c] = DotBlock(i, i)
      /\ IsFunction(data)
  <2>1. DOMAIN << >> = {} /\ << >> = [q \in DOMAIN << >> |-> << >>[q]]
    OBVIOUS
  <2>2. QED
    BY <1>2, <2>1 DEF Put, IsFunction
<1>6. /\ inode[i].type = "dir" /\ inode[i].size = 2 /\ inode[i].indirect = 0
      /\ \A k \in Rows : inode[i].direct[k] = IF k = 1 THEN c ELSE 0
      /\ inode[i].direct[1] = c
  BY <1>4, <1>5, NewDirIs
<1> HIDE DEF c
<1>7. /\ \A j \in Columns : ~Gives(e, c, j)
      /\ \A j \in Columns : e[c][j].sfd_ino # 0 <=> j \in {1, 2}
      /\ e[c][1] = Entry(i, ".") /\ e[c][2] = Entry(i, "..")
  BY <1>4, <1>5, DotBlockRead
<1>8. \A q \in Blocks, j \in Columns : ~Gives(e, q, j)
  <2>1. \A q \in Blocks \ {c} : \A j \in Columns : e[q][j].sfd_ino = 0
    BY <1>5, ReadUnwritten
  <2>2. QED
    BY <1>7, <2>1 DEF Gives
<1>9. 1 \in Rows
  BY SfsAssumption DEF Rows
<1>10. OnlyRoot(inode, e, i, c)
  BY <1>4, <1>5, <1>6, <1>7, <1>8, <1>9 DEF OnlyRoot
<1>11. Typed(inode, e, y, bitmap)
  <2>1. /\ e \in [Blocks -> [Columns -> EntryRecords]] /\ y \in [Blocks -> [IndirectRows -> Blocks]]
    BY <1>3, ReadTyped
  <2>2. QED
    BY <1>2, <1>3, <1>4, <1>5, <1>6, <2>1 DEF Typed, Tables
<1>12. /\ Sane(inode, e, y, z, bitmap, DOMAIN indirect, DOMAIN data, 0) /\ Live(inode, e, 0) = {i}
  <2>1. c \in bitmap
    BY <1>2
  <2> HIDE DEF e, y, z, i
  <2>2. QED
    BY <1>10, <1>11, <2>1, RootSane
<1>13. Disk = Img(bitmap, inode, dirBlock, indirect, data)
  BY DEF Disk, Img
<1>14. SaneDisk(Disk, 0)
  BY <1>2, <1>3, <1>5, <1>12, <1>13, SaneDiskIs DEF SaneImg
<1>15. DirsWritten(inode, dirBlock)
  BY <1>5, <1>6, <1>12 DEF DirsWritten
<1>16. QED
  BY <1>14, <1>15 DEF Rest, Init, SFS_NOINO

----------------------------------------------------------------------------
\* The invariant: between two commands the disk is sane, and the writes that
\* are left lead from the image to what the command promises; or the program has
\* died and left the image that the writes had come to.

Going == Rest /\ Trail(image, writes, Disk, Disk, fresh)

AfterDeath ==
    /\ writes = << >> /\ image = Disk
    /\ cwd \in {0, SFS_ROOT_LOCATION}
    /\ Fine(image, image, fresh)

WInv == Going \/ AfterDeath

\* Nothing has to change for the disk to be fine.
LEMMA RestFine ==
    ASSUME Rest, NEW f
    PROVE  Fine(Disk, Disk, f)
<1>1. SameFiles(Disk, Disk, f)
  BY DEF SameFiles
<1>2. IsImage(Disk)
  BY DEF IsImage, Disk
<1>3. QED
  BY <1>1, <1>2 DEF Fine, Rest

LEMMA AtRest ==
    ASSUME Rest, NEW f
    PROVE  Trail(Disk, << >>, Disk, Disk, f)
BY RestFine, TrailEmpty

LEMMA WInitOK == WInit => WInv
BY FormattedRest, AtRest DEF WInit, WInv, Going

----------------------------------------------------------------------------
\* The pointers of the image are its places.

\* Pointer p is place k, l of inode i.
PointsFrom(n, e, y, i, k, l, p) ==
    \/ /\ n[i].type = "dir" /\ k \in Rows /\ l \in Columns /\ n[i].direct[k] # 0
       /\ Gives(e, n[i].direct[k], l)
       /\ p = <<i, <<k, l>>, e[n[i].direct[k]][l].sfd_ino>>
    \/ k \in Rows /\ l = 0 /\ p = <<i, <<k, 0>>, n[i].direct[k]>>
    \/ k = 0 /\ l = 0 /\ p = <<i, <<0, 0>>, n[i].indirect>>
    \/ /\ k = 0 /\ l \in IndirectRows /\ n[i].indirect # 0
       /\ p = <<n[i].indirect, <<l, 0>>, y[n[i].indirect][l]>>

LEMMA PointedPlace ==
    ASSUME NEW n, NEW e, NEW y, NEW i, NEW k, NEW l, NEW p, PointsFrom(n, e, y, i, k, l, p)
    PROVE  Place(n, e, y, i, k, l, p[3])
BY DEF PointsFrom, Place

LEMMA PlacePointed ==
    ASSUME NEW n, NEW e, NEW y, NEW i, NEW k, NEW l, NEW c, Place(n, e, y, i, k, l, c)
    PROVE  \E p : PointsFrom(n, e, y, i, k, l, p) /\ p[3] = c
<1>1. CASE k \in Rows /\ l = 0 /\ c = n[i].direct[k]
  <2> DEFINE p == <<i, <<k, 0>>, n[i].direct[k]>>
  <2>1. p[3] = c
    BY <1>1
  <2>2. PointsFrom(n, e, y, i, k, l, p)
    BY <1>1 DEF PointsFrom
  <2>3. QED
    BY <2>1, <2>2
<1>2. CASE k = 0 /\ l = 0 /\ c = n[i].indirect
  <2> DEFINE p == <<i, <<0, 0>>, n[i].indirect>>
  <2>1. p[3] = c
    BY <1>2
  <2>2. PointsFrom(n, e, y, i, k, l, p)
    BY <1>2 DEF PointsFrom
  <2>3. QED
    BY <2>1, <2>2
<1>3. CASE k = 0 /\ l \in IndirectRows /\ n[i].indirect # 0 /\ c = y[n[i].indirect][l]
  <2> DEFINE p == <<n[i].indirect, <<l, 0>>, y[n[i].indirect][l]>>
  <2>1. p[3] = c
    BY <1>3
  <2>2. PointsFrom(n, e, y, i, k, l, p)
    BY <1>3 DEF PointsFrom
  <2>3. QED
    BY <2>1, <2>2
<1>4. CASE /\ n[i].type = "dir" /\ k \in Rows /\ l \in Columns /\ n[i].direct[k] # 0
           /\ Gives(e, n[i].direct[k], l) /\ c = e[n[i].direct[k]][l].sfd_ino
  <2> DEFINE p == <<i, <<k, l>>, e[n[i].direct[k]][l].sfd_ino>>
  <2>1. p[3] = c
    BY <1>4
  <2>2. PointsFrom(n, e, y, i, k, l, p)
    BY <1>4 DEF PointsFrom
  <2>3. QED
    BY <2>1, <2>2
<1>5. QED
  BY <1>1, <1>2, <1>3, <1>4 DEF Place

LEMMA ImageSlots ==
    ASSUME NEW d, NEW n, n = image.inode, NEW e, e = EntriesRead(image.dirBlock)
    PROVE  /\ Image!Entries(d) = UsedSlots(n, e, d)
           /\ \A s \in Image!Entries(d) :
                 /\ s[1] \in Rows /\ s[2] \in Columns /\ s = <<s[1], s[2]>>
                 /\ Used(n, e, d, s[1], s[2])
                 /\ Image!At(d, s) = e[n[d].direct[s[1]]][s[2]]
           /\ \A k \in Rows, j \in Columns : Used(n, e, d, k, j) => <<k, j>> \in Image!Entries(d)
<1>1. \A s : Image!At(d, s) = e[n[d].direct[s[1]]][s[2]]
  BY DEF Image!At, EntriesRead
<1>2. ASSUME NEW s \in Rows \X Columns
      PROVE  s \in Image!Entries(d) <=> Used(n, e, d, s[1], s[2])
  BY <1>1 DEF Image!Entries, Image!Slots, Image!SFS_NOINO, Used, Rows, Columns
<1>3. Image!Entries(d) \in SUBSET (Rows \X Columns)
  BY DEF Image!Entries, Image!Slots, Rows, Columns
<1>4. Image!Entries(d) = UsedSlots(n, e, d)
  BY <1>2, <1>3 DEF UsedSlots
<1>5. ASSUME NEW s \in Image!Entries(d)
      PROVE  /\ s[1] \in Rows /\ s[2] \in Columns /\ s = <<s[1], s[2]>>
             /\ Used(n, e, d, s[1], s[2])
  <2>1. s \in Rows \X Columns
    BY <1>3
  <2>2. QED
    BY <1>2, <2>1, SlotParts
<1>6. ASSUME NEW k \in Rows, NEW j \in Columns, Used(n, e, d, k, j)
      PROVE  <<k, j>> \in Image!Entries(d)
  <2> DEFINE s == <<k, j>>
  <2>1. s \in Rows \X Columns /\ s[1] = k /\ s[2] = j
    OBVIOUS
  <2>. HIDE DEF s
  <2>2. s \in Image!Entries(d)
    BY <1>2, <1>6, <2>1
  <2>3. QED
    BY <2>2 DEF s
<1>7. QED
  BY <1>1, <1>4, <1>5, <1>6

\* Column l of row k of directory d gives a name; p is the pointer it is.
EntryAt(n, e, d, k, l, p) ==
    /\ n[d].type = "dir" /\ k \in Rows /\ l \in Columns /\ n[d].direct[k] # 0
    /\ Gives(e, n[d].direct[k], l)
    /\ p = <<d, <<k, l>>, e[n[d].direct[k]][l].sfd_ino>>

LEMMA ImageNames ==
    ASSUME NEW p, NEW n, n = image.inode, NEW e, e = EntriesRead(image.dirBlock)
    PROVE  p \in Image!EntryPointers <=> \E d \in DOMAIN n : \E k, l : EntryAt(n, e, d, k, l, p)
<1>1. p \in Image!EntryPointers
        <=> \E d \in Image!Dirs : \E s \in Image!Entries(d) :
               ~Image!IsDot(d, s) /\ p = <<d, s, Image!At(d, s).sfd_ino>>
  BY DEF Image!EntryPointers
<1>2. \A d : d \in Image!Dirs <=> d \in DOMAIN n /\ n[d].type = "dir"
  BY DEF Image!Dirs
<1>3. ASSUME NEW d \in Image!Dirs, NEW s \in Image!Entries(d), ~Image!IsDot(d, s),
             p = <<d, s, Image!At(d, s).sfd_ino>>
      PROVE  d \in DOMAIN n /\ \E k, l : EntryAt(n, e, d, k, l, p)
  <2> DEFINE k == s[1]
             l == s[2]
  <2>1. /\ k \in Rows /\ l \in Columns /\ s = <<k, l>> /\ Used(n, e, d, k, l)
        /\ Image!At(d, s) = e[n[d].direct[k]][l]
    BY ImageSlots
  <2>. HIDE DEF k, l
  <2>2. Gives(e, n[d].direct[k], l)
    BY <1>3, <2>1 DEF Image!IsDot, Gives, Used, Dots
  <2>3. EntryAt(n, e, d, k, l, p)
    BY <1>2, <1>3, <2>1, <2>2 DEF EntryAt, Used
  <2>4. QED
    BY <1>2, <2>3
<1>4. ASSUME NEW d \in DOMAIN n, NEW k, NEW l, EntryAt(n, e, d, k, l, p)
      PROVE  d \in Image!Dirs /\ \E s \in Image!Entries(d) :
                ~Image!IsDot(d, s) /\ p = <<d, s, Image!At(d, s).sfd_ino>>
  <2> DEFINE s == <<k, l>>
  <2>1. s \in Image!Entries(d)
    BY <1>4, ImageSlots, Zenon DEF EntryAt, Used, Gives
  <2>2. s[1] = k /\ s[2] = l /\ p = <<d, s, e[n[d].direct[k]][l].sfd_ino>>
    BY <1>4 DEF EntryAt
  <2>. HIDE DEF s
  <2>3. Image!At(d, s) = e[n[d].direct[k]][l]
    BY <2>1, <2>2, ImageSlots
  <2>4. ~Image!IsDot(d, s)
    BY <1>4, <2>3 DEF Image!IsDot, EntryAt, Gives, Dots
  <2>5. d \in Image!Dirs
    BY <1>2, <1>4 DEF EntryAt
  <2>6. QED
    BY <2>1, <2>2, <2>3, <2>4, <2>5
<1>5. QED
  BY <1>1, <1>3, <1>4, Zenon

\* The linked inodes are the root and those that have a name.
LEMMA LinkedIs ==
    ASSUME NEW n, n = image.inode, NEW e, e = EntriesRead(image.dirBlock), NEW y, NEW m, NEW g,
           Typed(n, e, y, m), NamesLead(n, e, g), NEW i
    PROVE  i \in Linked <=> i = SFS_ROOT_LOCATION \/ Given(e, i)
<1>1. i \in Linked <=> i = SFS_ROOT_LOCATION \/ \E p \in Image!EntryPointers : p[3] = i
  BY DEF Linked
<1>2. ASSUME NEW p \in Image!EntryPointers, p[3] = i
      PROVE  Given(e, i)
  <2>1. PICK d, k, l : d \in DOMAIN n /\ EntryAt(n, e, d, k, l, p)
    BY ImageNames
  <2>2. n[d].direct[k] \in Blocks
    <3>1. n[d] \in InodeRecords /\ k \in Rows
      BY <2>1 DEF EntryAt, Typed
    <3>2. n[d].direct \in [Rows -> Blocks]
      BY <3>1 DEF InodeRecords, Rows
    <3>3. QED
      BY <3>1, <3>2
  <2>3. /\ l \in Columns /\ Gives(e, n[d].direct[k], l) /\ p[3] = e[n[d].direct[k]][l].sfd_ino
    BY <2>1 DEF EntryAt
  <2>4. QED
    BY <1>2, <2>2, <2>3, Zenon DEF Given
<1>3. ASSUME Given(e, i)
      PROVE  \E p \in Image!EntryPointers : p[3] = i
  <2>1. PICK c \in Blocks, l \in Columns : Gives(e, c, l) /\ e[c][l].sfd_ino = i
    BY <1>3 DEF Given
  <2>2. PICK d \in Live(n, e, g) : HasBlock(n, d, c)
    BY <2>1 DEF NamesLead
  <2>3. d \in DOMAIN n
    BY DEF Live
  <2>4. PICK k \in Rows : n[d].type = "dir" /\ c # 0 /\ n[d].direct[k] = c
    BY <2>2 DEF HasBlock
  <2> DEFINE p == <<d, <<k, l>>, e[n[d].direct[k]][l].sfd_ino>>
  <2>5. EntryAt(n, e, d, k, l, p)
    BY <2>1, <2>4 DEF EntryAt
  <2>6. p[3] = i
    BY <2>1, <2>4
  <2>7. QED
    BY <2>3, <2>5, <2>6, ImageNames
<1>4. QED
  BY <1>1, <1>2, <1>3

\* The inodes whose pointers count.
Counted(n, f) == (Linked \cap DOMAIN n) \ {f}

LEMMA LinkedPlaces ==
    ASSUME NEW f, NEW p \in LinkedPointers(f), NEW n, n = image.inode,
           NEW e, e = EntriesRead(image.dirBlock), NEW y, y = RowsRead(image.indirect)
    PROVE  p[3] # 0 /\ \E i \in Counted(n, f) : \E k, l : PointsFrom(n, e, y, i, k, l, p)
<1> DEFINE inodes == Counted(n, f)
<1>1. /\ p \in Image!LivePointers
      /\ \/ p \in Image!RowPointers /\ p[1] \in {n[i].indirect : i \in inodes} \ {0}
         \/ p \in Image!EntryPointers /\ p[1] \in inodes
         \/ p \in Image!DirectPointers /\ p[1] \in inodes
         \/ p \in Image!TablePointers /\ p[1] \in inodes
  BY DEF LinkedPointers, Counted
<1>2. p[3] # 0
  BY <1>1 DEF Image!LivePointers
<1>3. CASE p \in Image!RowPointers /\ p[1] \in {n[i].indirect : i \in inodes} \ {0}
  <2>1. PICK c \in DOMAIN y : \E l \in IndirectRows : p = <<c, <<l, 0>>, y[c][l]>>
    <3>1. Image!RowPointers = UNION {{<<b, <<q, 0>>, y[b][q]>> : q \in IndirectRows} : b \in DOMAIN y}
      BY DEF Image!RowPointers, RowsRead, NoRows, IndirectRows
    <3>2. QED
      BY <1>3, <3>1
  <2>2. PICK i \in inodes : p[1] = n[i].indirect
    BY <1>3
  <2>3. PICK l \in IndirectRows : p = <<c, <<l, 0>>, y[c][l]>>
    BY <2>1
  <2>4. PointsFrom(n, e, y, i, 0, l, p)
    <3>1. p[1] = c /\ c # 0
      BY <1>3, <2>3
    <3>2. QED
      BY <2>2, <2>3, <3>1 DEF PointsFrom
  <2>5. QED
    BY <1>2, <2>4
<1>4. CASE p \in Image!EntryPointers /\ p[1] \in inodes
  <2>1. PICK d, k, l : d \in DOMAIN n /\ EntryAt(n, e, d, k, l, p)
    BY <1>4, ImageNames
  <2>2. p[1] = d
    BY <2>1 DEF EntryAt
  <2>3. PointsFrom(n, e, y, d, k, l, p)
    BY <2>1 DEF EntryAt, PointsFrom
  <2>4. QED
    BY <1>2, <1>4, <2>2, <2>3
<1>5. CASE p \in Image!DirectPointers /\ p[1] \in inodes
  <2>1. PICK i \in DOMAIN n, k \in Rows : p = <<i, <<k, 0>>, n[i].direct[k]>>
    BY <1>5 DEF Image!DirectPointers, Rows
  <2>2. p[1] = i
    BY <2>1
  <2>3. PointsFrom(n, e, y, i, k, 0, p)
    BY <2>1 DEF PointsFrom
  <2>4. QED
    BY <1>2, <1>5, <2>2, <2>3
<1>6. CASE p \in Image!TablePointers /\ p[1] \in inodes
  <2>1. PICK i \in DOMAIN n : p = <<i, <<0, 0>>, n[i].indirect>>
    BY <1>6 DEF Image!TablePointers
  <2>2. p[1] = i
    BY <2>1
  <2>3. PointsFrom(n, e, y, i, 0, 0, p)
    BY <2>1 DEF PointsFrom
  <2>4. QED
    BY <1>2, <1>6, <2>2, <2>3
<1>7. QED
  BY <1>1, <1>3, <1>4, <1>5, <1>6

LEMMA PlacesLinked ==
    ASSUME NEW n, n = image.inode, NEW e, e = EntriesRead(image.dirBlock),
           NEW y, y = RowsRead(image.indirect), NEW f, NEW i \in Counted(n, f), n[i].indirect \in Blocks,
           NEW k, NEW l, NEW p, PointsFrom(n, e, y, i, k, l, p), p[3] # 0
    PROVE  p \in LinkedPointers(f)
<1>1. i \in DOMAIN n /\ i \in Linked /\ i # f
  BY DEF Counted
<1>2. CASE EntryAt(n, e, i, k, l, p)
  <2>1. p \in Image!EntryPointers
    BY <1>1, <1>2, ImageNames
  <2>2. p[1] = i
    BY <1>2 DEF EntryAt
  <2>3. p \in Image!LivePointers
    BY <2>1 DEF Image!LivePointers, Image!Pointers
  <2>4. QED
    BY <1>1, <2>1, <2>2, <2>3 DEF LinkedPointers
<1>3. CASE k \in Rows /\ l = 0 /\ p = <<i, <<k, 0>>, n[i].direct[k]>>
  <2>1. p \in Image!DirectPointers
    BY <1>1, <1>3 DEF Image!DirectPointers, Rows
  <2>2. p[1] = i
    BY <1>3
  <2>3. p \in Image!LivePointers
    BY <2>1 DEF Image!LivePointers, Image!Pointers
  <2>4. QED
    BY <1>1, <2>1, <2>2, <2>3 DEF LinkedPointers
<1>4. CASE k = 0 /\ l = 0 /\ p = <<i, <<0, 0>>, n[i].indirect>>
  <2>1. p \in Image!TablePointers
    BY <1>1, <1>4 DEF Image!TablePointers
  <2>2. p[1] = i
    BY <1>4
  <2>3. p \in Image!LivePointers
    BY <2>1 DEF Image!LivePointers, Image!Pointers
  <2>4. QED
    BY <1>1, <2>1, <2>2, <2>3 DEF LinkedPointers
<1>5. CASE /\ k = 0 /\ l \in IndirectRows /\ n[i].indirect # 0
           /\ p = <<n[i].indirect, <<l, 0>>, y[n[i].indirect][l]>>
  <2>1. DOMAIN y = Blocks
    BY DEF RowsRead, Reading
  <2>2. p \in Image!RowPointers
    <3>1. Image!RowPointers = UNION {{<<c, <<q, 0>>, y[c][q]>> : q \in IndirectRows} : c \in DOMAIN y}
      BY DEF Image!RowPointers, RowsRead, NoRows, IndirectRows
    <3>2. QED
      BY <1>5, <2>1, <3>1
  <2>3. p[1] = n[i].indirect
    BY <1>5
  <2>4. p \in Image!LivePointers
    BY <2>2 DEF Image!LivePointers, Image!Pointers
  <2>5. p[1] \in {n[h].indirect : h \in (Linked \cap DOMAIN n) \ {f}} \ {0}
    BY <1>1, <1>5, <2>3
  <2>6. QED
    BY <2>2, <2>4, <2>5 DEF LinkedPointers
<1>6. QED
  BY <1>2, <1>3, <1>4, <1>5 DEF PointsFrom, EntryAt

----------------------------------------------------------------------------
\* The steps.

\* Between the writes the image is sane, but for the inode that is being made.
ImageIs(g, n, e, y, z) ==
    /\ g \in {0, fresh}
    /\ n = image.inode /\ e = EntriesRead(image.dirBlock)
    /\ y = RowsRead(image.indirect) /\ z = DataRead(image.data)
    /\ Sane(n, e, y, z, image.bitmap, DOMAIN image.indirect, DOMAIN image.data, g)
    /\ Typed(n, e, y, image.bitmap) /\ NamesLead(n, e, g)
    /\ g # 0 => TableHeld(n, image.indirect, g)

LEMMA ImageSane ==
    ASSUME WInv, NEW n, n = image.inode, NEW e, e = EntriesRead(image.dirBlock),
           NEW y, y = RowsRead(image.indirect), NEW z, z = DataRead(image.data)
    PROVE  /\ Fine(image, Disk, fresh)
           /\ \E g : ImageIs(g, n, e, y, z)
<1>1. Fine(image, Disk, fresh)
  <2>1. CASE Going
    BY <2>1, TrailEnds DEF Going
  <2>2. CASE AfterDeath
    BY <2>2 DEF AfterDeath
  <2>3. QED
    BY <2>1, <2>2 DEF WInv
<1>2. PICK g \in {0, fresh} : SaneDisk(image, g) /\ (g # 0 => TableHeld(n, image.indirect, g))
  BY <1>1 DEF Fine
<1>3. Sane(n, e, y, z, image.bitmap, DOMAIN image.indirect, DOMAIN image.data, g)
  BY <1>2 DEF SaneDisk
<1>4. ImageIs(g, n, e, y, z)
  BY <1>2, <1>3 DEF ImageIs, Sane
<1>5. QED
  BY <1>1, <1>4

LEMMA CountedLive ==
    ASSUME NEW g, NEW n, NEW e, NEW y, NEW z, ImageIs(g, n, e, y, z), NEW f
    PROVE  Counted(n, f) = Live(n, e, 0) \ {f}
<1>1. /\ Typed(n, e, y, image.bitmap) /\ NamesLead(n, e, g)
      /\ n = image.inode /\ e = EntriesRead(image.dirBlock)
  BY DEF ImageIs
<1>2. 0 \notin DOMAIN n
  BY <1>1 DEF Typed
<1>3. \A i : i \in Linked <=> i = SFS_ROOT_LOCATION \/ Given(e, i)
  BY <1>1, LinkedIs
<1>4. QED
  BY <1>2, <1>3 DEF Counted, Live

\* An image that is Intact is one commands may go on from.
LEMMA IntactCrashable ==
    ASSUME Intact, NEW g, NEW n, NEW e, NEW y, NEW z, ImageIs(g, n, e, y, z)
    PROVE  Crashable(image)
<1>1. /\ n = image.inode /\ e = EntriesRead(image.dirBlock) /\ y = RowsRead(image.indirect)
      /\ Typed(n, e, y, image.bitmap) /\ NamesLead(n, e, g)
  BY DEF ImageIs
<1>2. Counted(n, 0) = Live(n, e, 0) /\ 0 \notin Live(n, e, 0)
  BY CountedLive DEF Live
<1>3. ASSUME NEW i, Given(e, i)
      PROVE  i \in DOMAIN n
  <2>1. i \in Linked
    BY <1>1, <1>3, LinkedIs
  <2>2. QED
    BY <1>1, <2>1 DEF Intact
<1>4. DirsWritten(n, image.dirBlock)
  <2>1. ASSUME NEW d \in Live(n, e, 0), NEW k \in Rows, n[d].type = "dir", n[d].direct[k] # 0
        PROVE  n[d].direct[k] \in DOMAIN image.dirBlock
    <3>1. d \in Image!Dirs /\ d \in Linked
      BY <1>1, <1>2, <2>1 DEF Counted, Image!Dirs
    <3>2. Range(n[d].direct) \ {0} \subseteq DOMAIN image.dirBlock
      BY <1>1, <3>1 DEF Intact, HasBlocks
    <3>3. n[d].direct \in [Rows -> Blocks]
      BY <1>1, LiveFacts
    <3>4. n[d].direct[k] \in Range(n[d].direct)
      BY <3>3 DEF Range
    <3>5. QED
      BY <2>1, <3>2, <3>4
  <2>2. QED
    BY <1>1, <2>1 DEF DirsWritten
<1>5. ASSUME NEW i \in Live(n, e, 0), NEW c, LeadsTo(n, e, y, i, c)
      PROVE  c \in image.bitmap
  <2>1. PICK k, l : Place(n, e, y, i, k, l, c)
    BY <1>5 DEF LeadsTo
  <2>2. PICK p : PointsFrom(n, e, y, i, k, l, p) /\ p[3] = c
    BY <2>1, PlacePointed
  <2>3. n[i].indirect \in Blocks /\ i \in Counted(n, 0) /\ p[3] # 0
    BY <1>1, <1>2, <1>5, <2>2, LiveFacts DEF LeadsTo
  <2>4. p \in LinkedPointers(0)
    BY <1>1, <2>2, <2>3, PlacesLinked
  <2>5. QED
    BY <2>2, <2>4 DEF Intact
<1>6. QED
  BY <1>1, <1>3, <1>4, <1>5 DEF Crashable

LEMMA GoesOn ==
    ASSUME WInv, Intact, writes = << >>
    PROVE  Going
<1> DEFINE n == image.inode
           e == EntriesRead(image.dirBlock)
           y == RowsRead(image.indirect)
           z == DataRead(image.data)
<1>1. PICK g : ImageIs(g, n, e, y, z)
  BY ImageSane
<1>2. SUFFICES ASSUME AfterDeath
               PROVE  Going
  BY DEF WInv
<1>3. Crashable(image) /\ image = Disk /\ cwd \in {0, SFS_ROOT_LOCATION}
  BY <1>1, <1>2, IntactCrashable DEF AfterDeath
<1>4. SaneDisk(Disk, 0)
  BY <1>2, <1>3 DEF AfterDeath, Fine
<1>5. Disk = Img(bitmap, inode, dirBlock, indirect, data)
  BY DEF Disk, Img
<1>6. image.inode = inode /\ image.dirBlock = dirBlock
  BY <1>3 DEF Disk
<1>7. DirsWritten(inode, dirBlock)
  BY <1>3, <1>6 DEF Crashable
<1>8. Typed(inode, EntriesRead(dirBlock), RowsRead(indirect), bitmap)
  BY <1>4, <1>5, SaneDiskIs DEF SaneImg, Sane
<1>9. SFS_ROOT_LOCATION \in Live(inode, EntriesRead(dirBlock), 0) /\ inode[SFS_ROOT_LOCATION].type = "dir"
  BY <1>8, LiveFacts, VolumeFacts, Zenon DEF Typed
<1>10. Rest
  BY <1>3, <1>4, <1>7, <1>9 DEF Rest
<1>11. QED
  BY <1>3, <1>10, AtRest DEF Going

LEMMA BeginOK ==
    ASSUME WInv, Begin
    PROVE  WInv'
<1>1. Going /\ writes = << >> /\ image = Disk
  BY GoesOn, TrailEnds DEF Going, Begin
<1>2. ASSUME NEW list, NEW new, Writing(list, new), Rest' /\ Trail(Disk, list, Disk', Disk', new)
      PROVE  WInv'
  BY <1>1, <1>2 DEF Writing, WInv, Going
<1>3. Mounted => Inside
  BY <1>1 DEF Mounted, Inside, Going
<1>4. ASSUME NEW path \in Names, Touch(path), Writing(TouchWrites, Created)
      PROVE  WInv'
  BY <1>2, <1>3, <1>4, TouchTrail, Zenon DEF Touch, Writing
<1>5. ASSUME NEW path \in Names, Mkdir(path), Writing(MkdirWrites, Created)
      PROVE  WInv'
  BY <1>2, <1>3, <1>5, MkdirTrail, Zenon DEF Mkdir, Writing
<1>6. ASSUME NEW path \in Paths, Rmdir(path), ~RootLost', Writing(RemoveWrites, 0)
      PROVE  WInv'
  BY <1>2, <1>3, <1>6, RmdirTrail, Zenon DEF Rmdir, Writing
<1>7. ASSUME NEW path \in Paths, Rm(path), Writing(RemoveWrites, 0)
      PROVE  WInv'
  BY <1>2, <1>3, <1>7, RmTrail, Zenon DEF Rm, Writing
<1>8. ASSUME NEW src \in Names, NEW dst \in Names, Mv(src, dst), Writing(MvWrites, 0)
      PROVE  WInv'
  BY <1>2, <1>3, <1>8, MvTrail, Zenon DEF Mv, Writing
<1>9. ASSUME NEW path \in Names, NEW h \in HostFiles, Cpin(path, h), Writing(CpinWrites, Created)
      PROVE  WInv'
  BY <1>2, <1>3, <1>9, CpinTrail, Zenon DEF Cpin, Writing
<1>10. QED
  BY <1>4, <1>5, <1>6, <1>7, <1>8, <1>9 DEF Begin

LEMMA MoveOK ==
    ASSUME WInv, Move
    PROVE  WInv'
<1> DEFINE e == EntriesRead(dirBlock)
<1>1. disk' = disk /\ writes = << >> /\ writes' = writes /\ image' = image /\ fresh' = fresh
  BY DEF Move, Mount, Umount, CdRoot, Cd, Refuse
<1>2. /\ bitmap' = bitmap /\ inode' = inode /\ dirBlock' = dirBlock /\ indirect' = indirect /\ data' = data
      /\ Disk' = Disk
  BY <1>1 DEF disk, Disk
<1>3. CASE Going
  <2>1. Rest /\ Typed(inode, e, RowsRead(indirect), bitmap)
    BY <1>3, DiskIs DEF Going
  <2>2. SFS_ROOT_LOCATION \in Live(inode, e, 0) /\ inode[SFS_ROOT_LOCATION].type = "dir"
    BY <2>1, LiveFacts, VolumeFacts, Zenon DEF Typed
  <2>3. ASSUME NEW path \in Paths, Cd(path), cwd' # cwd
        PROVE  cwd' \in Live(inode, e, 0) /\ inode[cwd'].type = "dir"
    <3>1. Inside /\ Exists(path) /\ ~IsFile(path) /\ cwd' = Ino(path)
      BY <2>1, <2>3 DEF Cd, Mounted, Inside, Refuse
    <3>2. Ino(path) \in Live(inode, e, 0)
      BY <3>1, NamedLive DEF LiveIn
    <3>3. QED
      BY <2>1, <3>1, <3>2, LiveFacts DEF IsFile
  <2>4. cwd' = 0 \/ (cwd' \in Live(inode, e, 0) /\ inode[cwd'].type = "dir")
    BY <2>2, <2>3 DEF Move, Mount, Umount, CdRoot, SFS_NOINO
  <2>5. Rest'
    BY <1>2, <2>1, <2>4 DEF Rest
  <2>6. QED
    BY <1>1, <1>2, <1>3, <2>5 DEF WInv, Going
<1>4. CASE AfterDeath /\ (Mount \/ Umount \/ CdRoot)
  <2>1. cwd' \in {0, SFS_ROOT_LOCATION}
    BY <1>4 DEF Mount, Umount, CdRoot, SFS_NOINO
  <2>2. QED
    BY <1>1, <1>2, <1>4, <2>1 DEF WInv, AfterDeath
<1>5. CASE Intact
  BY <1>1, <1>3, <1>5, GoesOn
<1>6. QED
  BY <1>3, <1>4, <1>5 DEF WInv, Move

LEMMA WriteOK ==
    ASSUME WInv, WriteNext
    PROVE  WInv'
<1>1. /\ Going /\ Disk' = Disk /\ writes # << >> /\ image' = Written(image, Head(writes)) /\ writes' = Tail(writes)
      /\ fresh' = IF writes' = << >> THEN 0 ELSE fresh
  BY DEF WriteNext, vars, disk, Disk, WInv, AfterDeath
<1>2. Rest' /\ Rest
  BY <1>1 DEF WriteNext, vars, disk, Disk, Rest, Going
<1>3. Trail(image', writes', Disk, Disk, fresh)
  BY <1>1, TrailNext DEF Going
<1>4. CASE writes' = << >>
  <2>1. image' = Disk
    BY <1>3, <1>4, TrailEnds
  <2>2. Trail(Disk, << >>, Disk, Disk, 0)
    BY <1>2, AtRest
  <2>3. QED
    BY <1>1, <1>2, <1>4, <2>1, <2>2, Zenon DEF WInv, Going
<1>5. CASE writes' # << >>
  BY <1>1, <1>2, <1>3, <1>5 DEF WInv, Going
<1>6. QED
  BY <1>4, <1>5

LEMMA CrashOK ==
    ASSUME WInv, Crash
    PROVE  WInv'
<1> DEFINE n == image.inode
           e == EntriesRead(image.dirBlock)
           y == RowsRead(image.indirect)
           z == DataRead(image.data)
<1>1. Fine(image, Disk, fresh) /\ \E g : ImageIs(g, n, e, y, z)
  BY ImageSane
<1>2. PICK g : ImageIs(g, n, e, y, z)
  BY <1>1
<1>3. Fine(image, image, fresh')
  <2>1. CASE Intact
    <3>1. SaneDisk(image, 0)
      BY <1>1, <1>2, <2>1, IntactCrashable DEF Fine
    <3>2. QED
      BY <1>1, <3>1 DEF Fine, SameFiles
  <2>2. CASE ~Intact
    <3>1. fresh' = fresh
      BY <2>2 DEF Crash
    <3>2. QED
      BY <1>1, <3>1 DEF Fine, SameFiles
  <2>3. QED
    BY <2>1, <2>2
<1>4. Disk' = image
  BY <1>1 DEF Fine, IsImage, Disk, Crash
<1>5. QED
  BY <1>3, <1>4 DEF WInv, AfterDeath, Crash, SFS_NOINO

LEMMA WNextOK == WInv /\ [WNext]_writeVars => WInv'
<1> SUFFICES ASSUME WInv, [WNext]_writeVars
             PROVE  WInv'
  OBVIOUS
<1>1. CASE WNext
  BY <1>1, BeginOK, MoveOK, WriteOK, CrashOK DEF WNext
<1>2. CASE UNCHANGED writeVars
  <2>1. /\ Disk' = Disk /\ image' = image /\ writes' = writes /\ fresh' = fresh
        /\ cwd' = cwd /\ inode' = inode /\ dirBlock' = dirBlock
    BY <1>2 DEF writeVars, vars, disk, Disk
  <2>2. QED
    BY <2>1 DEF WInv, Going, AfterDeath, Rest
<1>3. QED
  BY <1>1, <1>2

\* Between any two writes the image is sane, but for the inode that is being made,
\* and the writes that are left lead to what the command promises; and so the
\* image is left when the program dies.
THEOREM WInvariant == WSpec => []WInv
BY WInitOK, WNextOK, PTL DEF WSpec

\* The last write of a command leaves what the command as a whole promises.
THEOREM CommandsCompleteAlways == WSpec => []CommandsComplete
<1>1. WInv => CommandsComplete
  BY TrailEnds DEF WInv, Going, AfterDeath, CommandsComplete
<1>2. QED
  BY <1>1, WInvariant, PTL

----------------------------------------------------------------------------
\* What the invariant says of the image in the words of SfsWrites.

\* A pointer is known by the inode and the place.
LEMMA PointsOnce ==
    ASSUME NEW n, NEW e, NEW y, NEW i, NEW k, NEW l, NEW p, NEW q,
           PointsFrom(n, e, y, i, k, l, p), PointsFrom(n, e, y, i, k, l, q)
    PROVE  p = q
<1>1. 0 \notin Rows /\ 0 \notin Columns /\ 0 \notin IndirectRows
  BY DEF Rows, Columns, IndirectRows
<1>2. QED
  BY <1>1 DEF PointsFrom

LEMMA LinkedMarked ==
    ASSUME WInv, NEW p \in LinkedPointers(fresh)
    PROVE  p[3] \in image.bitmap \ (System \cup {SFS_ROOT_LOCATION})
<1> DEFINE n == image.inode
           e == EntriesRead(image.dirBlock)
           y == RowsRead(image.indirect)
           z == DataRead(image.data)
<1>1. PICK g : ImageIs(g, n, e, y, z)
  BY ImageSane
<1>2. TargetsMarked(n, e, y, image.bitmap, g) /\ g \in {0, fresh}
  BY <1>1 DEF ImageIs, Sane
<1>3. PICK i, k, l : i \in Counted(n, fresh) /\ PointsFrom(n, e, y, i, k, l, p) /\ p[3] # 0
  BY LinkedPlaces
<1>4. i \in Live(n, e, g)
  BY <1>1, <1>2, <1>3, CountedLive DEF Live
<1>5. LeadsTo(n, e, y, i, p[3])
  BY <1>3, PointedPlace DEF LeadsTo
<1>6. QED
  BY <1>2, <1>4, <1>5, MarkedTarget

LEMMA LinkedApart ==
    ASSUME WInv, NEW p \in LinkedPointers(fresh), NEW q \in LinkedPointers(fresh), p[3] = q[3]
    PROVE  p = q
<1> DEFINE n == image.inode
           e == EntriesRead(image.dirBlock)
           y == RowsRead(image.indirect)
           z == DataRead(image.data)
<1>1. PICK g : ImageIs(g, n, e, y, z)
  BY ImageSane
<1>2. TargetsOnce(n, e, y, g) /\ g \in {0, fresh}
  BY <1>1 DEF ImageIs, Sane
<1>3. PICK i, k, l : i \in Counted(n, fresh) /\ PointsFrom(n, e, y, i, k, l, p) /\ p[3] # 0
  BY LinkedPlaces
<1>4. PICK h, r, s : h \in Counted(n, fresh) /\ PointsFrom(n, e, y, h, r, s, q)
  BY LinkedPlaces
<1>5. i \in Live(n, e, g) /\ h \in Live(n, e, g)
  BY <1>1, <1>2, <1>3, <1>4, CountedLive DEF Live
<1>6. Place(n, e, y, i, k, l, p[3]) /\ Place(n, e, y, h, r, s, p[3])
  BY <1>3, <1>4, PointedPlace
<1>7. i = h /\ k = r /\ l = s
  BY <1>2, <1>3, <1>5, <1>6, OnePlace
<1>8. QED
  BY <1>3, <1>4, <1>7, PointsOnce

LEMMA SafeImage == WInv => ImageSafe
<1> SUFFICES ASSUME WInv
             PROVE  ImageSafe
  OBVIOUS
<1> DEFINE live == LinkedPointers(fresh)
           blocks == {p[3] : p \in live}
           n == image.inode
           e == EntriesRead(image.dirBlock)
           y == RowsRead(image.indirect)
           z == DataRead(image.data)
<1>1. blocks \subseteq image.bitmap \ (System \cup {SFS_ROOT_LOCATION})
  BY LinkedMarked
<1>2. PICK g : ImageIs(g, n, e, y, z)
  BY ImageSane
<1>3. IsFiniteSet(blocks)
  <2>1. blocks \subseteq Blocks
    BY <1>1, <1>2 DEF ImageIs, Typed
  <2>2. QED
    BY <2>1, VolumeFacts, FS_Subset
<1> DEFINE f == [p \in live |-> p[3]]
<1>4. f \in [live -> blocks] /\ \A p \in live : f[p] = p[3]
  OBVIOUS
<1>5. \A p, q \in live : f[p] = f[q] => p = q
  BY <1>4, LinkedApart
<1>6. \A b \in blocks : \E p \in live : f[p] = b
  BY <1>4
<1>. HIDE DEF f, live, blocks
<1>7. f \in Injection(live, blocks)
  BY <1>4, <1>5 DEF Injection, IsInjective
<1>8. f \in Surjection(live, blocks)
  BY <1>4, <1>6 DEF Surjection
<1>9. Cardinality(live) = Cardinality(blocks)
  BY <1>3, <1>7, <1>8, FS_Injection, Zenon
<1>10. ASSUME NEW d \in Image!Dirs \cap Linked
       PROVE  n[d].size >= Cardinality(Image!Entries(d))
  <2>1. d \in DOMAIN n /\ n[d].type = "dir"
    BY DEF Image!Dirs
  <2>2. Typed(n, e, y, image.bitmap) /\ AllSized(n, e, y, z)
    BY <1>2 DEF ImageIs, Sane
  <2>3. d \in Live(n, e, 0)
    <3>1. d \in Counted(n, 0)
      BY <2>1, <2>2 DEF Counted, Typed
    <3>2. QED
      BY <1>2, <3>1, CountedLive
  <2>4. Cardinality(UsedSlots(n, e, d)) <= n[d].size
    BY <2>1, <2>2, <2>3 DEF AllSized, Sized
  <2>5. Image!Entries(d) = UsedSlots(n, e, d)
    BY ImageSlots
  <2>6. Cardinality(UsedSlots(n, e, d)) \in Nat /\ n[d].size \in Nat
    BY <2>2, <2>3, LiveFacts, UsedFinite
  <2>7. QED
    BY <2>4, <2>5, <2>6
<1>11. QED
  BY <1>1, <1>9, <1>10 DEF ImageSafe, live, blocks

\* After any write, and wherever the program dies, what the written entries lead to
\* is marked and belongs to one file or directory, but for what the inode names
\* that is being made, and no directory whose blocks have been written has more
\* entries than its size counts; also after any number of deaths, as long as
\* commands go on only from images that are Intact.
THEOREM ImageSafeAlways == WSpec => []ImageSafe
BY SafeImage, WInvariant, PTL

----------------------------------------------------------------------------
\* The files of the image.

LEMMA ImageContent ==
    ASSUME NEW i
    PROVE  Image!Content(i) = ContentIn(image.inode, RowsRead(image.indirect), DataRead(image.data), i)
<1>1. \A S : Image!Min(S) = Min(S)
  BY DEF Image!Min, Min
<1>2. \A q : Image!UpToMissing(q) = UpToMissing(q)
  BY <1>1, Zenon DEF Image!UpToMissing, UpToMissing
<1>3. \A q : Image!ChunksOf(q) = ChunksOf(q)
  BY DEF Image!ChunksOf, ChunksOf
<1>4. Image!FileBlocks(i) = BlocksIn(image.inode, RowsRead(image.indirect), i)
  BY <1>2 DEF Image!FileBlocks, BlocksIn, RowsRead, NoRows
<1>5. QED
  BY <1>1, <1>3, <1>4, Zenon DEF Image!Content, ContentIn, ContentOf, DataRead

\* A file's blocks have been written, but for the one that is being made.
LEMMA DiskContent ==
    ASSUME NEW g, SaneDisk(Disk, g), NEW i \in Live(inode, EntriesRead(dirBlock), g), inode[i].type = "file"
    PROVE  Content(i) = ContentIn(inode, RowsRead(indirect), DataRead(data), i)
<1> DEFINE x == RowsRead(indirect)
           t == DataRead(data)
<1>1. /\ Typed(inode, EntriesRead(dirBlock), x, bitmap) /\ Tables(inode, dirBlock, indirect)
      /\ SaneImg(inode, dirBlock, indirect, data, bitmap, g)
  <2>1. Disk = Img(bitmap, inode, dirBlock, indirect, data)
    BY DEF Disk, Img
  <2>2. Tables(inode, dirBlock, indirect) /\ SaneImg(inode, dirBlock, indirect, data, bitmap, g)
    BY <2>1, SaneDiskIs
  <2>3. QED
    BY <2>2 DEF SaneImg, Sane
<1>2. FileHeld(inode, x, DOMAIN indirect, DOMAIN data, i)
  BY <1>1 DEF SaneImg, Sane, FilesHeld
<1>3. /\ i \in DOMAIN inode /\ inode[i].direct \in [Rows -> Blocks] /\ inode[i].indirect \in Blocks
      /\ \A c \in Blocks : x[c] \in [IndirectRows -> Blocks]
  BY <1>1, LiveFacts
<1>4. inode[i].indirect # 0 => inode[i].indirect \in DOMAIN indirect /\ x[inode[i].indirect] = indirect[inode[i].indirect]
  BY <1>2, <1>3 DEF FileHeld, RowsRead, Reading
<1>5. \A c \in Blocks : c \in DOMAIN data => t[c] = data[c]
  BY DEF DataRead, Reading
<1>6. \A l \in Rows : inode[i].direct[l] # 0 => t[inode[i].direct[l]] = data[inode[i].direct[l]]
  BY <1>2, <1>3, <1>5 DEF FileHeld
<1>7. inode[i].indirect # 0 =>
         \A l \in IndirectRows : indirect[inode[i].indirect][l] # 0 =>
             t[indirect[inode[i].indirect][l]] = data[indirect[inode[i].indirect][l]]
  BY <1>2, <1>3, <1>4, <1>5 DEF FileHeld
<1> HIDE DEF x, t
<1>8. ContentIn(inode, x, t, i) = ContentIn(inode, indirect, data, i)
  BY <1>1, <1>3, <1>4, <1>6, <1>7, SameContent
<1>9. Content(i) = ContentIn(inode, indirect, data, i)
  BY DEF Content, ContentIn, ContentOf, FileBlocks, BlocksIn
<1>10. QED
  BY <1>8, <1>9 DEF x, t

LEMMA FilesMeanwhile == WInv => FilesReadBackMeanwhile
<1> SUFFICES ASSUME WInv, NEW i \in Image!FilesOn \cap Linked
             PROVE  /\ image.inode[i].indirect \in {0} \cup DOMAIN image.indirect
                    /\ FromHost(Image!Content(i))
                    /\ i \in DOMAIN inode \ {fresh} => Image!Content(i) = Content(i)
  BY DEF FilesReadBackMeanwhile
<1> DEFINE n == image.inode
           e == EntriesRead(image.dirBlock)
           y == RowsRead(image.indirect)
           z == DataRead(image.data)
<1>1. Fine(image, Disk, fresh)
  BY ImageSane
<1>2. PICK g : ImageIs(g, n, e, y, z)
  BY ImageSane
<1>3. Typed(n, e, y, image.bitmap) /\ AllSized(n, e, y, z)
  BY <1>2 DEF ImageIs, Sane
<1>4. i \in DOMAIN n /\ n[i].type = "file"
  BY DEF Image!FilesOn
<1>5. i \in Live(n, e, 0)
  <2>1. i \in Counted(n, 0)
    BY <1>3, <1>4 DEF Counted, Typed
  <2>2. QED
    BY <1>2, <2>1, CountedLive
<1>6. Image!Content(i) = ContentIn(n, y, z, i)
  BY ImageContent
<1>7. FromHost(Image!Content(i))
  BY <1>3, <1>4, <1>5, <1>6 DEF AllSized, Sized
<1>8. ASSUME i \in DOMAIN inode, i # fresh
      PROVE  Image!Content(i) = Content(i)
  <2>1. Disk.inode = inode /\ Disk.dirBlock = dirBlock /\ Disk.indirect = indirect /\ Disk.data = data
    BY DEF Disk
  <2>2. SameFiles(image, Disk, fresh)
    BY <1>1 DEF Fine
  <2>3. /\ i \in Live(inode, EntriesRead(dirBlock), 0) /\ inode[i].type = "file"
        /\ ContentIn(n, y, z, i) = ContentIn(inode, RowsRead(indirect), DataRead(data), i)
    BY <1>4, <1>5, <1>8, <2>1, <2>2 DEF SameFiles
  <2>4. PICK f \in {0, fresh} : SaneDisk(Disk, f)
    BY DEF WInv, Going, AfterDeath, Rest, Fine
  <2>5. i \in Live(inode, EntriesRead(dirBlock), f)
    BY <1>8, <2>3, <2>4 DEF Live
  <2>6. QED
    BY <1>6, <2>3, <2>4, <2>5, DiskContent
<1>9. n[i].indirect \in {0} \cup DOMAIN image.indirect
  <2>1. CASE i = g
    BY <1>2, <1>3, <1>4, <2>1 DEF ImageIs, TableHeld, Typed
  <2>2. CASE i # g
    <3>1. i \in Live(n, e, g)
      BY <1>5, <2>2 DEF Live
    <3>2. FileHeld(n, y, DOMAIN image.indirect, DOMAIN image.data, i)
      BY <1>2, <1>4, <3>1 DEF ImageIs, Sane, FilesHeld
    <3>3. QED
      BY <3>2 DEF FileHeld
  <2>3. QED
    BY <2>1, <2>2
<1>10. QED
  BY <1>7, <1>8, <1>9

\* After any write, and wherever the program dies, each file that was there has its
\* content, and one that is being copied reads as the start of the host file from
\* blocks that have been written; also after any number of deaths, as long as
\* commands go on only from images that are Intact.
THEOREM FilesReadBackMeanwhileAlways == WSpec => []FilesReadBackMeanwhile
BY FilesMeanwhile, WInvariant, PTL

============================================================================
