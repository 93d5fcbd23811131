----------------------------- MODULE SfsProofs -----------------------------
(***************************************************************************)
(* Proofs about Sfs: the map, the inodes, the directories and the files    *)
(* agree on every volume that is not Lost.                                 *)
(*                                                                         *)
(* The invariant is stated of any disk n, b, x, t, m (inodes, directory    *)
(* blocks, indirect blocks, data, free map), so that a command can be      *)
(* followed through the disks in between: an orphan inode is made, a       *)
(* directory grows, the inode's name is entered; a name is removed, then   *)
(* the orphan is dropped.                                                  *)
(***************************************************************************)
EXTENDS Sfs, FiniteSetTheorems, NaturalsInduction, SequenceTheorems, WellFoundedInduction, TLAPS

Rows == 1 .. SFS_NDIRECT
Columns == 1 .. SFS_DENTRYPERBLOCK
IndirectRows == 1 .. SFS_DBPERIDB
Dots == {".", ".."}

EntryRecords == [sfd_ino : Blocks, sfd_name : Paths \cup {""}]

DirsIn(n) == {i \in DOMAIN n : n[i].type = "dir"}
FilesIn(n) == {i \in DOMAIN n : n[i].type = "file"}

\* The entry in column j of block c gives an inode a name.
Gives(b, c, j) == b[c][j].sfd_ino # 0 /\ b[c][j].sfd_name \notin Dots

\* Directory d has an entry in column j of its block in row k.
Used(n, b, d, k, j) == n[d].direct[k] # 0 /\ b[n[d].direct[k]][j].sfd_ino # 0

UsedSlots(n, b, d) == {s \in Rows \X Columns : Used(n, b, d, s[1], s[2])}

\* Content of Sfs, of any disk.
BlocksIn(n, x, i) ==
    IF Len(UpToMissing(n[i].direct)) = SFS_NDIRECT /\ n[i].indirect # 0
      THEN UpToMissing(n[i].direct) \o UpToMissing(x[n[i].indirect])
      ELSE UpToMissing(n[i].direct)

ContentOf(size, blocks, t) ==
    [size |-> Min({size, Len(blocks) * SFS_BLOCKSIZE}),
     chunks |-> [k \in 1 .. Min({ChunksOf(size), Len(blocks)}) |-> t[blocks[k]]]]

ContentIn(n, x, t, i) == ContentOf(n[i].size, BlocksIn(n, x, i), t)

----------------------------------------------------------------------------
\* The parts of the invariant.  O holds the inodes that have no name (yet, or
\* any more).

Tables(n, b, x) ==
    /\ n \in [DOMAIN n -> InodeRecords]
    /\ b \in [DOMAIN b -> [Columns -> EntryRecords]]
    /\ x \in [DOMAIN x -> [IndirectRows -> Blocks]]

\* Each block is of one kind, and the map has them all.
Kinds(n, b, x, t, m) ==
    /\ DOMAIN n \cap DOMAIN b = {} /\ DOMAIN n \cap DOMAIN x = {} /\ DOMAIN n \cap DOMAIN t = {}
    /\ DOMAIN b \cap DOMAIN x = {} /\ DOMAIN b \cap DOMAIN t = {} /\ DOMAIN x \cap DOMAIN t = {}
    /\ (DOMAIN n \cup DOMAIN b \cup DOMAIN x \cup DOMAIN t) \cap System = {}
    /\ m = System \cup DOMAIN n \cup DOMAIN b \cup DOMAIN x \cup DOMAIN t
    /\ m \subseteq Blocks
    /\ SFS_ROOT_LOCATION \in DirsIn(n)

EntriesLead(n, b, O) ==
    \A c \in DOMAIN b, j \in Columns :
        /\ b[c][j].sfd_ino = 0 => b[c][j] = FreeEntry
        /\ b[c][j].sfd_ino # 0 => b[c][j].sfd_ino \in DOMAIN n
        /\ Gives(b, c, j) => b[c][j].sfd_ino \notin O \cup {SFS_ROOT_LOCATION}

LinksOnce(b) ==
    \A c, d \in DOMAIN b, j, i \in Columns :
        Gives(b, c, j) /\ Gives(b, d, i) /\ b[c][j].sfd_ino = b[d][i].sfd_ino => c = d /\ j = i

AllLinked(n, b, O) ==
    \A i \in DOMAIN n \ (O \cup {SFS_ROOT_LOCATION}) :
        \E c \in DOMAIN b, j \in Columns : Gives(b, c, j) /\ b[c][j].sfd_ino = i

DirectKinds(n, b, t) ==
    /\ \A i \in DirsIn(n) : n[i].direct[1] # 0
    /\ \A i \in DirsIn(n), k \in Rows : n[i].direct[k] # 0 => n[i].direct[k] \in DOMAIN b
    /\ \A i \in FilesIn(n), k \in Rows : n[i].direct[k] # 0 => n[i].direct[k] \in DOMAIN t

IndirectKinds(n, x, t) ==
    /\ \A i \in DirsIn(n) : n[i].indirect = 0
    /\ \A i \in FilesIn(n) : n[i].indirect # 0 => n[i].indirect \in DOMAIN x
    /\ \A c \in DOMAIN x, k \in IndirectRows : x[c][k] # 0 => x[c][k] \in DOMAIN t

DirectOnce(n) ==
    \A i, h \in DOMAIN n, k, l \in Rows :
        n[i].direct[k] # 0 /\ n[i].direct[k] = n[h].direct[l] => i = h /\ k = l

IndirectOnce(n) ==
    \A i, h \in DOMAIN n : n[i].indirect # 0 /\ n[i].indirect = n[h].indirect => i = h

RowsOnce(n, x) ==
    /\ \A c, d \in DOMAIN x, k, l \in IndirectRows :
          x[c][k] # 0 /\ x[c][k] = x[d][l] => c = d /\ k = l
    /\ \A i \in DOMAIN n, k \in Rows, c \in DOMAIN x, l \in IndirectRows :
          n[i].direct[k] # 0 => n[i].direct[k] # x[c][l]

\* Blocks nothing points to are directory blocks that rmdir left behind.
AllPointed(n, b, x, t) ==
    /\ \A c \in DOMAIN b :
          b[c] = NewDirBlock(<< >>) \/ \E i \in DOMAIN n, k \in Rows : n[i].direct[k] = c
    /\ \A c \in DOMAIN x : \E i \in DOMAIN n : n[i].indirect = c
    /\ \A c \in DOMAIN t :
          \/ \E i \in DOMAIN n, k \in Rows : n[i].direct[k] = c
          \/ \E d \in DOMAIN x, k \in IndirectRows : x[d][k] = c

\* Directory p gives inode i a name.
Holds(n, b, p, i) ==
    \E k \in Rows, j \in Columns :
        /\ n[p].direct[k] # 0
        /\ Gives(b, n[p].direct[k], j) /\ b[n[p].direct[k]][j].sfd_ino = i

\* Its own entries; the parent is p.
DotsOf(n, b, O, d) ==
    LET first == b[n[d].direct[1]]
        p == first[2].sfd_ino
    IN  /\ first[1] = Entry(d, ".")
        /\ first[2].sfd_name = ".."
        /\ p \in DirsIn(n)
        /\ d = SFS_ROOT_LOCATION => p = d
        /\ d # SFS_ROOT_LOCATION => d \in O \/ Holds(n, b, p, d)

DotsLead(n, b, O) == \A d \in DirsIn(n) : DotsOf(n, b, O, d)

NamesOf(n, b, d) ==
    \A k, l \in Rows, j, i \in Columns :
        Used(n, b, d, k, j) /\ Used(n, b, d, l, i)
            => (b[n[d].direct[k]][j].sfd_name = b[n[d].direct[l]][i].sfd_name => k = l /\ j = i)

NamesOnce(n, b) == \A d \in DirsIn(n) : NamesOf(n, b, d)

SizesCount(n, b) == \A d \in DirsIn(n) : n[d].size = Cardinality(UsedSlots(n, b, d))

Holding(content, size) == content.size = size /\ FromHost(content)

FilesHold(n, x, t) == \A i \in FilesIn(n) : Holding(ContentIn(n, x, t, i), n[i].size)

DiskOK(n, b, x, t, m, O) ==
    /\ Tables(n, b, x)
    /\ Kinds(n, b, x, t, m)
    /\ EntriesLead(n, b, O) /\ LinksOnce(b) /\ AllLinked(n, b, O)
    /\ DirectKinds(n, b, t) /\ IndirectKinds(n, x, t)
    /\ DirectOnce(n) /\ IndirectOnce(n) /\ RowsOnce(n, x)
    /\ AllPointed(n, b, x, t)
    /\ DotsLead(n, b, O) /\ NamesOnce(n, b) /\ SizesCount(n, b)
    /\ FilesHold(n, x, t)

\* What cpout takes.
Output(file) == file = NoFile \/ (file.size \in 0 .. MaxFileSize /\ FromHost(file))

SfsTypes ==
    /\ cwd \in Blocks
    /\ bitmap \subseteq Blocks
    /\ Tables(inode, dirBlock, indirect)
    /\ lacking \in Nat
    /\ Output(output)

IndInv ==
    /\ SfsTypes
    /\ ~Lost =>
          /\ DiskOK(inode, dirBlock, indirect, data, bitmap, {})
          /\ cwd = SFS_NOINO \/ cwd \in DirsIn(inode)

----------------------------------------------------------------------------
\* Helpers: the least of a set, division, the constants.

\* Every set of natural numbers has a least element.
LEMMA LeastNatural ==
    ASSUME NEW S \in SUBSET Nat, S # {}
    PROVE  \E n \in S : \A m \in S : n <= m
<1> DEFINE R == OpToRel(<, Nat)
<1>1. IsWellFoundedOn(R, Nat)
  BY NatLessThanWellFounded
<1>2. \A m, n \in Nat : ~(n <= m) => <<m, n>> \in R
  BY DEF OpToRel
<1>. HIDE DEF R
<1>3. PICK n \in S : \A m \in S : <<m, n>> \notin R
  BY <1>1, WFMin, Zenon
<1>4. QED
  BY <1>2, <1>3

LEMMA MinOf ==
    ASSUME NEW S \in SUBSET Nat, S # {}
    PROVE  Min(S) \in S /\ \A m \in S : Min(S) <= m
BY LeastNatural DEF Min

\* The slot found in a set of slots is one of them.
LEMMA FirstSlot ==
    ASSUME NEW S \in SUBSET (Rows \X Columns), S # {}
    PROVE  FirstOf(S) \in S
<1> DEFINE K == {s[1] : s \in S}
<1>1. Rows \subseteq Nat /\ Columns \subseteq Nat
  BY SfsAssumption DEF Rows, Columns
<1>2. K \in SUBSET Nat /\ K # {}
  BY <1>1
<1>3. PICK s0 \in S : \A t \in S : s0[1] <= t[1]
  <2>1. \E n \in K : \A m \in K : n <= m
    BY <1>2, LeastNatural
  <2>2. QED
    BY <2>1
<1> DEFINE J == {s[2] : s \in {t \in S : t[1] = s0[1]}}
<1>4. J \in SUBSET Nat /\ J # {}
  BY <1>1
<1>5. PICK s1 \in S : s1[1] = s0[1] /\ \A t \in S : t[1] = s0[1] => s1[2] <= t[2]
  <2>1. \E n \in J : \A m \in J : n <= m
    BY <1>4, LeastNatural
  <2>2. QED
    BY <2>1
<1>6. ASSUME NEW t \in S
      PROVE  Before(s1, t)
  <2>1. s1[1] \in Nat /\ s1[2] \in Nat /\ t[1] \in Nat /\ t[2] \in Nat
    BY <1>1
  <2>2. s1[1] <= t[1] /\ (t[1] = s1[1] => s1[2] <= t[2])
    BY <1>3, <1>5
  <2>3. QED
    BY <2>1, <2>2 DEF Before
<1>7. QED
  BY <1>6 DEF FirstOf

\* Rounding up.
LEMMA RoundedUp ==
    ASSUME NEW a \in Nat, NEW b \in Nat \ {0}
    PROVE  LET q == (a + b - 1) \div b
           IN  q \in Nat /\ a <= b * q /\ \A l \in Nat : a <= b * l => q <= l
<1> DEFINE q == (a + b - 1) \div b
           r == (a + b - 1) % b
<1>1. a + b - 1 \in Nat
  OBVIOUS
<1>2. q \in Nat /\ r \in 0 .. b - 1 /\ a + b - 1 = b * q + r
  BY <1>1
<1>. HIDE DEF q, r
<1>3. b * q \in Nat
  BY <1>2
<1>4. a <= b * q
  BY <1>2, <1>3
<1>5. ASSUME NEW l \in Nat, a <= b * l
      PROVE  q <= l
  <2>1. b * l \in Nat /\ b * (l + 1) = b * l + b
    OBVIOUS
  <2>2. CASE l + 1 <= q
    <3>1. b * (l + 1) <= b * q
      BY <1>2, <2>2
    <3>2. QED
      BY <1>2, <1>3, <1>5, <2>1, <3>1
  <2>3. QED
    BY <1>2, <2>2
<1>6. QED
  BY <1>2, <1>4, <1>5 DEF q

LEMMA VolumeFacts ==
    /\ SFS_BITBLOCKS \in Nat /\ SFS_BLOCKBITS \in Nat /\ RootBlock \in Blocks
    /\ Blocks \subseteq Nat /\ IsFiniteSet(Blocks)
    /\ 0 \in Blocks /\ SFS_ROOT_LOCATION \in Blocks
    /\ System \subseteq Blocks /\ 0 \in System
    /\ SFS_ROOT_LOCATION \notin System /\ RootBlock \notin System
    /\ SFS_ROOT_LOCATION # RootBlock /\ SFS_ROOT_LOCATION # 0
<1> DEFINE bits == SFS_BLOCKBITS
           q == SFS_BITBLOCKS
<1>1. bits \in Nat \ {0}
  BY SfsAssumption DEF SFS_BLOCKBITS
<1>. HIDE DEF bits
<1>2. q \in Nat /\ nblocks <= bits * q
  BY <1>1, SfsAssumption, RoundedUp DEF SFS_BITBLOCKS, bits
<1>. HIDE DEF q
<1>3. bits * q \in Nat /\ q * bits = bits * q
  BY <1>1, <1>2
<1>4. Blocks = 0 .. (bits * q) - 1
  BY <1>3 DEF Blocks, bits, q
<1>5. RootBlock = 2 + q
  BY <1>2 DEF RootBlock, SFS_MAP_LOCATION, q
<1>6. 2 + q < nblocks /\ nblocks \in Nat
  BY <1>5, VolumeAssumption, SfsAssumption
<1>7. IsFiniteSet(Blocks)
  BY <1>3, <1>4, FS_Interval
<1>8. System = {0} \cup (2 .. (1 + q)) \cup {n \in Blocks : n >= nblocks}
  BY <1>2, <1>5 DEF System, SFS_MAP_LOCATION
<1>9. QED
  BY <1>1, <1>2, <1>3, <1>4, <1>5, <1>6, <1>7, <1>8 DEF bits, q, SFS_ROOT_LOCATION

----------------------------------------------------------------------------
\* The scans of the map.

\* The k-th lowest element of a finite set of numbers.
LEMMA Ranked ==
    ASSUME NEW S \in SUBSET Nat, IsFiniteSet(S), NEW k \in Nat, k < Cardinality(S)
    PROVE  \E b \in S : Cardinality({c \in S : c < b}) = k
<1> DEFINE rank(b) == Cardinality({c \in S : c < b})
           unranked == {n \in 0 .. Cardinality(S) - 1 : ~\E b \in S : rank(b) = n}
<1>1. Cardinality(S) \in Nat
  BY FS_CardinalityType
<1>2. ASSUME NEW b \in S, NEW T, T = {c \in S : c < b}
      PROVE  rank(b) = Cardinality(T)
  BY <1>2
<1>3. k \in 0 .. Cardinality(S) - 1
  BY <1>1
<1>4. unranked = {}
  <2>1. SUFFICES ASSUME unranked # {}
                 PROVE  FALSE
    OBVIOUS
  <2>. HIDE DEF rank
  <2>2. unranked \in SUBSET Nat
    BY <1>1
  <2>3. PICK n \in unranked : \A m \in unranked : n <= m
    BY <2>1, <2>2, LeastNatural
  <2>4. /\ n \in Nat /\ n < Cardinality(S) /\ S \subseteq Nat
        /\ \A b \in S : rank(b) # n
    BY <1>1, <2>3
  <2>5. CASE n = 0
    <3>1. S # {}
      BY <1>1, <2>4, FS_EmptySet
    <3>2. PICK b \in S : \A c \in S : b <= c
      BY <3>1, LeastNatural
    <3>3. {c \in S : c < b} = {}
      <4>1. \A c \in S : ~(c < b)
        BY <2>4, <3>2
      <4>2. QED
        BY <4>1
    <3>4. rank(b) = Cardinality({})
      BY <1>2, <3>3
    <3>5. QED
      BY <2>4, <2>5, <3>4, FS_EmptySet
  <2>6. CASE n # 0
    <3>1. n - 1 \in 0 .. Cardinality(S) - 1 /\ n - 1 \notin unranked
      <4>1. n - 1 \in 0 .. Cardinality(S) - 1 /\ ~(n <= n - 1)
        BY <1>1, <2>4, <2>6
      <4>2. QED
        BY <2>3, <4>1
    <3>2. PICK b \in S : rank(b) = n - 1
      BY <3>1
    <3> DEFINE low == {c \in S : c < b}
               upTo == low \cup {b}
    <3>3. IsFiniteSet(low) /\ b \notin low
      <4>1. low \in SUBSET S /\ b \in Nat
        BY <2>4
      <4>2. QED
        BY <4>1, FS_Subset
    <3>4. Cardinality(upTo) = n
      <4>1. Cardinality(low) = n - 1
        BY <1>2, <3>2
      <4>2. Cardinality(upTo) = Cardinality(low) + 1
        BY <3>3, FS_AddElement
      <4>3. QED
        BY <2>4, <4>1, <4>2
    <3>5. S \ upTo # {}
      <4>1. upTo # S
        BY <2>4, <3>4
      <4>2. QED
        BY <4>1
    <3>6. PICK h \in S \ upTo : \A c \in S \ upTo : h <= c
      <4>1. S \ upTo \in SUBSET Nat
        BY <2>4
      <4>2. QED
        BY <3>5, <4>1, LeastNatural
    <3>7. {c \in S : c < h} = upTo
      <4>1. \A c \in S : c < h <=> c \in upTo
        <5>1. b < h
          BY <2>4, <3>6
        <5>2. ASSUME NEW c \in S
              PROVE  c < h <=> c \in upTo
          BY <2>4, <3>6, <5>1
        <5>3. QED
          BY <5>2
      <4>2. QED
        BY <4>1
    <3>8. rank(h) = Cardinality(upTo)
      <4>1. h \in S
        BY <3>6
      <4>2. QED
        BY <1>2, <3>7, <4>1
    <3>9. QED
      BY <2>4, <3>4, <3>6, <3>8
  <2>7. QED
    BY <2>5, <2>6
<1>5. PICK b \in S : rank(b) = k
  BY <1>3, <1>4
<1>6. QED
  BY <1>5

\* The blocks a command takes are free and differ.
LEMMA LowestFree ==
    ASSUME NEW n \in Nat, n <= Cardinality(Free)
    PROVE  /\ Lowest(n) \in [1 .. n -> Free]
           /\ \A k, l \in 1 .. n : Lowest(n)[k] = Lowest(n)[l] => k = l
<1> DEFINE low(k) == CHOOSE b \in Free : Cardinality({c \in Free : c < b}) = k - 1
<1>1. Free \in SUBSET Nat /\ IsFiniteSet(Free)
  BY VolumeFacts, FS_Subset DEF Free
<1>2. ASSUME NEW k \in 1 .. n
      PROVE  low(k) \in Free /\ Cardinality({c \in Free : c < low(k)}) = k - 1
  <2>1. k - 1 \in Nat /\ k - 1 < Cardinality(Free)
    BY <1>1, FS_CardinalityType
  <2>2. \E b \in Free : Cardinality({c \in Free : c < b}) = k - 1
    BY <1>1, <2>1, Ranked
  <2>3. QED
    BY <2>2
<1>3. Lowest(n) = [k \in 1 .. n |-> low(k)]
  BY DEF Lowest
<1>. HIDE DEF low
<1>4. ASSUME NEW k \in 1 .. n, NEW l \in 1 .. n, low(k) = low(l)
      PROVE  k = l
  <2>1. k - 1 = l - 1
    BY <1>2, <1>4
  <2>2. QED
    BY <2>1
<1>5. QED
  BY <1>2, <1>3, <1>4

\* One more block: where the scan resumes, without what is taken or found.
NextOpen(taken, so_far) ==
    Scanned(IF so_far = << >> THEN <<0, 0, 0>> ELSE After(Last(so_far))) \ (taken \cup ToSet(so_far))

Found(taken, k, so_far) ==
    IF Len(so_far) < k - 1 \/ NextOpen(taken, so_far) = {} THEN so_far
    ELSE Append(so_far, Min(NextOpen(taken, so_far)))

\* A sequence of different blocks that are not taken, at most n long.
Untaken(taken, n, s) ==
    /\ s \in Seq(Blocks) /\ Len(s) <= n
    /\ \A k \in 1 .. Len(s) : s[k] \notin taken
    /\ \A k, l \in 1 .. Len(s) : s[k] = s[l] => k = l

LEMMA UntakenNext ==
    ASSUME NEW taken, NEW n \in Nat, NEW s, Untaken(taken, n, s)
    PROVE  Untaken(taken, n + 1, Found(taken, n + 1, s))
<1>1. s \in Seq(Blocks) /\ Len(s) <= n /\ Len(s) \in Nat
  BY DEF Untaken
<1>2. CASE Found(taken, n + 1, s) = s
  BY <1>1, <1>2 DEF Untaken
<1>3. CASE Found(taken, n + 1, s) # s
  <2> DEFINE open == NextOpen(taken, s)
             e == Min(open)
  <2>1. open # {} /\ Found(taken, n + 1, s) = Append(s, e)
    BY <1>3 DEF Found
  <2>2. open \subseteq Blocks /\ Blocks \subseteq Nat
    BY VolumeFacts DEF NextOpen, Scanned
  <2>3. e \in open
    BY <2>1, <2>2, MinOf
  <2>4. e \in Blocks /\ e \notin taken /\ \A k \in 1 .. Len(s) : s[k] # e
    <3>1. open \cap (taken \cup ToSet(s)) = {}
      BY DEF NextOpen
    <3>2. \A k \in 1 .. Len(s) : s[k] \in ToSet(s)
      BY <1>1 DEF ToSet
    <3>. HIDE DEF e, open
    <3>3. QED
      BY <2>2, <2>3, <3>1, <3>2
  <2>. HIDE DEF e, open
  <2>5. /\ Append(s, e) \in Seq(Blocks) /\ Len(Append(s, e)) = Len(s) + 1
        /\ \A k \in 1 .. Len(s) : Append(s, e)[k] = s[k]
        /\ Append(s, e)[Len(s) + 1] = e
    BY <1>1, <2>4
  <2>6. QED
    BY SMTT(30), <1>1, <2>1, <2>4, <2>5 DEF Untaken
<1>4. QED
  BY <1>2, <1>3

\* What the scans find are different blocks that were open, up to n of them.
LEMMA ScanUntaken ==
    ASSUME NEW taken, NEW n \in Nat
    PROVE  Untaken(taken, n, Scan(taken, n))
<1> DEFINE follows(f, k) == IF k = 0 THEN << >> ELSE Found(taken, k, f[k - 1])
           defined(g, m) == g = [k \in 0 .. m |-> follows(g, k)]
           found == CHOOSE f : f = [k \in 0 .. n |-> follows(f, k)]
           undefined == {m \in 0 .. n : ~\E g : defined(g, m)}
           wrong(f) == {m \in 0 .. n : ~Untaken(taken, m, f[m])}
<1>1. Scan(taken, n) = found[n]
  BY Zenon DEF Scan, Found, NextOpen
<1>2. \E g : defined(g, 0)
  <2> DEFINE g == [k \in 0 .. 0 |-> << >>]
  <2>1. g = [k \in 0 .. 0 |-> follows(g, k)]
    <3>1. \A k \in 0 .. 0 : follows(g, k) = << >>
      OBVIOUS
    <3>2. QED
      BY <3>1
  <2>2. QED
    BY <2>1
<1>3. ASSUME NEW m \in Nat, NEW g, defined(g, m)
      PROVE  \E h : defined(h, m + 1)
  <2> DEFINE h == [k \in 0 .. m + 1 |-> IF k = m + 1 THEN Found(taken, m + 1, g[m]) ELSE g[k]]
  <2>1. \A k \in 0 .. m : g[k] = follows(g, k)
    BY <1>3
  <2>2. ASSUME NEW k \in 0 .. m + 1
        PROVE  h[k] = follows(h, k)
    <3>1. CASE k = m + 1
      BY <3>1
    <3>2. CASE k # m + 1
      <4>1. h[k] = g[k] /\ g[k] = follows(g, k)
        BY <2>1, <3>2
      <4>2. k # 0 => k - 1 \in 0 .. m + 1 /\ k - 1 # m + 1
        BY <3>2
      <4>3. k # 0 => h[k - 1] = g[k - 1]
        BY <4>2
      <4>4. QED
        BY <4>1, <4>3
    <3>3. QED
      BY <3>1, <3>2
  <2>3. h = [k \in 0 .. m + 1 |-> h[k]]
    OBVIOUS
  <2>. HIDE DEF h, follows
  <2>4. h = [k \in 0 .. m + 1 |-> follows(h, k)]
    BY <2>2, <2>3
  <2>5. QED
    BY <2>4
<1>4. found = [k \in 0 .. n |-> follows(found, k)]
  <2>1. undefined = {}
    <3>1. SUFFICES ASSUME undefined # {}
                   PROVE  FALSE
      OBVIOUS
    <3>. HIDE DEF defined
    <3>2. undefined \in SUBSET Nat
      OBVIOUS
    <3>3. PICK m \in undefined : \A l \in undefined : m <= l
      BY <3>1, <3>2, LeastNatural
    <3>4. m \in 0 .. n /\ m # 0
      BY <1>2, <3>3
    <3>5. m - 1 \in 0 .. n /\ m - 1 \notin undefined
      <4>1. m - 1 \in 0 .. n /\ ~(m <= m - 1)
        BY <3>4
      <4>2. QED
        BY <3>3, <4>1
    <3>6. PICK g : defined(g, m - 1)
      BY <3>5
    <3>7. \E h : defined(h, (m - 1) + 1)
      <4>1. m - 1 \in Nat
        BY <3>5
      <4>2. QED
        BY <1>3, <3>6, <4>1
    <3>8. (m - 1) + 1 = m
      BY <3>4
    <3>9. QED
      BY <3>3, <3>7, <3>8
  <2>2. \E g : defined(g, n)
    <3>1. n \in 0 .. n /\ n \notin undefined
      BY <2>1
    <3>. HIDE DEF defined
    <3>2. QED
      BY <3>1
  <2>. HIDE DEF follows
  <2>3. QED
    BY <2>2
<1>. HIDE DEF found
<1>5. wrong(found) = {}
  <2> DEFINE bad == wrong(found)
  <2>1. SUFFICES ASSUME bad # {}
                 PROVE  FALSE
    OBVIOUS
  <2>2. bad \in SUBSET Nat
    OBVIOUS
  <2>3. PICK m \in bad : \A l \in bad : m <= l
    BY <2>1, <2>2, LeastNatural
  <2>4. m \in 0 .. n /\ ~Untaken(taken, m, found[m])
    BY <2>3
  <2>5. m # 0
    <3>1. found[0] = << >>
      BY <1>4
    <3>2. Untaken(taken, 0, << >>)
      BY DEF Untaken
    <3>3. QED
      BY <2>4, <3>1, <3>2
  <2>6. m - 1 \in 0 .. n /\ m - 1 \in Nat /\ (m - 1) + 1 = m
    BY <2>4, <2>5
  <2>7. Untaken(taken, m - 1, found[m - 1])
    <3>1. m - 1 \notin bad
      BY <2>3, <2>4, <2>6
    <3>2. QED
      BY <2>6, <3>1
  <2>8. Untaken(taken, m, Found(taken, m, found[m - 1]))
    BY <2>6, <2>7, UntakenNext
  <2>9. found[m] = Found(taken, m, found[m - 1])
    BY <1>4, <2>4, <2>5
  <2>10. QED
    BY <2>4, <2>8, <2>9
<1>6. QED
  BY <1>1, <1>5

----------------------------------------------------------------------------
\* Steps from disk to disk.

LEMMA EmptyBlock ==
    /\ NewDirBlock(<< >>) \in [Columns -> EntryRecords]
    /\ \A j \in Columns : NewDirBlock(<< >>)[j] = FreeEntry
    /\ FreeEntry \in EntryRecords /\ FreeEntry.sfd_ino = 0 /\ FreeEntry.sfd_name = ""
<1>1. FreeEntry = [sfd_ino |-> 0, sfd_name |-> ""]
  BY DEF FreeEntry, Entry, SFS_NOINO
<1>2. \A j \in Columns : ~(j <= Len(<< >>))
  BY DEF Columns
<1>3. NewDirBlock(<< >>) = [j \in Columns |-> FreeEntry]
  BY <1>2 DEF NewDirBlock, Columns
<1>4. 0 \in Blocks
  BY VolumeFacts
<1>5. FreeEntry \in EntryRecords
  BY <1>1, <1>4 DEF EntryRecords
<1>6. FreeEntry.sfd_ino = 0 /\ FreeEntry.sfd_name = ""
  BY <1>1
<1>7. QED
  BY <1>3, <1>5, <1>6

\* What follows at once.
DiskFacts(n, b, x, t, m) ==
    /\ DirsIn(n) \cup FilesIn(n) = DOMAIN n /\ DirsIn(n) \cap FilesIn(n) = {}
    /\ 0 \notin DOMAIN n /\ 0 \notin DOMAIN b /\ 0 \notin DOMAIN x /\ 0 \notin DOMAIN t
    /\ \A c \in Blocks \ m :
          /\ c # 0 /\ c \notin System
          /\ c \notin DOMAIN n /\ c \notin DOMAIN b /\ c \notin DOMAIN x /\ c \notin DOMAIN t
    /\ \A i \in DOMAIN n, k \in Rows :
          n[i].direct[k] # 0 => n[i].direct[k] \in DOMAIN b \cup DOMAIN t
    /\ 1 \in Rows /\ 1 \in Columns /\ 2 \in Columns
    /\ \A i \in DirsIn(n) : n[i].direct[1] # 0 /\ n[i].direct[1] \in DOMAIN b

LEMMA OnDisk ==
    ASSUME NEW n, NEW b, NEW x, NEW t, NEW m, NEW O, DiskOK(n, b, x, t, m, O)
    PROVE  DiskFacts(n, b, x, t, m)
<1>1. DirsIn(n) \cup FilesIn(n) = DOMAIN n /\ DirsIn(n) \cap FilesIn(n) = {}
  <2>1. \A i \in DOMAIN n : n[i].type \in {"file", "dir"}
    BY DEF DiskOK, Tables, InodeRecords
  <2>2. QED
    BY <2>1 DEF DirsIn, FilesIn
<1>2. /\ 0 \notin DOMAIN n /\ 0 \notin DOMAIN b /\ 0 \notin DOMAIN x /\ 0 \notin DOMAIN t
      /\ \A c \in Blocks \ m :
            /\ c # 0 /\ c \notin System
            /\ c \notin DOMAIN n /\ c \notin DOMAIN b /\ c \notin DOMAIN x /\ c \notin DOMAIN t
  BY VolumeFacts DEF DiskOK, Kinds
<1>3. \A i \in DOMAIN n, k \in Rows :
          n[i].direct[k] # 0 => n[i].direct[k] \in DOMAIN b \cup DOMAIN t
  BY <1>1 DEF DiskOK, DirectKinds
<1>4. 1 \in Rows /\ 1 \in Columns /\ 2 \in Columns
  BY SfsAssumption DEF Rows, Columns
<1>5. \A i \in DirsIn(n) : n[i].direct[1] # 0 /\ n[i].direct[1] \in DOMAIN b
  BY <1>4 DEF DiskOK, DirectKinds
<1>6. QED
  BY <1>1, <1>2, <1>3, <1>4, <1>5 DEF DiskFacts

\* The steps on tables.

GrownInodes(n, d, k, c) == [n EXCEPT ![d].direct[k] = c]

LEMMA GrownInodesAt ==
    ASSUME NEW n, n \in [DOMAIN n -> InodeRecords], NEW d \in DOMAIN n, NEW k \in Rows, NEW c \in Blocks,
           NEW n2, n2 = GrownInodes(n, d, k, c)
    PROVE  /\ n2 \in [DOMAIN n -> InodeRecords] /\ DOMAIN n2 = DOMAIN n
           /\ \A i \in DOMAIN n : i # d => n2[i] = n[i]
           /\ \A i \in DOMAIN n :
                 /\ n2[i].type = n[i].type /\ n2[i].size = n[i].size /\ n2[i].indirect = n[i].indirect
                 /\ \A l \in Rows : n2[i].direct[l] = IF i = d /\ l = k THEN c ELSE n[i].direct[l]
           /\ DirsIn(n2) = DirsIn(n) /\ FilesIn(n2) = FilesIn(n)
<1> DEFINE r == n[d]
           q == [r.direct EXCEPT ![k] = c]
           r2 == [r EXCEPT !.direct = q]
<1>1. r \in InodeRecords
  OBVIOUS
<1>2. r.direct \in [Rows -> Blocks]
  BY <1>1 DEF InodeRecords, Rows
<1>3. q \in [Rows -> Blocks] /\ \A l \in Rows : q[l] = IF l = k THEN c ELSE r.direct[l]
  BY <1>2
<1>. HIDE DEF q
<1>4. r2 \in InodeRecords /\ r2.type = r.type /\ r2.size = r.size /\ r2.indirect = r.indirect /\ r2.direct = q
  BY <1>1, <1>3 DEF InodeRecords, Rows
<1>5. n2 = [n EXCEPT ![d] = r2]
  BY DEF GrownInodes, q
<1>. HIDE DEF r2
<1>6. /\ n2 \in [DOMAIN n -> InodeRecords] /\ DOMAIN n2 = DOMAIN n
      /\ \A i \in DOMAIN n : i # d => n2[i] = n[i]
      /\ n2[d] = r2
  BY <1>4, <1>5
<1>7. \A i \in DOMAIN n :
          /\ n2[i].type = n[i].type /\ n2[i].size = n[i].size /\ n2[i].indirect = n[i].indirect
          /\ \A l \in Rows : n2[i].direct[l] = IF i = d /\ l = k THEN c ELSE n[i].direct[l]
  BY <1>3, <1>4, <1>6
<1>8. DirsIn(n2) = DirsIn(n) /\ FilesIn(n2) = FilesIn(n)
  BY <1>6, <1>7 DEF DirsIn, FilesIn
<1>9. QED
  BY <1>6, <1>7, <1>8

LEMMA PutAt ==
    ASSUME NEW S, NEW b, b \in [DOMAIN b -> S], NEW c, NEW block \in S, c \notin DOMAIN b,
           NEW b2, b2 = Put(b, c, block)
    PROVE  /\ DOMAIN b2 = DOMAIN b \cup {c} /\ b2 \in [DOMAIN b2 -> S]
           /\ b2[c] = block
           /\ \A e \in DOMAIN b : b2[e] = b[e]
BY DEF Put

LEMMA UpToMissingIs ==
    ASSUME NEW N \in Nat, NEW s \in [1 .. N -> Blocks], NEW u, u = UpToMissing(s)
    PROVE  /\ u \in Seq(Blocks) /\ Len(u) \in 0 .. N /\ Len(s) = N
           /\ \A k \in 1 .. Len(u) : u[k] = s[k] /\ s[k] # 0
           /\ Len(u) = N \/ s[Len(u) + 1] = 0
<1> DEFINE stops == {k \in 0 .. N : k = N \/ s[k + 1] = 0}
           e == Min(stops)
<1>1. s \in Seq(Blocks) /\ Len(s) = N
  OBVIOUS
<1>2. stops \in SUBSET Nat /\ N \in stops
  OBVIOUS
<1>3. e \in stops /\ \A k \in stops : e <= k
  BY <1>2, MinOf
<1>4. u = SubSeq(s, 1, e)
  BY <1>1 DEF UpToMissing
<1>5. e \in 0 .. N /\ (e = N \/ s[e + 1] = 0)
  BY <1>3
<1>6. \A k \in 1 .. e : s[k] # 0
  <2>1. ASSUME NEW k \in 1 .. e, s[k] = 0
        PROVE  FALSE
    <3>1. k - 1 \in 0 .. N /\ (k - 1) + 1 = k /\ ~(e <= k - 1)
      BY <1>5
    <3>2. k - 1 \in stops
      BY <2>1, <3>1
    <3>3. QED
      BY <1>3, <3>1, <3>2
  <2>2. QED
    BY <2>1
<1>. HIDE DEF e
<1>7. SubSeq(s, 1, e) \in Seq(Blocks) /\ Len(SubSeq(s, 1, e)) = e
      /\ \A k \in 1 .. e : SubSeq(s, 1, e)[k] = s[k]
  BY <1>1, <1>5
<1>8. QED
  BY <1>1, <1>4, <1>5, <1>6, <1>7

LEMMA BlocksOfFile ==
    ASSUME NEW n, NEW b, NEW x, Tables(n, b, x), NEW i \in DOMAIN n,
           n[i].indirect # 0 => n[i].indirect \in DOMAIN x, NEW s, s = BlocksIn(n, x, i)
    PROVE  /\ s \in Seq(Blocks) /\ Len(s) \in 0 .. SFS_NDIRECT + SFS_DBPERIDB
           /\ \A k \in 1 .. Len(s) :
                 /\ s[k] # 0
                 /\ \/ \E l \in Rows : s[k] = n[i].direct[l]
                    \/ n[i].indirect # 0 /\ \E l \in IndirectRows : s[k] = x[n[i].indirect][l]
<1> DEFINE d == n[i].direct
           u == UpToMissing(d)
           v == UpToMissing(x[n[i].indirect])
<1>1. n[i] \in InodeRecords
  BY DEF Tables
<1>2. d \in [1 .. SFS_NDIRECT -> Blocks] /\ SFS_NDIRECT \in Nat /\ SFS_DBPERIDB \in Nat
  BY <1>1, SfsAssumption DEF InodeRecords
<1>3. /\ u \in Seq(Blocks) /\ Len(u) \in 0 .. SFS_NDIRECT
      /\ \A k \in 1 .. Len(u) : u[k] = d[k] /\ d[k] # 0
  BY <1>2, UpToMissingIs
<1>4. CASE Len(u) = SFS_NDIRECT /\ n[i].indirect # 0
  <2>1. x[n[i].indirect] \in [1 .. SFS_DBPERIDB -> Blocks]
    BY <1>4 DEF Tables, IndirectRows
  <2>2. /\ v \in Seq(Blocks) /\ Len(v) \in 0 .. SFS_DBPERIDB
        /\ \A k \in 1 .. Len(v) : v[k] = x[n[i].indirect][k] /\ x[n[i].indirect][k] # 0
    BY <1>2, <2>1, UpToMissingIs
  <2>3. s = u \o v
    BY <1>4 DEF BlocksIn
  <2>. HIDE DEF u, v, d
  <2>4. /\ u \o v \in Seq(Blocks) /\ Len(u \o v) = Len(u) + Len(v)
        /\ \A k \in 1 .. Len(u) : (u \o v)[k] = u[k]
        /\ \A k \in Len(u) + 1 .. Len(u) + Len(v) : (u \o v)[k] = v[k - Len(u)]
    BY <1>3, <2>2
  <2>5. ASSUME NEW k \in 1 .. Len(s), k <= Len(u)
        PROVE  s[k] # 0 /\ \E l \in Rows : s[k] = d[l]
    <3>1. k \in 1 .. Len(u) /\ k \in 1 .. SFS_NDIRECT
      BY <1>2, <1>3, <2>5
    <3>2. s[k] = d[k] /\ d[k] # 0
      BY <1>3, <2>3, <2>4, <3>1
    <3>3. QED
      BY <3>1, <3>2 DEF Rows
  <2>6. ASSUME NEW k \in 1 .. Len(s), ~(k <= Len(u))
        PROVE  s[k] # 0 /\ \E l \in IndirectRows : s[k] = x[n[i].indirect][l]
    <3>1. k \in Len(u) + 1 .. Len(u) + Len(v) /\ k - Len(u) \in 1 .. Len(v)
      BY <1>3, <2>2, <2>3, <2>4, <2>6
    <3>2. s[k] = v[k - Len(u)] /\ k - Len(u) \in IndirectRows
      BY <1>2, <2>2, <2>3, <2>4, <3>1 DEF IndirectRows
    <3>3. QED
      BY <2>2, <3>1, <3>2
  <2>7. Len(s) \in 0 .. SFS_NDIRECT + SFS_DBPERIDB
    BY <1>2, <1>3, <2>2, <2>3, <2>4
  <2>8. QED
    BY <1>4, <2>3, <2>4, <2>5, <2>6, <2>7 DEF d
<1>5. CASE ~(Len(u) = SFS_NDIRECT /\ n[i].indirect # 0)
  <2>1. s = u
    BY <1>5 DEF BlocksIn
  <2>. HIDE DEF u
  <2>2. \A k \in 1 .. Len(s) : s[k] # 0 /\ k \in Rows /\ s[k] = d[k]
    BY <1>2, <1>3, <2>1 DEF Rows
  <2>3. Len(s) \in 0 .. SFS_NDIRECT + SFS_DBPERIDB
    BY <1>2, <1>3, <2>1
  <2>. HIDE DEF d
  <2>4. QED
    BY <1>3, <2>1, <2>2, <2>3 DEF d
<1>6. QED
  BY <1>4, <1>5

\* A file whose inode, indirect block and data stay reads the same.
LEMMA SameContent ==
    ASSUME NEW n, NEW b, NEW x, NEW t, Tables(n, b, x), NEW n2, NEW x2, NEW t2,
           NEW i \in DOMAIN n, n2[i] = n[i],
           n[i].indirect # 0 => n[i].indirect \in DOMAIN x /\ x2[n[i].indirect] = x[n[i].indirect],
           \A l \in Rows : n[i].direct[l] # 0 => t2[n[i].direct[l]] = t[n[i].direct[l]],
           n[i].indirect # 0 =>
               \A l \in IndirectRows :
                   x[n[i].indirect][l] # 0 => t2[x[n[i].indirect][l]] = t[x[n[i].indirect][l]]
    PROVE  ContentIn(n2, x2, t2, i) = ContentIn(n, x, t, i)
<1> DEFINE s == BlocksIn(n, x, i)
           size == n[i].size
           e == Min({ChunksOf(size), Len(s)})
<1>1. BlocksIn(n2, x2, i) = s
  BY DEF BlocksIn
<1>2. /\ Len(s) \in Nat
      /\ \A k \in 1 .. Len(s) :
            /\ s[k] # 0
            /\ \/ \E l \in Rows : s[k] = n[i].direct[l]
               \/ n[i].indirect # 0 /\ \E l \in IndirectRows : s[k] = x[n[i].indirect][l]
  BY BlocksOfFile
<1>. HIDE DEF s
<1>3. \A k \in 1 .. Len(s) : t2[s[k]] = t[s[k]]
  BY <1>2
<1>4. e <= Len(s) /\ e \in Nat
  <2>1. size \in Nat
    BY DEF Tables, InodeRecords
  <2>2. ChunksOf(size) \in Nat
    BY <2>1, SfsAssumption, RoundedUp DEF ChunksOf
  <2>3. {ChunksOf(size), Len(s)} \in SUBSET Nat
    BY <1>2, <2>2
  <2>4. QED
    BY <2>3, MinOf
<1>. HIDE DEF e
<1>5. \A k \in 1 .. e : t2[s[k]] = t[s[k]]
  BY <1>2, <1>3, <1>4
<1>6. [k \in 1 .. e |-> t2[s[k]]] = [k \in 1 .. e |-> t[s[k]]]
  BY <1>5
<1>7. QED
  BY <1>1, <1>6 DEF ContentIn, ContentOf, s, e, size

\* A directory whose inode's pointers and blocks stay has the same entries.
LEMMA SameDirectory ==
    ASSUME NEW n, NEW b, NEW n2, NEW b2, NEW d,
           \A k \in Rows : n2[d].direct[k] = n[d].direct[k],
           \A k \in Rows : n[d].direct[k] # 0 => b2[n[d].direct[k]] = b[n[d].direct[k]]
    PROVE  /\ UsedSlots(n2, b2, d) = UsedSlots(n, b, d)
           /\ NamesOf(n, b, d) => NamesOf(n2, b2, d)
           /\ \A i : Holds(n, b, d, i) => Holds(n2, b2, d, i)
<1>1. \A k \in Rows, j \in Columns :
          /\ Used(n2, b2, d, k, j) <=> Used(n, b, d, k, j)
          /\ Used(n, b, d, k, j) => b2[n2[d].direct[k]][j] = b[n[d].direct[k]][j]
  BY DEF Used
<1>2. UsedSlots(n2, b2, d) = UsedSlots(n, b, d)
  BY <1>1 DEF UsedSlots
<1>3. ASSUME NamesOf(n, b, d), NEW k1 \in Rows, NEW k2 \in Rows, NEW j1 \in Columns, NEW j2 \in Columns,
             Used(n2, b2, d, k1, j1), Used(n2, b2, d, k2, j2),
             b2[n2[d].direct[k1]][j1].sfd_name = b2[n2[d].direct[k2]][j2].sfd_name
      PROVE  k1 = k2 /\ j1 = j2
  <2>1. /\ Used(n, b, d, k1, j1) /\ Used(n, b, d, k2, j2)
        /\ b[n[d].direct[k1]][j1].sfd_name = b[n[d].direct[k2]][j2].sfd_name
    BY <1>1, <1>3
  <2>2. QED
    BY <1>3, <2>1, Zenon DEF NamesOf
<1>4. NamesOf(n, b, d) => NamesOf(n2, b2, d)
  BY <1>3, Zenon DEF NamesOf
<1>5. \A i : Holds(n, b, d, i) => Holds(n2, b2, d, i)
  BY SMTT(30) DEF Holds, Gives
<1>6. QED
  BY <1>2, <1>4, <1>5

\* "." and ".." are where mkdir puts them.
LEMMA DotEntries ==
    ASSUME NEW n, NEW b, NEW x, NEW t, NEW m, NEW O, DiskOK(n, b, x, t, m, O),
           NEW c \in DOMAIN b, NEW j \in Columns, b[c][j].sfd_ino # 0, b[c][j].sfd_name \in Dots
    PROVE  \E d \in DirsIn(n) :
              /\ c = n[d].direct[1]
              /\ \/ j = 1 /\ b[c][j].sfd_ino = d
                 \/ j = 2 /\ DotsOf(n, b, O, d)
<1>0. DiskFacts(n, b, x, t, m)
  BY OnDisk
<1>1. PICK d \in DOMAIN n, k \in Rows : n[d].direct[k] = c
  <2>1. b[c] # NewDirBlock(<< >>)
    BY EmptyBlock
  <2>2. QED
    BY <2>1 DEF DiskOK, AllPointed
<1>2. d \in DirsIn(n) /\ c # 0
  <2>1. c # 0 /\ c \notin DOMAIN t
    BY <1>0 DEF DiskOK, Kinds, DiskFacts
  <2>2. d \notin FilesIn(n)
    BY <1>1, <2>1 DEF DiskOK, DirectKinds
  <2>3. QED
    BY <1>0, <2>1, <2>2 DEF DiskFacts
<1>3. 1 \in Rows /\ 1 \in Columns /\ 2 \in Columns /\ n[d].direct[1] # 0 /\ d # 0
  BY <1>0, <1>2 DEF DiskFacts, DirsIn
<1>4. DotsOf(n, b, O, d) /\ NamesOf(n, b, d)
  BY <1>2 DEF DiskOK, DotsLead, NamesOnce
<1> DEFINE f == n[d].direct[1]
<1>5. /\ b[f][1].sfd_ino = d /\ b[f][1].sfd_name = "."
      /\ b[f][2].sfd_ino \in DirsIn(n) /\ b[f][2].sfd_name = ".."
  BY <1>4 DEF DotsOf, Entry
<1>6. b[f][2].sfd_ino # 0
  BY <1>0, <1>5 DEF DiskFacts, DirsIn
<1>7. Used(n, b, d, k, j) /\ Used(n, b, d, 1, 1) /\ Used(n, b, d, 1, 2)
  BY <1>1, <1>2, <1>3, <1>5, <1>6 DEF Used
<1>8. CASE b[c][j].sfd_name = "."
  <2>1. k = 1 /\ j = 1
    BY <1>1, <1>3, <1>4, <1>5, <1>7, <1>8, Zenon DEF NamesOf
  <2>2. QED
    BY <1>1, <1>2, <1>5, <2>1
<1>9. CASE b[c][j].sfd_name = ".."
  <2>1. k = 1 /\ j = 2
    BY <1>1, <1>3, <1>4, <1>5, <1>7, <1>9, Zenon DEF NamesOf
  <2>2. QED
    BY <1>1, <1>2, <1>4, <2>1
<1>10. QED
  BY <1>8, <1>9 DEF Dots

\* A directory grows by an empty block.
LEMMA GrowOK ==
    ASSUME NEW n, NEW b, NEW x, NEW t, NEW m, NEW O, DiskOK(n, b, x, t, m, O),
           NEW d \in DirsIn(n), NEW k \in Rows, n[d].direct[k] = 0,
           NEW c \in Blocks \ m,
           NEW n2, n2 = GrownInodes(n, d, k, c),
           NEW b2, b2 = Put(b, c, NewDirBlock(<< >>))
    PROVE  DiskOK(n2, b2, x, t, m \cup {c}, O)
<1>1. /\ d \in DOMAIN n
      /\ n2 \in [DOMAIN n -> InodeRecords] /\ DOMAIN n2 = DOMAIN n
      /\ \A i \in DOMAIN n : i # d => n2[i] = n[i]
      /\ \A i \in DOMAIN n :
            /\ n2[i].type = n[i].type /\ n2[i].size = n[i].size /\ n2[i].indirect = n[i].indirect
            /\ \A l \in Rows : n2[i].direct[l] = IF i = d /\ l = k THEN c ELSE n[i].direct[l]
      /\ DirsIn(n2) = DirsIn(n) /\ FilesIn(n2) = FilesIn(n)
  <2>1. n \in [DOMAIN n -> InodeRecords] /\ d \in DOMAIN n
    BY DEF DiskOK, Tables, DirsIn
  <2>2. QED
    BY <2>1, GrownInodesAt
<1>23. DiskFacts(n, b, x, t, m)
  BY OnDisk
<1>2. /\ c # 0 /\ c \notin System
      /\ c \notin DOMAIN n /\ c \notin DOMAIN b /\ c \notin DOMAIN x /\ c \notin DOMAIN t
  BY <1>23 DEF DiskFacts
<1>21. /\ d \notin FilesIn(n) /\ 0 \notin DOMAIN b /\ 0 \notin DOMAIN t
       /\ DirsIn(n) \subseteq DOMAIN n /\ FilesIn(n) \subseteq DOMAIN n
       /\ \A i \in DOMAIN n, l \in Rows : n[i].direct[l] # c
       /\ \A i \in DirsIn(n), l \in Rows : n[i].direct[l] # 0 => n[i].direct[l] \in DOMAIN b
  <2>1. \A i \in DirsIn(n), l \in Rows : n[i].direct[l] # 0 => n[i].direct[l] \in DOMAIN b
    BY DEF DiskOK, DirectKinds
  <2>2. QED
    BY <1>2, <1>23, <2>1 DEF DiskFacts
<1>3. /\ DOMAIN b2 = DOMAIN b \cup {c} /\ b2 \in [DOMAIN b2 -> [Columns -> EntryRecords]]
      /\ \A e \in DOMAIN b : b2[e] = b[e]
      /\ b2[c] = NewDirBlock(<< >>) /\ \A j \in Columns : b2[c][j] = FreeEntry
  <2>1. b \in [DOMAIN b -> [Columns -> EntryRecords]]
    BY DEF DiskOK, Tables
  <2>2. NewDirBlock(<< >>) \in [Columns -> EntryRecords] /\ c \notin DOMAIN b
    BY <1>2, EmptyBlock
  <2>3. /\ DOMAIN b2 = DOMAIN b \cup {c} /\ b2 \in [DOMAIN b2 -> [Columns -> EntryRecords]]
        /\ b2[c] = NewDirBlock(<< >>)
        /\ \A e \in DOMAIN b : b2[e] = b[e]
    BY <2>1, <2>2 DEF Put
  <2>4. QED
    BY <2>3, EmptyBlock
<1>4. \A j \in Columns : b2[c][j].sfd_ino = 0
  BY <1>3, EmptyBlock
<1>5. Tables(n2, b2, x)
  BY <1>1, <1>3 DEF DiskOK, Tables
<1>6. Kinds(n2, b2, x, t, m \cup {c})
  BY <1>1, <1>2, <1>3 DEF DiskOK, Kinds
<1>7. EntriesLead(n2, b2, O)
  BY <1>1, <1>3, <1>4 DEF DiskOK, EntriesLead, Gives
<1>8. LinksOnce(b2)
  BY <1>1, <1>3, <1>4 DEF DiskOK, LinksOnce, Gives
<1>9. AllLinked(n2, b2, O)
  BY <1>1, <1>3 DEF DiskOK, AllLinked, Gives
<1>10. DirectKinds(n2, b2, t)
  <2>1. ASSUME NEW i \in DirsIn(n)
        PROVE  n2[i].direct[1] # 0 /\ \A l \in Rows : n2[i].direct[l] # 0 => n2[i].direct[l] \in DOMAIN b2
    <3>1. n[i].direct[1] # 0 /\ 1 \in Rows
      BY SfsAssumption DEF DiskOK, DirectKinds, Rows
    <3>2. QED
      BY <1>1, <1>2, <1>3, <1>21, <3>1
  <2>2. ASSUME NEW i \in FilesIn(n), NEW l \in Rows, n2[i].direct[l] # 0
        PROVE  n2[i].direct[l] \in DOMAIN t
    BY <1>1, <1>21, <2>2 DEF DiskOK, DirectKinds
  <2>3. QED
    BY <1>1, <2>1, <2>2 DEF DirectKinds
<1>11. IndirectKinds(n2, x, t)
  BY <1>1 DEF DiskOK, IndirectKinds, DirsIn, FilesIn
<1>12. DirectOnce(n2)
  <2>1. ASSUME NEW i \in DOMAIN n, NEW h \in DOMAIN n, NEW l \in Rows, NEW g \in Rows,
               n2[i].direct[l] # 0, n2[i].direct[l] = n2[h].direct[g]
        PROVE  i = h /\ l = g
    BY <1>1, <1>21, <2>1 DEF DiskOK, DirectOnce
  <2>2. QED
    BY <1>1, <2>1 DEF DirectOnce
<1>13. IndirectOnce(n2)
  BY <1>1 DEF DiskOK, IndirectOnce
<1>14. RowsOnce(n2, x)
  BY <1>1, <1>2 DEF DiskOK, RowsOnce, IndirectKinds
<1>15. AllPointed(n2, b2, x, t)
  <2>1. \A i \in DOMAIN n, l \in Rows : n[i].direct[l] # 0 => n2[i].direct[l] = n[i].direct[l]
    BY <1>1
  <2>2. ASSUME NEW e \in DOMAIN b2
        PROVE  b2[e] = NewDirBlock(<< >>) \/ \E i \in DOMAIN n, l \in Rows : n2[i].direct[l] = e
    <3>1. CASE e = c
      BY <1>3, <3>1
    <3>2. CASE e \in DOMAIN b
      BY <1>3, <1>21, <2>1, <3>2 DEF DiskOK, AllPointed
    <3>3. QED
      BY <1>3, <3>1, <3>2
  <2>3. ASSUME NEW e \in DOMAIN t
        PROVE  \/ \E i \in DOMAIN n, l \in Rows : n2[i].direct[l] = e
               \/ \E f \in DOMAIN x, l \in IndirectRows : x[f][l] = e
    BY <1>21, <2>1 DEF DiskOK, AllPointed
  <2>4. \A e \in DOMAIN x : \E i \in DOMAIN n : n2[i].indirect = e
    BY <1>1 DEF DiskOK, AllPointed
  <2>5. QED
    BY <1>1, <2>2, <2>3, <2>4 DEF AllPointed
<1>22. \A i \in DirsIn(n), l \in Rows :
          n[i].direct[l] # 0 => n2[i].direct[l] = n[i].direct[l] /\ b2[n[i].direct[l]] = b[n[i].direct[l]]
  BY <1>1, <1>3, <1>21
<1>16. DotsLead(n2, b2, O)
  <2>1. ASSUME NEW p \in DirsIn(n), NEW i, Holds(n, b, p, i)
        PROVE  Holds(n2, b2, p, i)
    <3>1. PICK l \in Rows, h \in Columns :
              n[p].direct[l] # 0 /\ Gives(b, n[p].direct[l], h) /\ b[n[p].direct[l]][h].sfd_ino = i
      BY <2>1 DEF Holds
    <3>2. n2[p].direct[l] = n[p].direct[l] /\ b2[n[p].direct[l]] = b[n[p].direct[l]]
      BY <1>22, <3>1
    <3>3. n2[p].direct[l] # 0 /\ Gives(b2, n2[p].direct[l], h) /\ b2[n2[p].direct[l]][h].sfd_ino = i
      BY <3>1, <3>2 DEF Gives
    <3>4. QED
      BY <3>3 DEF Holds
  <2>2. ASSUME NEW i \in DirsIn(n)
        PROVE  DotsOf(n2, b2, O, i)
    <3>1. n[i].direct[1] # 0 /\ 1 \in Rows /\ DotsOf(n, b, O, i)
      BY <1>23 DEF DiskOK, DotsLead, DiskFacts
    <3>2. n2[i].direct[1] = n[i].direct[1] /\ b2[n2[i].direct[1]] = b[n[i].direct[1]]
      BY <1>22, <3>1
    <3>3. QED
      BY <1>1, <2>1, <3>1, <3>2 DEF DotsOf
  <2>3. QED
    BY <1>1, <2>2 DEF DotsLead
<1>24. ASSUME NEW i \in DirsIn(n), NEW l \in Rows, NEW j \in Columns
       PROVE  /\ Used(n2, b2, i, l, j) <=> Used(n, b, i, l, j)
              /\ Used(n, b, i, l, j) => b2[n2[i].direct[l]][j] = b[n[i].direct[l]][j]
  BY <1>1, <1>4, <1>21, <1>22 DEF Used
<1>17. NamesOnce(n2, b2)
  <2>1. ASSUME NEW i \in DirsIn(n), NEW k1 \in Rows, NEW k2 \in Rows, NEW j1 \in Columns, NEW j2 \in Columns,
               Used(n2, b2, i, k1, j1), Used(n2, b2, i, k2, j2),
               b2[n2[i].direct[k1]][j1].sfd_name = b2[n2[i].direct[k2]][j2].sfd_name
        PROVE  k1 = k2 /\ j1 = j2
    <3>1. NamesOf(n, b, i)
      BY DEF DiskOK, NamesOnce
    <3>2. /\ Used(n, b, i, k1, j1) /\ Used(n, b, i, k2, j2)
          /\ b[n[i].direct[k1]][j1].sfd_name = b[n[i].direct[k2]][j2].sfd_name
      BY <1>24, <2>1
    <3>3. QED
      BY <3>1, <3>2, Zenon DEF NamesOf
  <2>2. \A i \in DirsIn(n) : NamesOf(n2, b2, i)
    BY <2>1, Zenon DEF NamesOf
  <2>3. QED
    BY <1>1, <2>2 DEF NamesOnce
<1>18. SizesCount(n2, b2)
  <2>1. ASSUME NEW i \in DirsIn(n)
        PROVE  UsedSlots(n2, b2, i) = UsedSlots(n, b, i)
    BY <1>24 DEF UsedSlots
  <2>2. QED
    BY <1>1, <1>21, <2>1 DEF DiskOK, SizesCount
<1>19. FilesHold(n2, x, t)
  <2>1. ASSUME NEW i \in FilesIn(n)
        PROVE  n2[i] = n[i]
    BY <1>1, <1>21
  <2>2. ASSUME NEW i \in FilesIn(n)
        PROVE  ContentIn(n2, x, t, i) = ContentIn(n, x, t, i)
    BY <2>1 DEF ContentIn, BlocksIn
  <2>3. QED
    BY <1>1, <2>1, <2>2 DEF DiskOK, FilesHold
<1>20. QED
  BY <1>5, <1>6, <1>7, <1>8, <1>9, <1>10, <1>11, <1>12, <1>13, <1>14, <1>15, <1>16, <1>17, <1>18, <1>19
     DEF DiskOK

\* The blocks of a new file: T, and its indirect block, if any, in X.
Stores(x, t, ino, r, X, T, x2, t2) ==
    /\ r \in InodeRecords /\ r.type = "file"
    /\ x2 \in [DOMAIN x \cup X -> [IndirectRows -> Blocks]]
    /\ \A c \in DOMAIN x : x2[c] = x[c]
    /\ DOMAIN t2 = DOMAIN t \cup T /\ \A c \in DOMAIN t : t2[c] = t[c]
    /\ X = {r.indirect} \ {0} /\ X \cap T = {}
    /\ \A k \in Rows : r.direct[k] # 0 => r.direct[k] \in T
    /\ \A k, l \in Rows : r.direct[k] # 0 /\ r.direct[k] = r.direct[l] => k = l
    /\ \A c \in X, k \in IndirectRows : x2[c][k] # 0 => x2[c][k] \in T
    /\ \A c \in X, k, l \in IndirectRows : x2[c][k] # 0 /\ x2[c][k] = x2[c][l] => k = l
    /\ \A c \in X, k \in Rows, l \in IndirectRows : r.direct[k] # 0 => r.direct[k] # x2[c][l]
    /\ \A c \in T : \/ \E k \in Rows : r.direct[k] = c
                    \/ \E d \in X, k \in IndirectRows : x2[d][k] = c
    /\ \A n : n[ino] = r => Holding(ContentIn(n, x2, t2, ino), r.size)

\* A file is made.
LEMMA StoreOK ==
    ASSUME NEW n, NEW b, NEW x, NEW t, NEW m, NEW O, DiskOK(n, b, x, t, m, O),
           NEW ino, NEW r, NEW X, NEW T, NEW x2, NEW t2, Stores(x, t, ino, r, X, T, x2, t2),
           {ino} \cup X \cup T \subseteq Blocks \ m, ino \notin X \cup T,
           NEW n2, n2 = Put(n, ino, r),
           NEW m2, m2 = m \cup {ino} \cup X \cup T,
           NEW O2, O2 = O \cup {ino}
    PROVE  DiskOK(n2, b, x2, t2, m2, O2)
<1>0. Holding(ContentIn(n2, x2, t2, ino), r.size)
  BY DEF Stores, Put
<1>. USE DEF Stores
<1>1. DiskFacts(n, b, x, t, m)
  BY OnDisk
<1>2. \A c \in {ino} \cup X \cup T :
          /\ c # 0 /\ c \notin System /\ c \in Blocks
          /\ c \notin DOMAIN n /\ c \notin DOMAIN b /\ c \notin DOMAIN x /\ c \notin DOMAIN t
  BY <1>1 DEF DiskFacts
<1>3. /\ n \in [DOMAIN n -> InodeRecords] /\ n2 \in [DOMAIN n2 -> InodeRecords]
      /\ DOMAIN n2 = DOMAIN n \cup {ino} /\ ino \notin DOMAIN n
      /\ n2[ino] = r /\ \A i \in DOMAIN n : n2[i] = n[i]
  <2>1. n \in [DOMAIN n -> InodeRecords]
    BY DEF DiskOK, Tables
  <2>2. QED
    BY <1>2, <2>1 DEF Put
<1>4. DOMAIN x2 = DOMAIN x \cup X
  OBVIOUS
<1>5. /\ DirsIn(n2) = DirsIn(n) /\ FilesIn(n2) = FilesIn(n) \cup {ino}
      /\ DirsIn(n) \subseteq DOMAIN n /\ FilesIn(n) \subseteq DOMAIN n
  BY <1>3 DEF DirsIn, FilesIn
<1>6. /\ \A i \in DOMAIN n, k \in Rows : n[i].direct[k] # 0 => n[i].direct[k] \in DOMAIN b \cup DOMAIN t
      /\ \A i \in DOMAIN n : n[i].indirect # 0 => n[i].indirect \in DOMAIN x
      /\ \A c \in DOMAIN x, k \in IndirectRows : x[c][k] # 0 => x[c][k] \in DOMAIN t
  <2>1. \A i \in DOMAIN n : n[i].indirect # 0 => n[i].indirect \in DOMAIN x
    BY <1>1 DEF DiskOK, IndirectKinds, DiskFacts
  <2>2. \A c \in DOMAIN x, k \in IndirectRows : x[c][k] # 0 => x[c][k] \in DOMAIN t
    BY DEF DiskOK, IndirectKinds
  <2>3. QED
    BY <1>1, <2>1, <2>2 DEF DiskFacts
<1>7. /\ \A k \in Rows : r.direct[k] # 0 => r.direct[k] \in T
      /\ \A i \in DOMAIN n, k \in Rows : n[i].direct[k] \notin T
      /\ \A c \in DOMAIN x, k \in IndirectRows : x[c][k] \notin T
      /\ \A i \in DOMAIN n : n[i].indirect \notin X
  BY <1>2, <1>6
<1>8. Tables(n2, b, x2)
  BY <1>3, <1>4 DEF DiskOK, Tables
<1>9. Kinds(n2, b, x2, t2, m2)
  BY <1>2, <1>3, <1>4, <1>5 DEF DiskOK, Kinds
<1>10. EntriesLead(n2, b, O2)
  BY <1>3 DEF DiskOK, EntriesLead, Gives
<1>11. LinksOnce(b)
  BY DEF DiskOK
<1>12. AllLinked(n2, b, O2)
  BY <1>3 DEF DiskOK, AllLinked
<1>13. DirectKinds(n2, b, t2)
  BY <1>3, <1>5, <1>7 DEF DiskOK, DirectKinds
<1>14. IndirectKinds(n2, x2, t2)
  <2>1. \A i \in DirsIn(n2) : n2[i].indirect = 0
    BY <1>3, <1>5 DEF DiskOK, IndirectKinds
  <2>2. \A i \in FilesIn(n2) : n2[i].indirect # 0 => n2[i].indirect \in DOMAIN x2
    BY <1>3, <1>4, <1>5, <1>6
  <2>3. \A c \in DOMAIN x2, k \in IndirectRows : x2[c][k] # 0 => x2[c][k] \in DOMAIN t2
    BY <1>4, <1>6
  <2>4. QED
    BY <2>1, <2>2, <2>3 DEF IndirectKinds
<1>15. DirectOnce(n2)
  <2>1. ASSUME NEW i \in DOMAIN n2, NEW h \in DOMAIN n2, NEW k \in Rows, NEW l \in Rows,
               n2[i].direct[k] # 0, n2[i].direct[k] = n2[h].direct[l]
        PROVE  i = h /\ k = l
    <3>1. CASE i = ino /\ h = ino
      BY <1>3, <2>1, <3>1
    <3>2. CASE i # ino /\ h # ino
      BY <1>3, <2>1, <3>2 DEF DiskOK, DirectOnce
    <3>3. CASE i = ino /\ h # ino
      BY <1>3, <1>7, <2>1, <3>3
    <3>4. CASE i # ino /\ h = ino
      BY <1>3, <1>7, <2>1, <3>4
    <3>5. QED
      BY <3>1, <3>2, <3>3, <3>4
  <2>2. QED
    BY <2>1 DEF DirectOnce
<1>16. IndirectOnce(n2)
  <2>1. ASSUME NEW i \in DOMAIN n2, NEW h \in DOMAIN n2,
               n2[i].indirect # 0, n2[i].indirect = n2[h].indirect, i # h
        PROVE  FALSE
    <3>1. CASE i # ino /\ h # ino
      BY <1>3, <2>1, <3>1 DEF DiskOK, IndirectOnce
    <3>2. CASE i = ino \/ h = ino
      BY <1>3, <1>7, <2>1, <3>2
    <3>3. QED
      BY <3>1, <3>2
  <2>2. QED
    BY <2>1 DEF IndirectOnce
<1>17. RowsOnce(n2, x2)
  <2>1. ASSUME NEW c \in DOMAIN x2, NEW d \in DOMAIN x2, NEW k \in IndirectRows, NEW l \in IndirectRows,
               x2[c][k] # 0, x2[c][k] = x2[d][l]
        PROVE  c = d /\ k = l
    <3>1. CASE c \in DOMAIN x /\ d \in DOMAIN x
      BY <2>1, <3>1 DEF DiskOK, RowsOnce
    <3>2. CASE c \in X /\ d \in X
      BY <2>1, <3>2
    <3>3. CASE c \in X /\ d \in DOMAIN x
      BY <1>7, <2>1, <3>3
    <3>4. CASE c \in DOMAIN x /\ d \in X
      BY <1>7, <2>1, <3>4
    <3>5. c \in DOMAIN x \cup X /\ d \in DOMAIN x \cup X
      BY <1>4
    <3>6. QED
      BY <3>1, <3>2, <3>3, <3>4, <3>5
  <2>2. ASSUME NEW i \in DOMAIN n2, NEW k \in Rows, NEW c \in DOMAIN x2, NEW l \in IndirectRows,
               n2[i].direct[k] # 0, n2[i].direct[k] = x2[c][l]
        PROVE  FALSE
    <3>1. CASE i # ino /\ c \in DOMAIN x
      BY <1>3, <2>2, <3>1 DEF DiskOK, RowsOnce
    <3>2. CASE i = ino /\ c \in X
      BY <1>3, <2>2, <3>2
    <3>3. CASE i = ino /\ c \in DOMAIN x
      BY <1>3, <1>7, <2>2, <3>3
    <3>4. CASE i # ino /\ c \in X
      BY <1>3, <1>7, <2>2, <3>4
    <3>5. c \in DOMAIN x \cup X
      BY <1>4
    <3>6. QED
      BY <3>1, <3>2, <3>3, <3>4, <3>5
  <2>3. QED
    BY <2>1, <2>2 DEF RowsOnce
<1>18. AllPointed(n2, b, x2, t2)
  <2>1. \A c \in DOMAIN b :
            b[c] = NewDirBlock(<< >>) \/ \E i \in DOMAIN n2, k \in Rows : n2[i].direct[k] = c
    BY <1>3 DEF DiskOK, AllPointed
  <2>2. \A c \in DOMAIN x2 : \E i \in DOMAIN n2 : n2[i].indirect = c
    BY <1>3, <1>4 DEF DiskOK, AllPointed
  <2>3. ASSUME NEW c \in DOMAIN t2
        PROVE  \/ \E i \in DOMAIN n2, k \in Rows : n2[i].direct[k] = c
               \/ \E d \in DOMAIN x2, k \in IndirectRows : x2[d][k] = c
    <3>1. CASE c \in T
      BY <1>3, <1>4, <3>1
    <3>2. CASE c \in DOMAIN t
      BY <1>3, <1>4, <3>2 DEF DiskOK, AllPointed
    <3>3. QED
      BY <3>1, <3>2
  <2>4. QED
    BY <2>1, <2>2, <2>3 DEF AllPointed
<1>19. \A d \in DirsIn(n) :
          /\ UsedSlots(n2, b, d) = UsedSlots(n, b, d)
          /\ NamesOf(n, b, d) => NamesOf(n2, b, d)
          /\ \A i : Holds(n, b, d, i) => Holds(n2, b, d, i)
  BY <1>3, <1>5, SameDirectory
<1>20. DotsLead(n2, b, O2)
  <2>1. ASSUME NEW d \in DirsIn(n)
        PROVE  DotsOf(n2, b, O2, d)
    <3>1. DotsOf(n, b, O, d) /\ n2[d] = n[d]
      BY <1>3, <1>5 DEF DiskOK, DotsLead
    <3>2. QED
      BY <1>5, <1>19, <3>1 DEF DotsOf
  <2>2. QED
    BY <1>5, <2>1 DEF DotsLead
<1>21. NamesOnce(n2, b)
  BY <1>5, <1>19 DEF DiskOK, NamesOnce
<1>22. SizesCount(n2, b)
  BY <1>3, <1>5, <1>19 DEF DiskOK, SizesCount
<1>23. FilesHold(n2, x2, t2)
  <2>1. ASSUME NEW i \in FilesIn(n)
        PROVE  Holding(ContentIn(n2, x2, t2, i), n2[i].size)
    <3>1. i \in DOMAIN n /\ n2[i] = n[i] /\ Tables(n, b, x)
      BY <1>3, <1>5 DEF DiskOK
    <3>2. n[i].indirect # 0 => n[i].indirect \in DOMAIN x /\ x2[n[i].indirect] = x[n[i].indirect]
      BY <1>6, <3>1
    <3>3. \A l \in Rows : n[i].direct[l] # 0 => t2[n[i].direct[l]] = t[n[i].direct[l]]
      BY DEF DiskOK, DirectKinds
    <3>4. n[i].indirect # 0 =>
             \A l \in IndirectRows :
                 x[n[i].indirect][l] # 0 => t2[x[n[i].indirect][l]] = t[x[n[i].indirect][l]]
      BY <1>6, <3>1
    <3>5. ContentIn(n2, x2, t2, i) = ContentIn(n, x, t, i)
      BY <3>1, <3>2, <3>3, <3>4, SameContent
    <3>6. QED
      BY <3>1, <3>5 DEF DiskOK, FilesHold
  <2>2. QED
    BY <1>0, <1>3, <1>5, <2>1 DEF FilesHold
<1>24. QED
  BY <1>8, <1>9, <1>10, <1>11, <1>12, <1>13, <1>14, <1>15, <1>16, <1>17, <1>18, <1>20, <1>21, <1>22, <1>23
     DEF DiskOK

\* Inode ino and block c become a directory in p.
NewDir(c) == Inode("dir", 2, <<c>>, 0)
DotBlock(ino, p) == NewDirBlock(<<Entry(ino, "."), Entry(p, "..")>>)

LEMMA NewDirIs ==
    ASSUME NEW c \in Blocks, NEW ino \in Blocks, NEW p \in Blocks,
           NEW r, r = NewDir(c), NEW block, block = DotBlock(ino, p)
    PROVE  /\ r \in InodeRecords /\ r.type = "dir" /\ r.size = 2 /\ r.indirect = 0
           /\ \A k \in Rows : r.direct[k] = IF k = 1 THEN c ELSE 0
           /\ r.direct[1] = c
           /\ block \in [Columns -> EntryRecords]
           /\ block[1] = Entry(ino, ".") /\ block[2] = Entry(p, "..")
           /\ \A j \in Columns : j \notin {1, 2} => block[j] = FreeEntry
<1>1. 1 \in Rows /\ 1 \in Columns /\ 2 \in Columns
  BY SfsAssumption DEF Rows, Columns
<1>2. /\ r \in InodeRecords /\ r.type = "dir" /\ r.size = 2 /\ r.indirect = 0
      /\ \A k \in Rows : r.direct[k] = IF k = 1 THEN c ELSE 0
      /\ r.direct[1] = c
  <2> DEFINE D == [k \in 1 .. SFS_NDIRECT |-> IF k <= Len(<<c>>) THEN <<c>>[k] ELSE 0]
  <2>1. r = [type |-> "dir", size |-> 2, indirect |-> 0, direct |-> D]
    BY DEF NewDir, Inode
  <2>2. \A k \in Rows : D[k] = IF k = 1 THEN c ELSE 0
    <3>1. Len(<<c>>) = 1 /\ <<c>>[1] = c
      OBVIOUS
    <3>2. \A k \in Rows : k \in Nat \ {0}
      BY SfsAssumption DEF Rows
    <3>3. \A k \in Rows : k <= 1 <=> k = 1
      BY <3>2
    <3>4. QED
      BY <3>1, <3>3 DEF Rows
  <2>3. D \in [1 .. SFS_NDIRECT -> Blocks]
    BY <2>2, VolumeFacts DEF Rows
  <2>. HIDE DEF D
  <2>4. r \in InodeRecords
    BY <2>1, <2>3, VolumeFacts DEF InodeRecords
  <2>5. QED
    BY <1>1, <2>1, <2>2, <2>4
<1>3. /\ block \in [Columns -> EntryRecords]
      /\ block[1] = Entry(ino, ".") /\ block[2] = Entry(p, "..")
      /\ \A j \in Columns : j \notin {1, 2} => block[j] = FreeEntry
  <2> DEFINE s == <<Entry(ino, "."), Entry(p, "..")>>
  <2>1. Len(s) = 2 /\ s[1] = Entry(ino, ".") /\ s[2] = Entry(p, "..")
    OBVIOUS
  <2>2. \A j \in Columns : j \in Nat \ {0}
    BY SfsAssumption DEF Columns
  <2>3. block = [j \in Columns |-> IF j <= 2 THEN s[j] ELSE FreeEntry]
    BY <2>1 DEF DotBlock, NewDirBlock, Columns
  <2>4. Entry(ino, ".") \in EntryRecords /\ Entry(p, "..") \in EntryRecords
    BY DEF Entry, EntryRecords, Paths
  <2>. HIDE DEF s
  <2>5. \A j \in Columns : /\ j <= 2 <=> j \in {1, 2}
                           /\ block[j] = IF j \in {1, 2} THEN s[j] ELSE FreeEntry
    BY <2>2, <2>3
  <2>6. \A j \in Columns : block[j] \in EntryRecords
    BY <2>1, <2>4, <2>5, EmptyBlock
  <2>7. QED
    BY <1>1, <2>1, <2>3, <2>5, <2>6
<1>4. QED
  BY <1>2, <1>3

\* A directory with no more than its own entries has size 2.
LEMMA TwoUsed ==
    ASSUME NEW n, NEW b, NEW d,
           \A k \in Rows, j \in Columns : Used(n, b, d, k, j) <=> k = 1 /\ j \in {1, 2}
    PROVE  Cardinality(UsedSlots(n, b, d)) = 2
<1>1. UsedSlots(n, b, d) = {<<1, 1>>, <<1, 2>>}
  <2>1. 1 \in Rows /\ 1 \in Columns /\ 2 \in Columns
    BY SfsAssumption DEF Rows, Columns
  <2>2. ASSUME NEW s \in Rows \X Columns
        PROVE  Used(n, b, d, s[1], s[2]) <=> s \in {<<1, 1>>, <<1, 2>>}
    <3>1. s = <<s[1], s[2]>> /\ s[1] \in Rows /\ s[2] \in Columns
      OBVIOUS
    <3>2. Used(n, b, d, s[1], s[2]) <=> s[1] = 1 /\ s[2] \in {1, 2}
      BY <3>1
    <3>3. QED
      BY <3>1, <3>2
  <2>3. QED
    BY <2>1, <2>2 DEF UsedSlots
<1>2. IsFiniteSet({<<1, 1>>}) /\ Cardinality({<<1, 1>>}) = 1
  BY FS_Singleton, Zenon
<1>3. <<1, 2>> \notin {<<1, 1>>} /\ {<<1, 1>>} \cup {<<1, 2>>} = {<<1, 1>>, <<1, 2>>}
  OBVIOUS
<1>4. Cardinality({<<1, 1>>} \cup {<<1, 2>>}) = Cardinality({<<1, 1>>}) + 1
  BY <1>2, <1>3, FS_AddElement
<1>5. QED
  BY <1>1, <1>2, <1>3, <1>4

MakesDir(n, b, m, O, p, ino, c, n2, b2, m2, O2) ==
    /\ p \in DirsIn(n) /\ ino \in Blocks \ m /\ c \in Blocks \ m /\ ino # c
    /\ n2 = Put(n, ino, NewDir(c)) /\ b2 = Put(b, c, DotBlock(ino, p))
    /\ m2 = m \cup {ino, c} /\ O2 = O \cup {ino}

LEMMA MakeDirOK ==
    ASSUME NEW n, NEW b, NEW x, NEW t, NEW m, NEW O, DiskOK(n, b, x, t, m, O),
           NEW p, NEW ino, NEW c, NEW n2, NEW b2, NEW m2, NEW O2,
           MakesDir(n, b, m, O, p, ino, c, n2, b2, m2, O2)
    PROVE  /\ DiskOK(n2, b2, x, t, m2, O2)
           /\ b2[n2[ino].direct[1]][2].sfd_ino = p
<1> DEFINE r == NewDir(c)
           block == DotBlock(ino, p)
<1>. USE DEF MakesDir
<1>1. DiskFacts(n, b, x, t, m)
  BY OnDisk
<1>2. /\ \A e \in {ino, c} :
            /\ e # 0 /\ e \notin System /\ e \in Blocks
            /\ e \notin DOMAIN n /\ e \notin DOMAIN b /\ e \notin DOMAIN x /\ e \notin DOMAIN t
      /\ SFS_ROOT_LOCATION \in DOMAIN n /\ ino # SFS_ROOT_LOCATION
      /\ p \in DOMAIN n /\ p # 0
  BY <1>1 DEF DiskFacts, DiskOK, Kinds, DirsIn
<1>3. /\ r \in InodeRecords /\ r.type = "dir" /\ r.size = 2 /\ r.indirect = 0
      /\ \A k \in Rows : r.direct[k] = IF k = 1 THEN c ELSE 0
      /\ r.direct[1] = c
      /\ block \in [Columns -> EntryRecords]
      /\ block[1] = Entry(ino, ".") /\ block[2] = Entry(p, "..")
      /\ \A j \in Columns : j \notin {1, 2} => block[j] = FreeEntry
  <2>1. p \in Blocks
    BY <1>2 DEF DiskOK, Kinds
  <2>2. QED
    BY <1>2, <2>1, NewDirIs
<1>4. /\ n2 \in [DOMAIN n2 -> InodeRecords]
      /\ DOMAIN n2 = DOMAIN n \cup {ino} /\ ino \notin DOMAIN n
      /\ n2[ino] = r /\ \A i \in DOMAIN n : n2[i] = n[i]
  <2>1. n \in [DOMAIN n -> InodeRecords]
    BY DEF DiskOK, Tables
  <2>2. QED
    BY <1>2, <1>3, <2>1 DEF Put
<1>5. /\ b2 \in [DOMAIN b2 -> [Columns -> EntryRecords]]
      /\ DOMAIN b2 = DOMAIN b \cup {c} /\ c \notin DOMAIN b
      /\ b2[c] = block /\ \A e \in DOMAIN b : b2[e] = b[e]
  <2>1. b \in [DOMAIN b -> [Columns -> EntryRecords]]
    BY DEF DiskOK, Tables
  <2>2. QED
    BY <1>2, <1>3, <2>1 DEF Put
<1>6. /\ DirsIn(n2) = DirsIn(n) \cup {ino} /\ FilesIn(n2) = FilesIn(n)
      /\ DirsIn(n) \subseteq DOMAIN n /\ FilesIn(n) \subseteq DOMAIN n
  BY <1>3, <1>4 DEF DirsIn, FilesIn
<1>7. /\ block[1].sfd_ino = ino /\ block[1].sfd_name = "."
      /\ block[2].sfd_ino = p /\ block[2].sfd_name = ".."
      /\ \A j \in Columns : j \notin {1, 2} => block[j].sfd_ino = 0
      /\ \A j \in Columns : ~Gives(b2, c, j)
      /\ \A e \in DOMAIN b, j \in Columns : Gives(b2, e, j) <=> Gives(b, e, j)
  <2>1. /\ block[1].sfd_ino = ino /\ block[1].sfd_name = "."
        /\ block[2].sfd_ino = p /\ block[2].sfd_name = ".."
        /\ \A j \in Columns : j \notin {1, 2} => block[j].sfd_ino = 0
    <3>1. /\ Entry(ino, ".").sfd_ino = ino /\ Entry(ino, ".").sfd_name = "."
          /\ Entry(p, "..").sfd_ino = p /\ Entry(p, "..").sfd_name = ".."
      BY DEF Entry
    <3>2. QED
      BY <1>3, <3>1, EmptyBlock
  <2>2. QED
    BY <1>5, <2>1 DEF Gives, Dots
<1>8. /\ \A i \in DOMAIN n, k \in Rows :
            n[i].direct[k] # 0 => n[i].direct[k] \in DOMAIN b \cup DOMAIN t
      /\ \A i \in DOMAIN n, k \in Rows : n[i].direct[k] # c
      /\ \A d \in DirsIn(n), k \in Rows : n[d].direct[k] # 0 => n[d].direct[k] \in DOMAIN b
      /\ \A k \in Rows : r.direct[k] # 0 => k = 1 /\ r.direct[k] = c
  <2>1. \A d \in DirsIn(n), k \in Rows : n[d].direct[k] # 0 => n[d].direct[k] \in DOMAIN b
    BY DEF DiskOK, DirectKinds
  <2>2. QED
    BY <1>1, <1>2, <1>3, <2>1 DEF DiskFacts
<1>9. Tables(n2, b2, x)
  BY <1>4, <1>5 DEF DiskOK, Tables
<1>10. Kinds(n2, b2, x, t, m2)
  BY <1>2, <1>4, <1>5, <1>6 DEF DiskOK, Kinds
<1>11. EntriesLead(n2, b2, O2)
  <2>1. ASSUME NEW e \in DOMAIN b, NEW j \in Columns
        PROVE  /\ b2[e][j].sfd_ino = 0 => b2[e][j] = FreeEntry
               /\ b2[e][j].sfd_ino # 0 => b2[e][j].sfd_ino \in DOMAIN n
               /\ Gives(b2, e, j) => b2[e][j].sfd_ino \notin O \cup {ino, SFS_ROOT_LOCATION}
    BY <1>2, <1>5, <1>7 DEF DiskOK, EntriesLead, Gives
  <2>2. ASSUME NEW j \in Columns
        PROVE  /\ b2[c][j].sfd_ino = 0 => b2[c][j] = FreeEntry
               /\ b2[c][j].sfd_ino # 0 => b2[c][j].sfd_ino \in DOMAIN n2
    BY <1>2, <1>3, <1>4, <1>5, <1>7
  <2>3. QED
    BY <1>4, <1>5, <1>7, <2>1, <2>2 DEF EntriesLead
<1>12. LinksOnce(b2)
  <2>1. ASSUME NEW e \in DOMAIN b2, NEW f \in DOMAIN b2, NEW j \in Columns, NEW i \in Columns,
               Gives(b2, e, j), Gives(b2, f, i), b2[e][j].sfd_ino = b2[f][i].sfd_ino
        PROVE  e = f /\ j = i
    <3>1. e \in DOMAIN b /\ f \in DOMAIN b
      BY <1>5, <1>7, <2>1
    <3>2. Gives(b, e, j) /\ Gives(b, f, i) /\ b[e][j].sfd_ino = b[f][i].sfd_ino
      BY <1>5, <1>7, <2>1, <3>1
    <3>3. LinksOnce(b)
      BY DEF DiskOK
    <3>4. QED
      BY <3>1, <3>2, <3>3, Zenon DEF LinksOnce
  <2>2. QED
    BY <2>1 DEF LinksOnce
<1>13. AllLinked(n2, b2, O2)
  <2>1. ASSUME NEW i \in DOMAIN n2 \ (O2 \cup {SFS_ROOT_LOCATION})
        PROVE  \E e \in DOMAIN b2, j \in Columns : Gives(b2, e, j) /\ b2[e][j].sfd_ino = i
    <3>1. PICK e \in DOMAIN b, j \in Columns : Gives(b, e, j) /\ b[e][j].sfd_ino = i
      BY <1>4 DEF DiskOK, AllLinked
    <3>2. QED
      BY <1>5, <1>7, <3>1
  <2>2. QED
    BY <2>1 DEF AllLinked
<1>14. DirectKinds(n2, b2, t)
  <2>1. \A d \in DirsIn(n2) : n2[d].direct[1] # 0
    BY <1>1, <1>2, <1>3, <1>4, <1>6 DEF DiskFacts
  <2>2. \A d \in DirsIn(n2), k \in Rows : n2[d].direct[k] # 0 => n2[d].direct[k] \in DOMAIN b2
    BY <1>4, <1>5, <1>6, <1>8
  <2>3. \A i \in FilesIn(n2), k \in Rows : n2[i].direct[k] # 0 => n2[i].direct[k] \in DOMAIN t
    BY <1>4, <1>6 DEF DiskOK, DirectKinds
  <2>4. QED
    BY <2>1, <2>2, <2>3 DEF DirectKinds
<1>15. IndirectKinds(n2, x, t)
  BY <1>3, <1>4, <1>6 DEF DiskOK, IndirectKinds
<1>16. DirectOnce(n2)
  <2>1. ASSUME NEW i \in DOMAIN n2, NEW h \in DOMAIN n2, NEW k \in Rows, NEW l \in Rows,
               n2[i].direct[k] # 0, n2[i].direct[k] = n2[h].direct[l]
        PROVE  i = h /\ k = l
    <3>1. CASE i = ino /\ h = ino
      BY <1>4, <1>8, <2>1, <3>1
    <3>2. CASE i # ino /\ h # ino
      BY <1>4, <2>1, <3>2 DEF DiskOK, DirectOnce
    <3>3. CASE i = ino /\ h # ino
      BY <1>4, <1>8, <2>1, <3>3
    <3>4. CASE i # ino /\ h = ino
      BY <1>4, <1>8, <2>1, <3>4
    <3>5. QED
      BY <3>1, <3>2, <3>3, <3>4
  <2>2. QED
    BY <2>1 DEF DirectOnce
<1>17. IndirectOnce(n2)
  BY <1>3, <1>4 DEF DiskOK, IndirectOnce
<1>18. RowsOnce(n2, x)
  <2>1. ASSUME NEW i \in DOMAIN n2, NEW k \in Rows, NEW e \in DOMAIN x, NEW l \in IndirectRows,
               n2[i].direct[k] # 0
        PROVE  n2[i].direct[k] # x[e][l]
    <3>1. CASE i = ino
      <4>1. n2[i].direct[k] = c
        BY <1>4, <1>8, <2>1, <3>1
      <4>2. x[e][l] = 0 \/ x[e][l] \in DOMAIN t
        BY DEF DiskOK, IndirectKinds
      <4>3. QED
        BY <1>2, <4>1, <4>2
    <3>2. CASE i # ino
      BY <1>4, <2>1, <3>2 DEF DiskOK, RowsOnce
    <3>3. QED
      BY <3>1, <3>2
  <2>2. QED
    BY <2>1 DEF DiskOK, RowsOnce
<1>19. AllPointed(n2, b2, x, t)
  <2>1. ASSUME NEW e \in DOMAIN b2
        PROVE  b2[e] = NewDirBlock(<< >>) \/ \E i \in DOMAIN n2, k \in Rows : n2[i].direct[k] = e
    <3>1. CASE e = c
      BY <1>1, <1>3, <1>4, <3>1 DEF DiskFacts
    <3>2. CASE e \in DOMAIN b
      BY <1>4, <1>5, <3>2 DEF DiskOK, AllPointed
    <3>3. QED
      BY <1>5, <3>1, <3>2
  <2>2. \A e \in DOMAIN x : \E i \in DOMAIN n2 : n2[i].indirect = e
    BY <1>4 DEF DiskOK, AllPointed
  <2>3. \A e \in DOMAIN t :
            \/ \E i \in DOMAIN n2, k \in Rows : n2[i].direct[k] = e
            \/ \E d \in DOMAIN x, k \in IndirectRows : x[d][k] = e
    BY <1>4 DEF DiskOK, AllPointed
  <2>4. QED
    BY <2>1, <2>2, <2>3 DEF AllPointed
<1>20. \A d \in DirsIn(n) :
          /\ UsedSlots(n2, b2, d) = UsedSlots(n, b, d)
          /\ NamesOf(n, b, d) => NamesOf(n2, b2, d)
          /\ \A i : Holds(n, b, d, i) => Holds(n2, b2, d, i)
  <2>1. ASSUME NEW d \in DirsIn(n)
        PROVE  /\ UsedSlots(n2, b2, d) = UsedSlots(n, b, d)
               /\ NamesOf(n, b, d) => NamesOf(n2, b2, d)
               /\ \A i : Holds(n, b, d, i) => Holds(n2, b2, d, i)
    <3>1. \A k \in Rows : n2[d].direct[k] = n[d].direct[k]
      BY <1>4, <1>6
    <3>2. \A k \in Rows : n[d].direct[k] # 0 => b2[n[d].direct[k]] = b[n[d].direct[k]]
      BY <1>5, <1>8
    <3>3. QED
      BY <3>1, <3>2, SameDirectory
  <2>2. QED
    BY <2>1
<1>21. DotsLead(n2, b2, O2)
  <2>1. ASSUME NEW d \in DirsIn(n)
        PROVE  DotsOf(n2, b2, O2, d)
    <3>1. /\ DotsOf(n, b, O, d) /\ n2[d] = n[d] /\ d # ino
          /\ b2[n2[d].direct[1]] = b[n[d].direct[1]]
      BY <1>1, <1>4, <1>5, <1>6 DEF DiskOK, DotsLead, DiskFacts
    <3>2. QED
      BY <1>6, <1>20, <3>1 DEF DotsOf
  <2>2. DotsOf(n2, b2, O2, ino)
    BY <1>2, <1>3, <1>4, <1>5, <1>6, <1>7 DEF DotsOf
  <2>3. QED
    BY <1>6, <2>1, <2>2 DEF DotsLead
<1>22. ASSUME NEW k \in Rows, NEW j \in Columns
       PROVE  Used(n2, b2, ino, k, j) <=> k = 1 /\ j \in {1, 2}
  BY <1>2, <1>3, <1>4, <1>5, <1>7 DEF Used
<1>23. NamesOnce(n2, b2)
  <2>1. ASSUME NEW k1 \in Rows, NEW k2 \in Rows, NEW j1 \in Columns, NEW j2 \in Columns,
               Used(n2, b2, ino, k1, j1), Used(n2, b2, ino, k2, j2),
               b2[n2[ino].direct[k1]][j1].sfd_name = b2[n2[ino].direct[k2]][j2].sfd_name
        PROVE  k1 = k2 /\ j1 = j2
    BY <1>3, <1>4, <1>5, <1>7, <1>22, <2>1
  <2>2. NamesOf(n2, b2, ino)
    BY <2>1, Zenon DEF NamesOf
  <2>3. QED
    BY <1>6, <1>20, <2>2 DEF DiskOK, NamesOnce
<1>24. SizesCount(n2, b2)
  <2>1. Cardinality(UsedSlots(n2, b2, ino)) = 2
    BY <1>22, TwoUsed
  <2>2. QED
    BY <1>3, <1>4, <1>6, <1>20, <2>1 DEF DiskOK, SizesCount
<1>25. FilesHold(n2, x, t)
  <2>1. ASSUME NEW i \in FilesIn(n)
        PROVE  Holding(ContentIn(n2, x, t, i), n2[i].size)
    <3>1. n2[i] = n[i] /\ ContentIn(n2, x, t, i) = ContentIn(n, x, t, i)
      BY <1>4, <1>6 DEF ContentIn, BlocksIn
    <3>2. QED
      BY <3>1 DEF DiskOK, FilesHold
  <2>2. QED
    BY <1>6, <2>1 DEF FilesHold
<1>26. b2[n2[ino].direct[1]][2].sfd_ino = p
  BY <1>3, <1>4, <1>5, <1>7
<1>27. QED
  BY <1>9, <1>10, <1>11, <1>12, <1>13, <1>14, <1>15, <1>16, <1>17, <1>18, <1>19, <1>21, <1>23, <1>24, <1>25,
     <1>26
     DEF DiskOK

----------------------------------------------------------------------------
\* Changing an entry.

LEMMA UsedFinite ==
    ASSUME NEW n, NEW b, NEW d
    PROVE  IsFiniteSet(UsedSlots(n, b, d)) /\ Cardinality(UsedSlots(n, b, d)) \in Nat
<1>1. SFS_NDIRECT \in Int /\ SFS_DENTRYPERBLOCK \in Int
  BY SfsAssumption
<1>2. IsFiniteSet(Rows) /\ IsFiniteSet(Columns)
  BY <1>1, FS_Interval DEF Rows, Columns
<1>3. IsFiniteSet(Rows \X Columns)
  BY <1>2, FS_Product
<1>4. UsedSlots(n, b, d) \in SUBSET (Rows \X Columns)
  BY DEF UsedSlots
<1>5. QED
  BY <1>3, <1>4, FS_Subset, FS_CardinalityType

Resized(n, d, size) == [n EXCEPT ![d].size = size]
EntryPut(b, c, j, e) == [b EXCEPT ![c][j] = e]

\* In directory d, row k, column j now holds the entry e.
Edited(n, b, n2, b2, d, k, j, e) ==
    /\ d \in DirsIn(n) /\ k \in Rows /\ j \in Columns /\ n[d].direct[k] # 0
    /\ n2 \in [DOMAIN n -> InodeRecords] /\ DOMAIN n2 = DOMAIN n
    /\ \A i \in DOMAIN n :
          /\ n2[i].type = n[i].type /\ n2[i].indirect = n[i].indirect /\ n2[i].direct = n[i].direct
          /\ i # d => n2[i] = n[i]
    /\ b2 \in [DOMAIN b -> [Columns -> EntryRecords]] /\ DOMAIN b2 = DOMAIN b
    /\ \A c \in DOMAIN b : c # n[d].direct[k] => b2[c] = b[c]
    /\ \A c \in DOMAIN b, i \in Columns :
          b2[c][i] = IF c = n[d].direct[k] /\ i = j THEN e ELSE b[c][i]

\* Column j of block c holds the entry e.
EntrySet(b, b2, c, j, e) ==
    /\ b2 \in [DOMAIN b -> [Columns -> EntryRecords]] /\ DOMAIN b2 = DOMAIN b
    /\ \A f \in DOMAIN b : f # c => b2[f] = b[f]
    /\ \A f \in DOMAIN b, i \in Columns : b2[f][i] = IF f = c /\ i = j THEN e ELSE b[f][i]

LEMMA ResizedAt ==
    ASSUME NEW n, n \in [DOMAIN n -> InodeRecords], NEW d \in DOMAIN n, NEW size \in Nat,
           NEW n2, n2 = Resized(n, d, size)
    PROVE  /\ n2 \in [DOMAIN n -> InodeRecords] /\ DOMAIN n2 = DOMAIN n
           /\ \A i \in DOMAIN n :
                 /\ n2[i].type = n[i].type /\ n2[i].indirect = n[i].indirect /\ n2[i].direct = n[i].direct
                 /\ i # d => n2[i] = n[i]
           /\ n2[d].size = size
<1> DEFINE r == n[d]
           r2 == [r EXCEPT !.size = size]
<1>1. r \in InodeRecords
  OBVIOUS
<1>2. r2 \in InodeRecords /\ r2.type = r.type /\ r2.size = size /\ r2.indirect = r.indirect /\ r2.direct = r.direct
  BY <1>1 DEF InodeRecords
<1>3. n2 = [n EXCEPT ![d] = r2]
  BY DEF Resized
<1>. HIDE DEF r2
<1>4. QED
  BY <1>2, <1>3

LEMMA EntryPutAt ==
    ASSUME NEW b, b \in [DOMAIN b -> [Columns -> EntryRecords]], NEW c \in DOMAIN b, NEW j \in Columns,
           NEW e \in EntryRecords
    PROVE  EntrySet(b, EntryPut(b, c, j, e), c, j, e)
<1> DEFINE b2 == EntryPut(b, c, j, e)
           q == [b[c] EXCEPT ![j] = e]
<1>1. b[c] \in [Columns -> EntryRecords]
  OBVIOUS
<1>2. q \in [Columns -> EntryRecords] /\ \A i \in Columns : q[i] = IF i = j THEN e ELSE b[c][i]
  BY <1>1
<1>3. b2 = [b EXCEPT ![c] = q]
  BY DEF EntryPut
<1>. HIDE DEF q, b2
<1>4. EntrySet(b, b2, c, j, e)
  BY <1>2, <1>3 DEF EntrySet
<1>5. QED
  BY <1>4 DEF b2

\* The parts of the invariant that are not about entries.
PointersOK(n, b, x, t, m) ==
    /\ Tables(n, b, x) /\ Kinds(n, b, x, t, m)
    /\ DirectKinds(n, b, t) /\ IndirectKinds(n, x, t)
    /\ DirectOnce(n) /\ IndirectOnce(n) /\ RowsOnce(n, x)
    /\ AllPointed(n, b, x, t) /\ FilesHold(n, x, t)

EntriesEdited(n, b, n2, b2, d, k, j, e) ==
    \A i \in DirsIn(n), k2 \in Rows, j2 \in Columns :
        LET here == i = d /\ k2 = k /\ j2 = j
        IN  /\ Used(n2, b2, i, k2, j2) <=> IF here THEN e.sfd_ino # 0 ELSE Used(n, b, i, k2, j2)
            /\ Used(n2, b2, i, k2, j2) =>
                  b2[n2[i].direct[k2]][j2] = IF here THEN e ELSE b[n[i].direct[k2]][j2]

\* What such a change leaves alone, and what the directories hold after it.
LEMMA EditFrame ==
    ASSUME NEW n, NEW b, NEW x, NEW t, NEW m, NEW O, DiskOK(n, b, x, t, m, O),
           NEW n2, NEW b2, NEW d, NEW k, NEW j, NEW e, Edited(n, b, n2, b2, d, k, j, e)
    PROVE  /\ PointersOK(n2, b2, x, t, m)
           /\ EntriesEdited(n, b, n2, b2, d, k, j, e)
           /\ DirsIn(n2) = DirsIn(n)
           /\ n[d].direct[k] \in DOMAIN b
<1> DEFINE c == n[d].direct[k]
<1>1. /\ d \in DirsIn(n) /\ k \in Rows /\ j \in Columns /\ c # 0
      /\ n2 \in [DOMAIN n -> InodeRecords] /\ DOMAIN n2 = DOMAIN n
      /\ \A i \in DOMAIN n :
            /\ n2[i].type = n[i].type /\ n2[i].indirect = n[i].indirect /\ n2[i].direct = n[i].direct
            /\ i # d => n2[i] = n[i]
  BY DEF Edited
<1>2. /\ b2 \in [DOMAIN b -> [Columns -> EntryRecords]] /\ DOMAIN b2 = DOMAIN b
      /\ \A f \in DOMAIN b : f # c => b2[f] = b[f]
      /\ \A f \in DOMAIN b, i \in Columns : b2[f][i] = IF f = c /\ i = j THEN e ELSE b[f][i]
  BY DEF Edited
<1>3. DiskFacts(n, b, x, t, m)
  BY OnDisk
<1>4. /\ DirsIn(n2) = DirsIn(n) /\ FilesIn(n2) = FilesIn(n)
      /\ DirsIn(n) \subseteq DOMAIN n /\ FilesIn(n) \subseteq DOMAIN n
  BY <1>1 DEF DirsIn, FilesIn
<1>5. \A i \in DirsIn(n), k2 \in Rows : n[i].direct[k2] # 0 => n[i].direct[k2] \in DOMAIN b
  BY DEF DiskOK, DirectKinds
<1>6. c \in DOMAIN b
  BY <1>1, <1>5
<1>7. Tables(n2, b2, x) /\ Kinds(n2, b2, x, t, m)
  BY <1>1, <1>2, <1>4 DEF DiskOK, Tables, Kinds
<1>8. DirectKinds(n2, b2, t) /\ IndirectKinds(n2, x, t)
  BY <1>1, <1>2, <1>4 DEF DiskOK, DirectKinds, IndirectKinds
<1>9. DirectOnce(n2) /\ IndirectOnce(n2)
  BY <1>1 DEF DiskOK, DirectOnce, IndirectOnce
<1>10. RowsOnce(n2, x)
  BY <1>1 DEF DiskOK, RowsOnce
<1>11. AllPointed(n2, b2, x, t)
  <2>1. ASSUME NEW f \in DOMAIN b2
        PROVE  b2[f] = NewDirBlock(<< >>) \/ \E i \in DOMAIN n2, k2 \in Rows : n2[i].direct[k2] = f
    <3>1. CASE f = c
      BY <1>1, <1>4, <3>1
    <3>2. CASE f # c
      BY <1>1, <1>2, <3>2 DEF DiskOK, AllPointed
    <3>3. QED
      BY <3>1, <3>2
  <2>2. \A f \in DOMAIN x : \E i \in DOMAIN n2 : n2[i].indirect = f
    BY <1>1 DEF DiskOK, AllPointed
  <2>3. \A f \in DOMAIN t :
            \/ \E i \in DOMAIN n2, k2 \in Rows : n2[i].direct[k2] = f
            \/ \E g \in DOMAIN x, k2 \in IndirectRows : x[g][k2] = f
    BY <1>1 DEF DiskOK, AllPointed
  <2>4. QED
    BY <2>1, <2>2, <2>3 DEF AllPointed
<1>12. FilesHold(n2, x, t)
  <2>1. ASSUME NEW i \in FilesIn(n)
        PROVE  Holding(ContentIn(n2, x, t, i), n2[i].size)
    <3>1. n2[i] = n[i] /\ ContentIn(n2, x, t, i) = ContentIn(n, x, t, i)
      BY <1>1, <1>3, <1>4 DEF ContentIn, BlocksIn, DiskFacts
    <3>2. QED
      BY <3>1 DEF DiskOK, FilesHold
  <2>2. QED
    BY <1>4, <2>1 DEF FilesHold
<1>13. ASSUME NEW i \in DirsIn(n), NEW k2 \in Rows, NEW j2 \in Columns
       PROVE  LET here == i = d /\ k2 = k /\ j2 = j
              IN  /\ Used(n2, b2, i, k2, j2) <=> IF here THEN e.sfd_ino # 0 ELSE Used(n, b, i, k2, j2)
                  /\ Used(n2, b2, i, k2, j2) =>
                        b2[n2[i].direct[k2]][j2] = IF here THEN e ELSE b[n[i].direct[k2]][j2]
  <2>1. CASE i = d /\ k2 = k
    BY <1>1, <1>2, <1>4, <1>6, <2>1 DEF Used
  <2>2. CASE ~(i = d /\ k2 = k)
    <3>1. n[i].direct[k2] # 0 => n[i].direct[k2] # c
      BY <1>1, <1>4, <2>2 DEF DiskOK, DirectOnce
    <3>2. n2[i].direct[k2] = n[i].direct[k2]
      BY <1>1, <1>4
    <3>3. n[i].direct[k2] # 0 => b2[n[i].direct[k2]] = b[n[i].direct[k2]]
      BY <1>2, <1>5, <3>1
    <3>4. QED
      BY <2>2, <3>2, <3>3 DEF Used
  <2>3. QED
    BY <2>1, <2>2
<1>14. QED
  BY <1>4, <1>6, <1>7, <1>8, <1>9, <1>10, <1>11, <1>12, <1>13 DEF PointersOK, EntriesEdited

\* The entry is free, and the directory has no such name.
Enters(n, b, n2, b2, d, k, j, ino, name) ==
    /\ ino \in DOMAIN n /\ ino # SFS_ROOT_LOCATION /\ name \in Names
    /\ Edited(n, b, n2, b2, d, k, j, Entry(ino, name))
    /\ b[n[d].direct[k]][j].sfd_ino = 0
    /\ \A k2 \in Rows, j2 \in Columns :
          Used(n, b, d, k2, j2) => b[n[d].direct[k2]][j2].sfd_name # name
    /\ n2[d].size = n[d].size + 1
    /\ ino \in DirsIn(n) => b[n[ino].direct[1]][2].sfd_ino = d

\* An orphan inode is given a name in directory d.
LEMMA EnterOK ==
    ASSUME NEW n, NEW b, NEW x, NEW t, NEW m, NEW ino, DiskOK(n, b, x, t, m, {ino}),
           NEW d, NEW k, NEW j, NEW n2, NEW b2, NEW name, Enters(n, b, n2, b2, d, k, j, ino, name)
    PROVE  DiskOK(n2, b2, x, t, m, {})
<1>. USE DEF Enters
<1> DEFINE c == n[d].direct[k]
           e == Entry(ino, name)
<1>1. /\ d \in DirsIn(n) /\ k \in Rows /\ j \in Columns /\ c # 0
      /\ n2 \in [DOMAIN n -> InodeRecords] /\ DOMAIN n2 = DOMAIN n
      /\ \A i \in DOMAIN n :
            /\ n2[i].type = n[i].type /\ n2[i].indirect = n[i].indirect /\ n2[i].direct = n[i].direct
            /\ i # d => n2[i] = n[i]
      /\ b2 \in [DOMAIN b -> [Columns -> EntryRecords]] /\ DOMAIN b2 = DOMAIN b
      /\ \A f \in DOMAIN b : f # c => b2[f] = b[f]
      /\ \A f \in DOMAIN b, i \in Columns : b2[f][i] = IF f = c /\ i = j THEN e ELSE b[f][i]
  BY DEF Edited
<1>2. /\ PointersOK(n2, b2, x, t, m)
      /\ EntriesEdited(n, b, n2, b2, d, k, j, e)
      /\ DirsIn(n2) = DirsIn(n)
      /\ c \in DOMAIN b
  BY EditFrame
<1>3. DiskFacts(n, b, x, t, m)
  BY OnDisk
<1>4. e.sfd_ino = ino /\ e.sfd_name = name /\ name \notin Dots /\ ino # 0
  BY <1>3, SfsAssumption DEF Entry, Dots, DiskFacts
<1>. HIDE DEF e
<1>5. /\ Gives(b2, c, j) /\ b2[c][j].sfd_ino = ino /\ ~Gives(b, c, j)
      /\ \A f \in DOMAIN b, i \in Columns :
            ~(f = c /\ i = j) => b2[f][i] = b[f][i] /\ (Gives(b2, f, i) <=> Gives(b, f, i))
  BY SMTT(30), <1>1, <1>2, <1>4 DEF Gives
<1>6. \A f \in DOMAIN b, i \in Columns : Gives(b, f, i) => b[f][i].sfd_ino \notin {ino, SFS_ROOT_LOCATION}
  BY DEF DiskOK, EntriesLead
<1>7. EntriesLead(n2, b2, {})
  <2>1. ASSUME NEW f \in DOMAIN b, NEW i \in Columns
        PROVE  /\ b2[f][i].sfd_ino = 0 => b2[f][i] = FreeEntry
               /\ b2[f][i].sfd_ino # 0 => b2[f][i].sfd_ino \in DOMAIN n2
               /\ Gives(b2, f, i) => b2[f][i].sfd_ino # SFS_ROOT_LOCATION
    <3>1. CASE f = c /\ i = j
      BY <1>1, <1>4, <1>5, <3>1
    <3>2. CASE ~(f = c /\ i = j)
      BY <1>1, <1>5, <3>2 DEF DiskOK, EntriesLead
    <3>3. QED
      BY <3>1, <3>2
  <2>2. QED
    BY <1>1, <2>1 DEF EntriesLead
<1>8. LinksOnce(b2)
  <2>1. ASSUME NEW f \in DOMAIN b2, NEW g \in DOMAIN b2, NEW i \in Columns, NEW h \in Columns,
               Gives(b2, f, i), Gives(b2, g, h), b2[f][i].sfd_ino = b2[g][h].sfd_ino
        PROVE  f = g /\ i = h
    <3>1. CASE f = c /\ i = j
      BY SMTT(30), <1>1, <1>5, <1>6, <2>1, <3>1
    <3>2. CASE g = c /\ h = j
      BY SMTT(30), <1>1, <1>5, <1>6, <2>1, <3>2
    <3>3. CASE ~(f = c /\ i = j) /\ ~(g = c /\ h = j)
      <4>1. f \in DOMAIN b /\ g \in DOMAIN b /\ LinksOnce(b)
        BY <1>1 DEF DiskOK
      <4>2. Gives(b, f, i) /\ Gives(b, g, h) /\ b[f][i].sfd_ino = b[g][h].sfd_ino
        BY <1>5, <2>1, <3>3, <4>1
      <4>3. QED
        BY <4>1, <4>2, Zenon DEF LinksOnce
    <3>4. QED
      BY <3>1, <3>2, <3>3
  <2>2. QED
    BY <2>1 DEF LinksOnce
<1>9. AllLinked(n2, b2, {})
  <2>1. ASSUME NEW i \in DOMAIN n2 \ ({} \cup {SFS_ROOT_LOCATION})
        PROVE  \E f \in DOMAIN b2, h \in Columns : Gives(b2, f, h) /\ b2[f][h].sfd_ino = i
    <3>1. CASE i = ino
      BY <1>1, <1>2, <1>5, <3>1
    <3>2. CASE i # ino
      <4>1. PICK f \in DOMAIN b, h \in Columns : Gives(b, f, h) /\ b[f][h].sfd_ino = i
        BY <1>1, <3>2 DEF DiskOK, AllLinked
      <4>2. ~(f = c /\ h = j)
        BY <1>5, <4>1
      <4>3. QED
        BY <1>1, <1>5, <4>1, <4>2
    <3>3. QED
      BY <3>1, <3>2
  <2>2. QED
    BY <2>1 DEF AllLinked
<1>10. \A p \in DirsIn(n) : \A i : Holds(n, b, p, i) => Holds(n2, b2, p, i)
  <2>1. ASSUME NEW p \in DirsIn(n), NEW i, Holds(n, b, p, i)
        PROVE  Holds(n2, b2, p, i)
    <3>1. PICK k2 \in Rows, j2 \in Columns :
             /\ n[p].direct[k2] # 0
             /\ Gives(b, n[p].direct[k2], j2) /\ b[n[p].direct[k2]][j2].sfd_ino = i
      BY <2>1 DEF Holds
    <3>2. n2[p].direct[k2] = n[p].direct[k2] /\ n[p].direct[k2] \in DOMAIN b
      BY <1>1, <3>1 DEF DiskOK, DirectKinds, DirsIn
    <3>3. ~(n[p].direct[k2] = c /\ j2 = j)
      BY <1>5, <3>1
    <3>4. QED
      BY SMTT(30), <1>5, <3>1, <3>2, <3>3 DEF Holds
  <2>2. QED
    BY <2>1
<1>11. Holds(n2, b2, d, ino)
  BY <1>1, <1>4, <1>5 DEF Holds, DirsIn
<1>12. ASSUME NEW i \in DirsIn(n)
       PROVE  DotsOf(n2, b2, {}, i)
  <2> DEFINE f == n[i].direct[1]
  <2>1. DotsOf(n, b, {ino}, i)
    BY DEF DiskOK, DotsLead
  <2>2. i \in DOMAIN n /\ f \in DOMAIN b /\ 1 \in Columns /\ 2 \in Columns /\ i # 0
    BY <1>3 DEF DiskFacts, DirsIn
  <2>3. b[f][1].sfd_ino # 0 /\ b[f][2].sfd_ino # 0
    BY <1>3, <2>1, <2>2 DEF DotsOf, Entry, DiskFacts, DirsIn
  <2>4. n2[i].direct[1] = f /\ b2[f][1] = b[f][1] /\ b2[f][2] = b[f][2]
    BY <1>1, <2>2, <2>3
  <2>5. b[f][2].sfd_ino \in DirsIn(n)
    BY <2>1 DEF DotsOf
  <2>6. i # SFS_ROOT_LOCATION => Holds(n2, b2, b[f][2].sfd_ino, i)
    <3>1. CASE i = ino
      BY <1>11, <3>1
    <3>2. CASE i # ino
      BY <1>10, <2>1, <2>5, <3>2 DEF DotsOf
    <3>3. QED
      BY <3>1, <3>2
  <2>7. QED
    BY <1>2, <2>1, <2>4, <2>6 DEF DotsOf
<1>17. b2[n2[d].direct[k]][j].sfd_name = name
  BY <1>1, <1>2, <1>4 DEF DirsIn
<1>18. ASSUME NEW k2 \in Rows, NEW j2 \in Columns, Used(n2, b2, d, k2, j2),
              b2[n2[d].direct[k2]][j2].sfd_name = name
       PROVE  k2 = k /\ j2 = j
  <2>1. SUFFICES ASSUME ~(k2 = k /\ j2 = j)
                 PROVE  FALSE
    OBVIOUS
  <2>2. Used(n, b, d, k2, j2) /\ b2[n2[d].direct[k2]][j2] = b[n[d].direct[k2]][j2]
    BY <1>1, <1>2, <1>18, <2>1 DEF EntriesEdited
  <2>3. QED
    BY <1>18, <2>2
<1>13. ASSUME NEW i \in DirsIn(n)
       PROVE  NamesOf(n2, b2, i)
  <2>1. NamesOf(n, b, i)
    BY DEF DiskOK, NamesOnce
  <2>2. ASSUME NEW k1 \in Rows, NEW k2 \in Rows, NEW j1 \in Columns, NEW j2 \in Columns,
               Used(n2, b2, i, k1, j1), Used(n2, b2, i, k2, j2),
               b2[n2[i].direct[k1]][j1].sfd_name = b2[n2[i].direct[k2]][j2].sfd_name
        PROVE  k1 = k2 /\ j1 = j2
    <3>1. CASE i = d /\ k1 = k /\ j1 = j
      <4>1. b2[n2[d].direct[k2]][j2].sfd_name = name /\ Used(n2, b2, d, k2, j2)
        BY <1>17, <2>2, <3>1
      <4>2. QED
        BY <1>18, <3>1, <4>1
    <3>2. CASE i = d /\ k2 = k /\ j2 = j
      <4>1. b2[n2[d].direct[k1]][j1].sfd_name = name /\ Used(n2, b2, d, k1, j1)
        BY <1>17, <2>2, <3>2
      <4>2. QED
        BY <1>18, <3>2, <4>1
    <3>3. CASE ~(i = d /\ k1 = k /\ j1 = j) /\ ~(i = d /\ k2 = k /\ j2 = j)
      <4>1. /\ Used(n, b, i, k1, j1) /\ Used(n, b, i, k2, j2)
            /\ b[n[i].direct[k1]][j1].sfd_name = b[n[i].direct[k2]][j2].sfd_name
        BY ZenonT(40), <1>2, <2>2, <3>3 DEF EntriesEdited
      <4>2. QED
        BY <2>1, <4>1, Zenon DEF NamesOf
    <3>4. QED
      BY <3>1, <3>2, <3>3
  <2>3. QED
    BY <2>2, Zenon DEF NamesOf
<1>14. ASSUME NEW i \in DirsIn(n)
       PROVE  n2[i].size = Cardinality(UsedSlots(n2, b2, i))
  <2>1. n[i].size = Cardinality(UsedSlots(n, b, i)) /\ i \in DOMAIN n
    BY DEF DiskOK, SizesCount, DirsIn
  <2>2. CASE i # d
    <3>1. \A k2 \in Rows, j2 \in Columns : Used(n2, b2, i, k2, j2) <=> Used(n, b, i, k2, j2)
      BY <1>2, <2>2 DEF EntriesEdited
    <3>2. UsedSlots(n2, b2, i) = UsedSlots(n, b, i)
      BY <3>1 DEF UsedSlots
    <3>3. QED
      BY <1>1, <2>1, <2>2, <3>2
  <2>3. CASE i = d
    <3>1. \A k2 \in Rows, j2 \in Columns :
              Used(n2, b2, i, k2, j2) <=> (Used(n, b, i, k2, j2) \/ (k2 = k /\ j2 = j))
      BY <1>2, <1>4, <2>3 DEF EntriesEdited
    <3>2. ~Used(n, b, i, k, j)
      BY <2>3 DEF Used
    <3>3. UsedSlots(n2, b2, i) = UsedSlots(n, b, i) \cup {<<k, j>>} /\ <<k, j>> \notin UsedSlots(n, b, i)
      BY <1>1, <3>1, <3>2 DEF UsedSlots
    <3>4. Cardinality(UsedSlots(n2, b2, i)) = Cardinality(UsedSlots(n, b, i)) + 1
      BY ZenonT(40), <3>3, UsedFinite, FS_AddElement
    <3>5. QED
      BY <2>1, <2>3, <3>4
  <2>4. QED
    BY <2>2, <2>3
<1>15. DotsLead(n2, b2, {}) /\ NamesOnce(n2, b2) /\ SizesCount(n2, b2)
  BY <1>2, <1>12, <1>13, <1>14 DEF DotsLead, NamesOnce, SizesCount
<1>16. QED
  BY <1>2, <1>7, <1>8, <1>9, <1>15 DEF DiskOK, PointersOK

\* A name is removed; the inode is an orphan.
LEMMA LeaveOK ==
    ASSUME NEW n, NEW b, NEW x, NEW t, NEW m, DiskOK(n, b, x, t, m, {}),
           NEW d, NEW k, NEW j, NEW n2, NEW b2,
           Edited(n, b, n2, b2, d, k, j, FreeEntry),
           Gives(b, n[d].direct[k], j),
           n2[d].size = n[d].size - 1,
           NEW ino, ino = b[n[d].direct[k]][j].sfd_ino
    PROVE  /\ DiskOK(n2, b2, x, t, m, {ino})
           /\ ino \in DOMAIN n /\ ino # SFS_ROOT_LOCATION
<1> DEFINE c == n[d].direct[k]
           e == FreeEntry
<1>1. /\ d \in DirsIn(n) /\ k \in Rows /\ j \in Columns /\ c # 0
      /\ n2 \in [DOMAIN n -> InodeRecords] /\ DOMAIN n2 = DOMAIN n
      /\ \A i \in DOMAIN n :
            /\ n2[i].type = n[i].type /\ n2[i].indirect = n[i].indirect /\ n2[i].direct = n[i].direct
            /\ i # d => n2[i] = n[i]
      /\ b2 \in [DOMAIN b -> [Columns -> EntryRecords]] /\ DOMAIN b2 = DOMAIN b
      /\ \A f \in DOMAIN b : f # c => b2[f] = b[f]
      /\ \A f \in DOMAIN b, i \in Columns : b2[f][i] = IF f = c /\ i = j THEN e ELSE b[f][i]
  BY DEF Edited
<1>2. /\ PointersOK(n2, b2, x, t, m)
      /\ EntriesEdited(n, b, n2, b2, d, k, j, e)
      /\ DirsIn(n2) = DirsIn(n)
      /\ c \in DOMAIN b
  BY EditFrame
<1>3. DiskFacts(n, b, x, t, m)
  BY OnDisk
<1>4. e.sfd_ino = 0
  BY EmptyBlock
<1>5. /\ ~Gives(b2, c, j) /\ Gives(b, c, j) /\ ino # 0 /\ b[c][j].sfd_name \notin Dots
      /\ \A f \in DOMAIN b, i \in Columns :
            ~(f = c /\ i = j) => b2[f][i] = b[f][i] /\ (Gives(b2, f, i) <=> Gives(b, f, i))
  BY <1>1, <1>2, <1>4 DEF Gives
<1>. HIDE DEF e
<1>6. ino \in DOMAIN n /\ ino # SFS_ROOT_LOCATION
  <2>1. EntriesLead(n, b, {}) /\ c \in DOMAIN b /\ j \in Columns /\ Gives(b, c, j)
    BY <1>1, <1>2, <1>5 DEF DiskOK
  <2>2. b[c][j].sfd_ino # 0 /\ b[c][j].sfd_ino = ino
    BY <1>5
  <2>. HIDE DEF c
  <2>3. QED
    BY <2>1, <2>2 DEF EntriesLead
<1>7. \A f \in DOMAIN b, i \in Columns : Gives(b, f, i) /\ b[f][i].sfd_ino = ino => f = c /\ i = j
  <2>1. LinksOnce(b)
    BY DEF DiskOK
  <2>2. QED
    BY <1>1, <1>2, <1>5, <2>1 DEF LinksOnce
<1>8. EntriesLead(n2, b2, {ino})
  <2>1. ASSUME NEW f \in DOMAIN b, NEW i \in Columns
        PROVE  /\ b2[f][i].sfd_ino = 0 => b2[f][i] = FreeEntry
               /\ b2[f][i].sfd_ino # 0 => b2[f][i].sfd_ino \in DOMAIN n2
               /\ Gives(b2, f, i) => b2[f][i].sfd_ino \notin {ino, SFS_ROOT_LOCATION}
    <3>1. CASE f = c /\ i = j
      BY <1>1, <1>4, <1>5, <3>1 DEF e
    <3>2. CASE ~(f = c /\ i = j)
      <4>1. /\ b[f][i].sfd_ino = 0 => b[f][i] = FreeEntry
            /\ b[f][i].sfd_ino # 0 => b[f][i].sfd_ino \in DOMAIN n
            /\ Gives(b, f, i) => b[f][i].sfd_ino # SFS_ROOT_LOCATION
        BY DEF DiskOK, EntriesLead
      <4>2. b2[f][i] = b[f][i] /\ (Gives(b2, f, i) <=> Gives(b, f, i)) /\ DOMAIN n2 = DOMAIN n
        BY <1>1, <1>5, <3>2
      <4>3. Gives(b, f, i) => b[f][i].sfd_ino # ino
        BY <1>7, <3>2
      <4>4. QED
        BY <4>1, <4>2, <4>3
    <3>3. QED
      BY <3>1, <3>2
  <2>2. DOMAIN b2 = DOMAIN b
    BY <1>1
  <2>3. QED
    BY <2>1, <2>2 DEF EntriesLead
<1>9. LinksOnce(b2)
  <2>1. ASSUME NEW f \in DOMAIN b2, NEW g \in DOMAIN b2, NEW i \in Columns, NEW h \in Columns,
               Gives(b2, f, i), Gives(b2, g, h), b2[f][i].sfd_ino = b2[g][h].sfd_ino
        PROVE  f = g /\ i = h
    <3>1. ~(f = c /\ i = j) /\ ~(g = c /\ h = j)
      BY <1>5, <2>1
    <3>2. f \in DOMAIN b /\ g \in DOMAIN b /\ LinksOnce(b)
      BY <1>1 DEF DiskOK
    <3>3. Gives(b, f, i) /\ Gives(b, g, h) /\ b[f][i].sfd_ino = b[g][h].sfd_ino
      BY <1>5, <2>1, <3>1, <3>2
    <3>4. QED
      BY <3>2, <3>3, Zenon DEF LinksOnce
  <2>2. QED
    BY <2>1 DEF LinksOnce
<1>10. AllLinked(n2, b2, {ino})
  <2>1. ASSUME NEW i \in DOMAIN n2 \ ({ino} \cup {SFS_ROOT_LOCATION})
        PROVE  \E f \in DOMAIN b2, h \in Columns : Gives(b2, f, h) /\ b2[f][h].sfd_ino = i
    <3>1. PICK f \in DOMAIN b, h \in Columns : Gives(b, f, h) /\ b[f][h].sfd_ino = i
      BY <1>1 DEF DiskOK, AllLinked
    <3>2. ~(f = c /\ h = j)
      BY <3>1
    <3>3. QED
      BY SMTT(30), <1>1, <1>5, <3>1, <3>2
  <2>2. QED
    BY <2>1 DEF AllLinked
<1>11. ASSUME NEW p \in DirsIn(n), NEW i, Holds(n, b, p, i), i # ino
       PROVE  Holds(n2, b2, p, i)
  <2>1. PICK k2 \in Rows, j2 \in Columns :
           /\ n[p].direct[k2] # 0
           /\ Gives(b, n[p].direct[k2], j2) /\ b[n[p].direct[k2]][j2].sfd_ino = i
    BY <1>11 DEF Holds
  <2>2. n2[p].direct[k2] = n[p].direct[k2] /\ n[p].direct[k2] \in DOMAIN b
    BY <1>1, <2>1 DEF DiskOK, DirectKinds, DirsIn
  <2>3. ~(n[p].direct[k2] = c /\ j2 = j)
    BY <1>11, <2>1
  <2>4. QED
    BY SMTT(30), <1>5, <2>1, <2>2, <2>3 DEF Holds
<1>12. ASSUME NEW i \in DirsIn(n)
       PROVE  DotsOf(n2, b2, {ino}, i)
  <2> DEFINE f == n[i].direct[1]
  <2>1. DotsOf(n, b, {}, i)
    BY DEF DiskOK, DotsLead
  <2>2. i \in DOMAIN n /\ f \in DOMAIN b /\ 1 \in Columns /\ 2 \in Columns
    BY <1>3 DEF DiskFacts, DirsIn
  <2>3. b[f][1].sfd_name \in Dots /\ b[f][2].sfd_name \in Dots
    BY <2>1 DEF DotsOf, Entry, Dots
  <2>4. n2[i].direct[1] = f /\ b2[f][1] = b[f][1] /\ b2[f][2] = b[f][2]
    BY <1>1, <1>5, <2>2, <2>3
  <2>5. b[f][2].sfd_ino \in DirsIn(n)
    BY <2>1 DEF DotsOf
  <2>6. i # SFS_ROOT_LOCATION => i \in {ino} \/ Holds(n2, b2, b[f][2].sfd_ino, i)
    BY <1>11, <2>1, <2>5 DEF DotsOf
  <2>7. QED
    BY <1>2, <2>1, <2>4, <2>6 DEF DotsOf
<1>13. ASSUME NEW i \in DirsIn(n)
       PROVE  NamesOf(n2, b2, i)
  <2>1. NamesOf(n, b, i)
    BY DEF DiskOK, NamesOnce
  <2>2. ASSUME NEW k1 \in Rows, NEW k2 \in Rows, NEW j1 \in Columns, NEW j2 \in Columns,
               Used(n2, b2, i, k1, j1), Used(n2, b2, i, k2, j2),
               b2[n2[i].direct[k1]][j1].sfd_name = b2[n2[i].direct[k2]][j2].sfd_name
        PROVE  k1 = k2 /\ j1 = j2
    <3>1. ~(i = d /\ k1 = k /\ j1 = j) /\ ~(i = d /\ k2 = k /\ j2 = j)
      BY <1>2, <1>4, <2>2 DEF EntriesEdited
    <3>2. /\ Used(n, b, i, k1, j1) /\ Used(n, b, i, k2, j2)
          /\ b[n[i].direct[k1]][j1].sfd_name = b[n[i].direct[k2]][j2].sfd_name
      BY <1>2, <2>2, <3>1 DEF EntriesEdited
    <3>3. QED
      BY <2>1, <3>2, Zenon DEF NamesOf
  <2>3. QED
    BY <2>2, Zenon DEF NamesOf
<1>14. ASSUME NEW i \in DirsIn(n)
       PROVE  n2[i].size = Cardinality(UsedSlots(n2, b2, i))
  <2>1. n[i].size = Cardinality(UsedSlots(n, b, i)) /\ i \in DOMAIN n
    BY DEF DiskOK, SizesCount, DirsIn
  <2>2. CASE i # d
    <3>1. \A k2 \in Rows, j2 \in Columns : Used(n2, b2, i, k2, j2) <=> Used(n, b, i, k2, j2)
      BY <1>2, <2>2 DEF EntriesEdited
    <3>2. UsedSlots(n2, b2, i) = UsedSlots(n, b, i)
      BY <3>1 DEF UsedSlots
    <3>3. QED
      BY <1>1, <2>1, <2>2, <3>2
  <2>3. CASE i = d
    <3>1. \A k2 \in Rows, j2 \in Columns :
              Used(n2, b2, i, k2, j2) <=> (Used(n, b, i, k2, j2) /\ ~(k2 = k /\ j2 = j))
      BY <1>2, <1>4, <2>3 DEF EntriesEdited
    <3>2. Used(n, b, i, k, j)
      BY <1>1, <1>5, <2>3 DEF Used, Gives
    <3>3. UsedSlots(n2, b2, i) = UsedSlots(n, b, i) \ {<<k, j>>} /\ <<k, j>> \in UsedSlots(n, b, i)
      BY <1>1, <3>1, <3>2 DEF UsedSlots
    <3>4. Cardinality(UsedSlots(n2, b2, i)) = Cardinality(UsedSlots(n, b, i)) - 1
      BY <3>3, UsedFinite, FS_RemoveElement
    <3>5. QED
      BY <2>1, <2>3, <3>4
  <2>4. QED
    BY <2>2, <2>3
<1>15. DotsLead(n2, b2, {ino}) /\ NamesOnce(n2, b2) /\ SizesCount(n2, b2)
  BY <1>2, <1>12, <1>13, <1>14 DEF DotsLead, NamesOnce, SizesCount
<1>16. QED
  BY <1>2, <1>6, <1>8, <1>9, <1>10, <1>15 DEF DiskOK, PointersOK

\* Entry e gives the inode another name, which the directory does not have.
Renames(n, b, b2, d, k, j, e) ==
    /\ e \in EntryRecords /\ e.sfd_name \in Names
    /\ Edited(n, b, n, b2, d, k, j, e)
    /\ Gives(b, n[d].direct[k], j)
    /\ e.sfd_ino = b[n[d].direct[k]][j].sfd_ino
    /\ \A k2 \in Rows, j2 \in Columns :
          Used(n, b, d, k2, j2) => b[n[d].direct[k2]][j2].sfd_name # e.sfd_name

LEMMA RenameOK ==
    ASSUME NEW n, NEW b, NEW x, NEW t, NEW m, DiskOK(n, b, x, t, m, {}),
           NEW d, NEW k, NEW j, NEW b2, NEW e, Renames(n, b, b2, d, k, j, e)
    PROVE  DiskOK(n, b2, x, t, m, {})
<1>. USE DEF Renames
<1> DEFINE name == e.sfd_name
           c == n[d].direct[k]
<1>1. /\ d \in DirsIn(n) /\ k \in Rows /\ j \in Columns /\ c # 0
      /\ b2 \in [DOMAIN b -> [Columns -> EntryRecords]] /\ DOMAIN b2 = DOMAIN b
      /\ \A f \in DOMAIN b : f # c => b2[f] = b[f]
      /\ \A f \in DOMAIN b, i \in Columns : b2[f][i] = IF f = c /\ i = j THEN e ELSE b[f][i]
  BY DEF Edited
<1>2. /\ PointersOK(n, b2, x, t, m)
      /\ EntriesEdited(n, b, n, b2, d, k, j, e)
      /\ c \in DOMAIN b
  BY EditFrame
<1>3. DiskFacts(n, b, x, t, m)
  BY OnDisk
<1>4. /\ e.sfd_ino # 0 /\ name \notin Dots /\ b[c][j].sfd_name \notin Dots
      /\ \A f \in DOMAIN b, i \in Columns :
            /\ b2[f][i].sfd_ino = b[f][i].sfd_ino
            /\ Gives(b2, f, i) <=> Gives(b, f, i)
            /\ ~(f = c /\ i = j) => b2[f][i] = b[f][i]
  BY SMTT(30), <1>1, <1>2, SfsAssumption DEF Gives, Dots
<1>5. EntriesLead(n, b2, {})
  <2>1. ASSUME NEW f \in DOMAIN b, NEW i \in Columns
        PROVE  /\ b2[f][i].sfd_ino = 0 => b2[f][i] = FreeEntry
               /\ b2[f][i].sfd_ino # 0 => b2[f][i].sfd_ino \in DOMAIN n
               /\ Gives(b2, f, i) => b2[f][i].sfd_ino # SFS_ROOT_LOCATION
    <3>1. /\ b[f][i].sfd_ino = 0 => b[f][i] = FreeEntry
          /\ b[f][i].sfd_ino # 0 => b[f][i].sfd_ino \in DOMAIN n
          /\ Gives(b, f, i) => b[f][i].sfd_ino # SFS_ROOT_LOCATION
      BY DEF DiskOK, EntriesLead
    <3>2. b2[f][i].sfd_ino = b[f][i].sfd_ino /\ (Gives(b2, f, i) <=> Gives(b, f, i))
      BY <1>4
    <3>3. CASE f = c /\ i = j
      <4>1. b2[f][i] = e
        BY <1>1, <3>3
      <4>2. QED
        BY <1>4, <3>1, <3>2, <4>1
    <3>4. CASE ~(f = c /\ i = j)
      <4>1. b2[f][i] = b[f][i]
        BY <1>4, <3>4
      <4>2. QED
        BY <3>1, <3>2, <4>1
    <3>5. QED
      BY <3>3, <3>4
  <2>2. QED
    BY <1>1, <2>1 DEF EntriesLead
<1>6. LinksOnce(b2)
  <2>1. ASSUME NEW f \in DOMAIN b2, NEW g \in DOMAIN b2, NEW i \in Columns, NEW h \in Columns,
               Gives(b2, f, i), Gives(b2, g, h), b2[f][i].sfd_ino = b2[g][h].sfd_ino
        PROVE  f = g /\ i = h
    <3>1. f \in DOMAIN b /\ g \in DOMAIN b /\ LinksOnce(b)
      BY <1>1 DEF DiskOK
    <3>2. Gives(b, f, i) /\ Gives(b, g, h) /\ b[f][i].sfd_ino = b[g][h].sfd_ino
      BY <1>4, <2>1, <3>1
    <3>3. QED
      BY <3>1, <3>2, Zenon DEF LinksOnce
  <2>2. QED
    BY <2>1 DEF LinksOnce
<1>7. AllLinked(n, b2, {})
  BY SMTT(30), <1>1, <1>4 DEF DiskOK, AllLinked
<1>8. \A p \in DirsIn(n) : \A i : Holds(n, b, p, i) => Holds(n, b2, p, i)
  <2>1. ASSUME NEW p \in DirsIn(n), NEW i, Holds(n, b, p, i)
        PROVE  Holds(n, b2, p, i)
    <3>1. PICK k2 \in Rows, j2 \in Columns :
             /\ n[p].direct[k2] # 0
             /\ Gives(b, n[p].direct[k2], j2) /\ b[n[p].direct[k2]][j2].sfd_ino = i
      BY <2>1 DEF Holds
    <3>2. n[p].direct[k2] \in DOMAIN b
      BY <3>1 DEF DiskOK, DirectKinds
    <3>3. QED
      BY <1>4, <3>1, <3>2 DEF Holds
  <2>2. QED
    BY <2>1
<1>9. ASSUME NEW i \in DirsIn(n)
      PROVE  DotsOf(n, b2, {}, i)
  <2> DEFINE f == n[i].direct[1]
  <2>1. DotsOf(n, b, {}, i)
    BY DEF DiskOK, DotsLead
  <2>2. f \in DOMAIN b /\ 1 \in Columns /\ 2 \in Columns
    BY <1>3 DEF DiskFacts
  <2>3. b[f][1].sfd_name \in Dots /\ b[f][2].sfd_name \in Dots
    BY <2>1 DEF DotsOf, Entry, Dots
  <2>4. b2[f][1] = b[f][1] /\ b2[f][2] = b[f][2]
    BY <1>4, <2>2, <2>3
  <2>5. b[f][2].sfd_ino \in DirsIn(n)
    BY <2>1 DEF DotsOf
  <2>6. i # SFS_ROOT_LOCATION => Holds(n, b2, b[f][2].sfd_ino, i)
    BY <1>8, <2>1, <2>5 DEF DotsOf
  <2>7. QED
    BY <2>1, <2>4, <2>6 DEF DotsOf
<1>10. \A i \in DirsIn(n), k2 \in Rows, j2 \in Columns : Used(n, b2, i, k2, j2) <=> Used(n, b, i, k2, j2)
  <2>1. Used(n, b, d, k, j)
    BY <1>1, <1>4 DEF Used
  <2>2. QED
    BY <1>2, <1>4, <2>1 DEF EntriesEdited
<1>11. n[d].direct[k] = c /\ b2[c][j].sfd_name = name
  BY <1>1, <1>2
<1>12. ASSUME NEW k2 \in Rows, NEW j2 \in Columns, Used(n, b2, d, k2, j2),
              b2[n[d].direct[k2]][j2].sfd_name = name
       PROVE  k2 = k /\ j2 = j
  <2>1. SUFFICES ASSUME ~(k2 = k /\ j2 = j)
                 PROVE  FALSE
    OBVIOUS
  <2>2. Used(n, b, d, k2, j2) /\ b2[n[d].direct[k2]][j2] = b[n[d].direct[k2]][j2]
    BY <1>1, <1>2, <1>12, <2>1 DEF EntriesEdited
  <2>3. QED
    BY <1>12, <2>2
<1>13. ASSUME NEW i \in DirsIn(n)
       PROVE  NamesOf(n, b2, i)
  <2>1. NamesOf(n, b, i)
    BY DEF DiskOK, NamesOnce
  <2>2. ASSUME NEW k1 \in Rows, NEW k2 \in Rows, NEW j1 \in Columns, NEW j2 \in Columns,
               Used(n, b2, i, k1, j1), Used(n, b2, i, k2, j2),
               b2[n[i].direct[k1]][j1].sfd_name = b2[n[i].direct[k2]][j2].sfd_name
        PROVE  k1 = k2 /\ j1 = j2
    <3>1. CASE i = d /\ k1 = k /\ j1 = j
      <4>1. b2[n[d].direct[k2]][j2].sfd_name = name /\ Used(n, b2, d, k2, j2)
        BY <1>11, <2>2, <3>1
      <4>2. QED
        BY <1>12, <3>1, <4>1
    <3>2. CASE i = d /\ k2 = k /\ j2 = j
      <4>1. b2[n[d].direct[k1]][j1].sfd_name = name /\ Used(n, b2, d, k1, j1)
        BY <1>11, <2>2, <3>2
      <4>2. QED
        BY <1>12, <3>2, <4>1
    <3>3. CASE ~(i = d /\ k1 = k /\ j1 = j) /\ ~(i = d /\ k2 = k /\ j2 = j)
      <4>1. /\ Used(n, b, i, k1, j1) /\ Used(n, b, i, k2, j2)
            /\ b[n[i].direct[k1]][j1].sfd_name = b[n[i].direct[k2]][j2].sfd_name
        BY <1>2, <2>2, <3>3 DEF EntriesEdited
      <4>2. QED
        BY <2>1, <4>1, Zenon DEF NamesOf
    <3>4. QED
      BY <3>1, <3>2, <3>3
  <2>3. QED
    BY <2>2, Zenon DEF NamesOf
<1>14. ASSUME NEW i \in DirsIn(n)
       PROVE  n[i].size = Cardinality(UsedSlots(n, b2, i))
  <2>1. n[i].size = Cardinality(UsedSlots(n, b, i))
    BY DEF DiskOK, SizesCount
  <2>2. UsedSlots(n, b2, i) = UsedSlots(n, b, i)
    BY <1>10 DEF UsedSlots
  <2>3. QED
    BY <2>1, <2>2
<1>15. DotsLead(n, b2, {}) /\ NamesOnce(n, b2) /\ SizesCount(n, b2)
  BY <1>9, <1>13, <1>14 DEF DotsLead, NamesOnce, SizesCount
<1>16. QED
  BY <1>2, <1>5, <1>6, <1>7, <1>15 DEF DiskOK, PointersOK

----------------------------------------------------------------------------
\* Dropping an inode without a name, and its blocks.

LEMMA ForgetType ==
    ASSUME NEW S, NEW f, f \in [DOMAIN f -> S], NEW G, NEW f2, f2 = Forget(f, G)
    PROVE  f2 \in [DOMAIN f2 -> S]
BY DEF Forget, Restrict

\* The blocks G are the inode's: no one else's, and what it had besides them
\* is empty.
Droppable(n, b, x, t, ino, G) ==
    /\ ino # SFS_ROOT_LOCATION
    /\ G \cap System = {} /\ DOMAIN n \cap G = {ino}
    /\ \A i \in DOMAIN n \ {ino} : n[i].indirect \notin G /\ \A k \in Rows : n[i].direct[k] \notin G
    /\ \A c \in DOMAIN x \ G, k \in IndirectRows : x[c][k] \notin G
    /\ \A c \in DOMAIN b \ G, k \in Rows : n[ino].direct[k] = c => b[c] = NewDirBlock(<< >>)
    /\ \A c \in DOMAIN x \ G : n[ino].indirect # c
    /\ \A c \in DOMAIN t \ G, k \in Rows : n[ino].direct[k] # c
    /\ \A c \in DOMAIN x \cap G, k \in IndirectRows : x[c][k] \notin DOMAIN t \ G
    /\ \A c \in DOMAIN b \cap G, j \in Columns : ~Gives(b, c, j)
    /\ \A c \in DOMAIN b \ G, j \in Columns : b[c][j].sfd_ino # ino

LEMMA DropOK ==
    ASSUME NEW n, NEW b, NEW x, NEW t, NEW m, NEW ino, DiskOK(n, b, x, t, m, {ino}),
           NEW G, Droppable(n, b, x, t, ino, G),
           NEW n2, n2 = Forget(n, G), NEW b2, b2 = Forget(b, G),
           NEW x2, x2 = Forget(x, G), NEW t2, t2 = Forget(t, G)
    PROVE  DiskOK(n2, b2, x2, t2, m \ G, {})
<1>1. DiskFacts(n, b, x, t, m)
  BY OnDisk
<1>2. /\ ino # SFS_ROOT_LOCATION
      /\ G \cap System = {} /\ DOMAIN n \cap G = {ino} /\ ino \in DOMAIN n /\ ino \in G
      /\ \A i \in DOMAIN n \ {ino} : n[i].indirect \notin G /\ \A k \in Rows : n[i].direct[k] \notin G
  BY DEF Droppable
<1>3. /\ \A c \in DOMAIN x \ G, k \in IndirectRows : x[c][k] \notin G
      /\ \A c \in DOMAIN b \ G, k \in Rows : n[ino].direct[k] = c => b[c] = NewDirBlock(<< >>)
      /\ \A c \in DOMAIN x \ G : n[ino].indirect # c
      /\ \A c \in DOMAIN t \ G, k \in Rows : n[ino].direct[k] # c
      /\ \A c \in DOMAIN x \cap G, k \in IndirectRows : x[c][k] \notin DOMAIN t \ G
  BY DEF Droppable
<1>4. /\ \A c \in DOMAIN b \cap G, j \in Columns : ~Gives(b, c, j)
      /\ \A c \in DOMAIN b \ G, j \in Columns : b[c][j].sfd_ino # ino
  BY DEF Droppable
<1>5. /\ DOMAIN n2 = DOMAIN n \ {ino} /\ \A i \in DOMAIN n2 : n2[i] = n[i]
      /\ DOMAIN b2 = DOMAIN b \ G /\ \A c \in DOMAIN b2 : b2[c] = b[c]
      /\ DOMAIN x2 = DOMAIN x \ G /\ \A c \in DOMAIN x2 : x2[c] = x[c]
      /\ DOMAIN t2 = DOMAIN t \ G /\ \A c \in DOMAIN t2 : t2[c] = t[c]
  <2>1. DOMAIN n2 = DOMAIN n \ G /\ \A i \in DOMAIN n2 : n2[i] = n[i]
    BY DEF Forget, Restrict
  <2>2. DOMAIN b2 = DOMAIN b \ G /\ \A c \in DOMAIN b2 : b2[c] = b[c]
    BY DEF Forget, Restrict
  <2>3. DOMAIN x2 = DOMAIN x \ G /\ \A c \in DOMAIN x2 : x2[c] = x[c]
    BY DEF Forget, Restrict
  <2>4. DOMAIN t2 = DOMAIN t \ G /\ \A c \in DOMAIN t2 : t2[c] = t[c]
    BY DEF Forget, Restrict
  <2>5. QED
    BY <1>2, <2>1, <2>2, <2>3, <2>4
<1>6. Tables(n2, b2, x2)
  <2>1. Tables(n, b, x)
    BY DEF DiskOK
  <2>2. n2 \in [DOMAIN n2 -> InodeRecords]
    BY <2>1, ForgetType DEF Tables
  <2>3. b2 \in [DOMAIN b2 -> [Columns -> EntryRecords]]
    BY <2>1, ForgetType DEF Tables
  <2>4. x2 \in [DOMAIN x2 -> [IndirectRows -> Blocks]]
    BY <2>1, ForgetType DEF Tables
  <2>5. QED
    BY <2>2, <2>3, <2>4 DEF Tables
<1>7. /\ DirsIn(n2) = DirsIn(n) \ {ino} /\ FilesIn(n2) = FilesIn(n) \ {ino}
      /\ DirsIn(n) \subseteq DOMAIN n /\ FilesIn(n) \subseteq DOMAIN n
  BY <1>5 DEF DirsIn, FilesIn
<1>8. Kinds(n2, b2, x2, t2, m \ G)
  BY <1>2, <1>5, <1>7 DEF DiskOK, Kinds
<1>9. EntriesLead(n2, b2, {})
  BY <1>4, <1>5 DEF DiskOK, EntriesLead, Gives
<1>10. LinksOnce(b2)
  <2>1. LinksOnce(b) /\ \A c \in DOMAIN b2, j \in Columns : c \in DOMAIN b /\ (Gives(b2, c, j) <=> Gives(b, c, j))
    BY <1>5 DEF DiskOK, Gives
  <2>2. ASSUME NEW c \in DOMAIN b2, NEW d \in DOMAIN b2, NEW j \in Columns, NEW i \in Columns,
               Gives(b2, c, j), Gives(b2, d, i), b2[c][j].sfd_ino = b2[d][i].sfd_ino
        PROVE  c = d /\ j = i
    <3>1. Gives(b, c, j) /\ Gives(b, d, i) /\ b[c][j].sfd_ino = b[d][i].sfd_ino
      BY <1>5, <2>1, <2>2
    <3>2. QED
      BY <2>1, <3>1, Zenon DEF LinksOnce
  <2>3. QED
    BY <2>2 DEF LinksOnce
<1>11. AllLinked(n2, b2, {})
  <2>1. ASSUME NEW i \in DOMAIN n2 \ ({} \cup {SFS_ROOT_LOCATION})
        PROVE  \E c \in DOMAIN b2, j \in Columns : Gives(b2, c, j) /\ b2[c][j].sfd_ino = i
    <3>1. PICK c \in DOMAIN b, j \in Columns : Gives(b, c, j) /\ b[c][j].sfd_ino = i
      BY <1>5 DEF DiskOK, AllLinked
    <3>2. c \in DOMAIN b2 /\ b2[c] = b[c]
      BY <1>4, <1>5, <3>1
    <3>3. QED
      BY <3>1, <3>2 DEF Gives
  <2>2. QED
    BY <2>1 DEF AllLinked
<1>12. DirectKinds(n2, b2, t2)
  BY <1>2, <1>5, <1>7, <1>1 DEF DiskOK, DirectKinds, DiskFacts
<1>13. IndirectKinds(n2, x2, t2)
  BY <1>2, <1>3, <1>5, <1>7 DEF DiskOK, IndirectKinds
<1>14. DirectOnce(n2) /\ IndirectOnce(n2)
  BY <1>5 DEF DiskOK, DirectOnce, IndirectOnce
<1>15. RowsOnce(n2, x2)
  BY <1>5 DEF DiskOK, RowsOnce
<1>16. AllPointed(n2, b2, x2, t2)
  <2>1. ASSUME NEW c \in DOMAIN b2
        PROVE  b2[c] = NewDirBlock(<< >>) \/ \E i \in DOMAIN n2, k \in Rows : n2[i].direct[k] = c
    BY <1>3, <1>5 DEF DiskOK, AllPointed
  <2>2. ASSUME NEW c \in DOMAIN x2
        PROVE  \E i \in DOMAIN n2 : n2[i].indirect = c
    BY <1>3, <1>5 DEF DiskOK, AllPointed
  <2>3. ASSUME NEW c \in DOMAIN t2
        PROVE  \/ \E i \in DOMAIN n2, k \in Rows : n2[i].direct[k] = c
               \/ \E d \in DOMAIN x2, k \in IndirectRows : x2[d][k] = c
    BY <1>3, <1>5 DEF DiskOK, AllPointed
  <2>4. QED
    BY <2>1, <2>2, <2>3 DEF AllPointed
<1>17. ASSUME NEW d \in DirsIn(n2)
       PROVE  /\ UsedSlots(n2, b2, d) = UsedSlots(n, b, d)
              /\ NamesOf(n, b, d) => NamesOf(n2, b2, d)
              /\ \A i : Holds(n, b, d, i) => Holds(n2, b2, d, i)
  <2>1. d \in DirsIn(n) /\ d \in DOMAIN n \ {ino} /\ n2[d] = n[d]
    BY <1>5, <1>7
  <2>2. \A k \in Rows : n[d].direct[k] # 0 => n[d].direct[k] \in DOMAIN b2
    BY <1>2, <1>5, <2>1 DEF DiskOK, DirectKinds
  <2>3. \A k \in Rows : n[d].direct[k] # 0 => b2[n[d].direct[k]] = b[n[d].direct[k]]
    BY <1>5, <2>2
  <2>4. \A k \in Rows : n2[d].direct[k] = n[d].direct[k]
    BY <2>1
  <2>5. UsedSlots(n2, b2, d) = UsedSlots(n, b, d)
    BY <2>3, <2>4, SameDirectory
  <2>6. NamesOf(n, b, d) => NamesOf(n2, b2, d)
    BY <2>3, <2>4, SameDirectory
  <2>7. \A i : Holds(n, b, d, i) => Holds(n2, b2, d, i)
    BY <2>3, <2>4, SameDirectory
  <2>8. QED
    BY <2>5, <2>6, <2>7
<1>18. DotsLead(n2, b2, {})
  <2>1. ASSUME NEW d \in DirsIn(n2)
        PROVE  DotsOf(n2, b2, {}, d)
    <3>1. DotsOf(n, b, {ino}, d) /\ d \in DirsIn(n) /\ d # ino /\ n2[d] = n[d]
      BY <1>5, <1>7 DEF DiskOK, DotsLead
    <3>2. /\ n[d].direct[1] \in DOMAIN b2 /\ b2[n[d].direct[1]] = b[n[d].direct[1]]
          /\ n[d].direct[1] \in DOMAIN b \ G /\ 1 \in Columns /\ 2 \in Columns
      BY <1>1, <1>2, <1>5, <1>7, <3>1 DEF DiskFacts
    <3>3. b[n[d].direct[1]][2].sfd_ino # ino
      BY <1>4, <3>2
    <3>4. b[n[d].direct[1]][2].sfd_ino \in DirsIn(n2)
      BY <1>7, <3>1, <3>3 DEF DotsOf
    <3>5. d # SFS_ROOT_LOCATION => Holds(n2, b2, b[n[d].direct[1]][2].sfd_ino, d)
      BY <1>17, <3>1, <3>4 DEF DotsOf
    <3>6. QED
      BY <3>1, <3>2, <3>4, <3>5 DEF DotsOf
  <2>2. QED
    BY <2>1 DEF DotsLead
<1>19. NamesOnce(n2, b2)
  BY <1>7, <1>17 DEF DiskOK, NamesOnce
<1>20. SizesCount(n2, b2)
  BY <1>5, <1>7, <1>17 DEF DiskOK, SizesCount
<1>21. FilesHold(n2, x2, t2)
  <2>1. ASSUME NEW i \in FilesIn(n2)
        PROVE  Holding(ContentIn(n2, x2, t2, i), n2[i].size)
    <3>1. i \in DOMAIN n \ {ino} /\ i \in FilesIn(n) /\ n2[i] = n[i] /\ Tables(n, b, x)
      BY <1>5, <1>7 DEF DiskOK
    <3>2. n[i].indirect # 0 =>
              /\ n[i].indirect \in DOMAIN x /\ n[i].indirect \in DOMAIN x2
              /\ x2[n[i].indirect] = x[n[i].indirect]
      BY <1>2, <1>5, <3>1 DEF DiskOK, IndirectKinds
    <3>3. \A l \in Rows : n[i].direct[l] # 0 => t2[n[i].direct[l]] = t[n[i].direct[l]]
      BY <1>2, <1>5, <3>1 DEF DiskOK, DirectKinds
    <3>4. n[i].indirect # 0 =>
             \A l \in IndirectRows :
                 x[n[i].indirect][l] # 0 => t2[x[n[i].indirect][l]] = t[x[n[i].indirect][l]]
      BY <1>3, <1>5, <3>1, <3>2 DEF DiskOK, IndirectKinds
    <3>5. ContentIn(n2, x2, t2, i) = ContentIn(n, x, t, i)
      BY <3>1, <3>2, <3>3, <3>4, SameContent
    <3>6. QED
      BY <3>1, <3>5 DEF DiskOK, FilesHold
  <2>2. QED
    BY <2>1 DEF FilesHold
<1>22. QED
  BY <1>6, <1>8, <1>9, <1>10, <1>11, <1>12, <1>13, <1>14, <1>15, <1>16, <1>18, <1>19, <1>20, <1>21
     DEF DiskOK

LEMMA DropFileOK ==
    ASSUME NEW n, NEW b, NEW x, NEW t, NEW m, NEW ino, DiskOK(n, b, x, t, m, {ino}),
           ino \in FilesIn(n), NEW G,
           G = ({ino, n[ino].indirect} \cup Range(n[ino].direct)
                  \cup (IF n[ino].indirect # 0 THEN Range(x[n[ino].indirect]) ELSE {})) \ {0}
    PROVE  Droppable(n, b, x, t, ino, G)
<1> DEFINE f == n[ino].indirect
<1>1. DiskFacts(n, b, x, t, m)
  BY OnDisk
<1>2. /\ ino \in DOMAIN n /\ ino \notin DirsIn(n) /\ ino # 0 /\ ino # SFS_ROOT_LOCATION
      /\ FilesIn(n) \subseteq DOMAIN n
  BY <1>1 DEF DiskOK, Kinds, DiskFacts, FilesIn
<1>3. Range(n[ino].direct) = {n[ino].direct[k] : k \in Rows}
  <2>1. n[ino].direct \in [Rows -> Blocks]
    BY <1>2 DEF DiskOK, Tables, InodeRecords, Rows
  <2>2. QED
    BY <2>1 DEF Range
<1>4. f # 0 => f \in DOMAIN x /\ Range(x[f]) = {x[f][k] : k \in IndirectRows}
  <2>1. f # 0 => f \in DOMAIN x
    BY DEF DiskOK, IndirectKinds
  <2>2. f # 0 => x[f] \in [IndirectRows -> Blocks]
    BY <2>1 DEF DiskOK, Tables
  <2>3. QED
    BY <2>1, <2>2 DEF Range
<1>5. \A c : c \in G <=>
          /\ c # 0
          /\ \/ c = ino \/ c = f
             \/ \E k \in Rows : c = n[ino].direct[k]
             \/ f # 0 /\ \E k \in IndirectRows : c = x[f][k]
  BY <1>3, <1>4
<1>6. /\ \A k \in Rows : n[ino].direct[k] # 0 => n[ino].direct[k] \in DOMAIN t
      /\ f # 0 => \A k \in IndirectRows : x[f][k] # 0 => x[f][k] \in DOMAIN t
  BY <1>4 DEF DiskOK, DirectKinds, IndirectKinds
<1>7. \A c \in G : c = ino \/ (c = f /\ c \in DOMAIN x) \/ c \in DOMAIN t
  BY <1>4, <1>5, <1>6
<1>8. /\ DOMAIN n \cap DOMAIN b = {} /\ DOMAIN n \cap DOMAIN x = {} /\ DOMAIN n \cap DOMAIN t = {}
      /\ DOMAIN b \cap DOMAIN x = {} /\ DOMAIN b \cap DOMAIN t = {} /\ DOMAIN x \cap DOMAIN t = {}
      /\ (DOMAIN n \cup DOMAIN b \cup DOMAIN x \cup DOMAIN t) \cap System = {}
      /\ 0 \notin DOMAIN n /\ 0 \notin DOMAIN b /\ 0 \notin DOMAIN x /\ 0 \notin DOMAIN t
  BY <1>1 DEF DiskOK, Kinds, DiskFacts
<1>9. G \cap System = {} /\ DOMAIN n \cap G = {ino} /\ DOMAIN b \cap G = {} /\ 0 \notin G
  BY <1>2, <1>5, <1>7, <1>8
<1>10. ASSUME NEW i \in DOMAIN n \ {ino}
       PROVE  n[i].indirect \notin G
  <2>1. n[i].indirect # 0 => n[i].indirect \in DOMAIN x /\ n[i].indirect # f
    BY <1>1, <1>2 DEF DiskOK, IndirectKinds, IndirectOnce, DiskFacts
  <2>2. QED
    BY <1>2, <1>7, <1>8, <1>9, <2>1
<1>11. ASSUME NEW i \in DOMAIN n \ {ino}, NEW k \in Rows
       PROVE  n[i].direct[k] \notin G
  <2>1. SUFFICES ASSUME n[i].direct[k] # 0
                 PROVE  n[i].direct[k] \notin G
    BY <1>9
  <2>2. n[i].direct[k] \in DOMAIN b \cup DOMAIN t
    BY <1>1, <2>1 DEF DiskFacts
  <2>3. \A l \in Rows : n[i].direct[k] # n[ino].direct[l]
    BY <1>2, <2>1 DEF DiskOK, DirectOnce
  <2>4. f # 0 => \A l \in IndirectRows : n[i].direct[k] # x[f][l]
    BY <1>4, <2>1 DEF DiskOK, RowsOnce
  <2>5. n[i].direct[k] # ino /\ n[i].direct[k] # f
    BY <1>2, <1>4, <1>8, <2>1, <2>2
  <2>6. QED
    BY <1>5, <2>3, <2>4, <2>5
<1>12. ASSUME NEW c \in DOMAIN x \ G, NEW k \in IndirectRows
       PROVE  x[c][k] \notin G
  <2>1. SUFFICES ASSUME x[c][k] # 0
                 PROVE  x[c][k] \notin G
    BY <1>9
  <2>2. x[c][k] \in DOMAIN t
    BY <2>1 DEF DiskOK, IndirectKinds
  <2>3. \A l \in Rows : n[ino].direct[l] # 0 => x[c][k] # n[ino].direct[l]
    BY <1>2 DEF DiskOK, RowsOnce
  <2>4. f # 0 => \A l \in IndirectRows : x[c][k] # x[f][l]
    <3>1. f # 0 => c # f /\ f \in DOMAIN x
      BY <1>4, <1>5
    <3>2. QED
      BY <2>1, <3>1 DEF DiskOK, RowsOnce
  <2>5. x[c][k] # ino /\ (f # 0 => x[c][k] # f)
    BY <1>2, <1>4, <1>8, <2>2
  <2>6. QED
    BY <1>5, <2>1, <2>3, <2>4, <2>5
<1>13. ASSUME NEW c \in DOMAIN b \ G, NEW k \in Rows, n[ino].direct[k] = c
       PROVE  FALSE
  BY <1>5, <1>8, <1>13
<1>14. \A c \in DOMAIN x \ G : f # c
  BY <1>5, <1>8
<1>15. \A c \in DOMAIN t \ G, k \in Rows : n[ino].direct[k] # c
  BY <1>5, <1>8
<1>16. \A c \in DOMAIN x \cap G, k \in IndirectRows : x[c][k] \notin DOMAIN t \ G
  <2>1. \A c \in DOMAIN x \cap G : c = f /\ f # 0
    BY <1>2, <1>7, <1>8
  <2>2. QED
    BY <1>5, <1>8, <2>1
<1>17. ASSUME NEW c \in DOMAIN b \ G, NEW j \in Columns
       PROVE  b[c][j].sfd_ino # ino
  <2>1. SUFFICES ASSUME b[c][j].sfd_ino = ino
                 PROVE  FALSE
    OBVIOUS
  <2>2. ~Gives(b, c, j)
    BY <2>1 DEF DiskOK, EntriesLead
  <2>3. b[c][j].sfd_ino # 0 /\ b[c][j].sfd_name \in Dots
    BY <1>2, <2>1, <2>2 DEF Gives
  <2>4. PICK d \in DirsIn(n) :
           /\ c = n[d].direct[1]
           /\ \/ j = 1 /\ b[c][j].sfd_ino = d
              \/ j = 2 /\ DotsOf(n, b, {ino}, d)
    BY <2>3, DotEntries
  <2>5. ino \in DirsIn(n)
    BY <2>1, <2>4 DEF DotsOf
  <2>6. QED
    BY <1>2, <2>5
<1>18. QED
  BY <1>2, <1>9, <1>10, <1>11, <1>12, <1>13, <1>14, <1>15, <1>16, <1>17 DEF Droppable

\* A directory that counts no more than two entries has only "." and "..".
LEMMA OnlyDots ==
    ASSUME NEW n, NEW b, NEW x, NEW t, NEW m, NEW O, DiskOK(n, b, x, t, m, O),
           NEW d \in DirsIn(n), n[d].size <= 2
    PROVE  /\ \A k \in Rows, j \in Columns : Used(n, b, d, k, j) => k = 1 /\ j \in {1, 2}
           /\ \A k \in Rows, j \in Columns : n[d].direct[k] # 0 => ~Gives(b, n[d].direct[k], j)
<1> DEFINE S == UsedSlots(n, b, d)
           f == n[d].direct[1]
<1>1. DiskFacts(n, b, x, t, m)
  BY OnDisk
<1>2. /\ 1 \in Rows /\ 1 \in Columns /\ 2 \in Columns /\ f # 0 /\ d # 0
  BY <1>1 DEF DiskFacts, DirsIn
<1>3. DotsOf(n, b, O, d)
  BY DEF DiskOK, DotsLead
<1>4. /\ b[f][1].sfd_ino = d /\ b[f][1].sfd_name = "."
      /\ b[f][2].sfd_ino # 0 /\ b[f][2].sfd_name = ".."
  BY <1>1, <1>3 DEF DotsOf, Entry, DiskFacts, DirsIn
<1>5. <<1, 1>> \in S /\ <<1, 2>> \in S
  BY <1>2, <1>4 DEF UsedSlots, Used
<1>6. S = {<<1, 1>>, <<1, 2>>}
  <2> DEFINE P == {<<1, 1>>, <<1, 2>>}
  <2>1. IsFiniteSet(S) /\ Cardinality(S) \in Nat /\ Cardinality(S) <= 2
    BY UsedFinite DEF DiskOK, SizesCount
  <2>2. IsFiniteSet(P) /\ Cardinality(P) = 2
    <3>1. P = {<<1, 1>>} \cup {<<1, 2>>} /\ <<1, 2>> \notin {<<1, 1>>}
      OBVIOUS
    <3>2. IsFiniteSet({<<1, 1>>}) /\ Cardinality({<<1, 1>>}) = 1
      BY FS_Singleton, Zenon
    <3>3. Cardinality({<<1, 1>>} \cup {<<1, 2>>}) = Cardinality({<<1, 1>>}) + 1
      BY <3>1, <3>2, FS_AddElement, Zenon
    <3>4. IsFiniteSet({<<1, 1>>} \cup {<<1, 2>>})
      BY <3>2, FS_AddElement, Zenon
    <3>5. QED
      BY <3>1, <3>2, <3>3, <3>4
  <2>3. P \in SUBSET S
    BY <1>5
  <2>. HIDE DEF P, S
  <2>4. P = S
    BY <2>1, <2>2, <2>3, FS_Subset
  <2>5. QED
    BY <2>4 DEF P
<1>7. ASSUME NEW k \in Rows, NEW j \in Columns, Used(n, b, d, k, j)
      PROVE  k = 1 /\ j \in {1, 2}
  <2>1. <<k, j>> \in S
    BY <1>7 DEF UsedSlots
  <2>2. QED
    BY <1>6, <2>1
<1>8. ASSUME NEW k \in Rows, NEW j \in Columns, n[d].direct[k] # 0, Gives(b, n[d].direct[k], j)
      PROVE  FALSE
  <2>1. k = 1 /\ j \in {1, 2}
    BY <1>7, <1>8 DEF Used, Gives
  <2>2. QED
    BY <1>4, <1>8, <2>1 DEF Gives, Dots
<1>9. QED
  BY <1>7, <1>8

LEMMA DropDirOK ==
    ASSUME NEW n, NEW b, NEW x, NEW t, NEW m, NEW ino, DiskOK(n, b, x, t, m, {ino}),
           ino \in DirsIn(n), ino # SFS_ROOT_LOCATION, n[ino].size <= 2,
           NEW G, G = {ino, n[ino].direct[1]}
    PROVE  Droppable(n, b, x, t, ino, G)
<1> DEFINE f == n[ino].direct[1]
<1>1. DiskFacts(n, b, x, t, m)
  BY OnDisk
<1>2. ino \in DOMAIN n /\ f # 0 /\ f \in DOMAIN b /\ ino # 0 /\ 1 \in Rows
  BY <1>1 DEF DiskFacts, DirsIn
<1>3. /\ \A k \in Rows, j \in Columns : Used(n, b, ino, k, j) => k = 1 /\ j \in {1, 2}
      /\ \A k \in Rows, j \in Columns : n[ino].direct[k] # 0 => ~Gives(b, n[ino].direct[k], j)
  BY OnlyDots
<1>4. /\ DOMAIN n \cap DOMAIN b = {} /\ DOMAIN n \cap DOMAIN x = {} /\ DOMAIN n \cap DOMAIN t = {}
      /\ DOMAIN b \cap DOMAIN x = {} /\ DOMAIN b \cap DOMAIN t = {} /\ DOMAIN x \cap DOMAIN t = {}
      /\ (DOMAIN n \cup DOMAIN b \cup DOMAIN x \cup DOMAIN t) \cap System = {}
      /\ 0 \notin DOMAIN n /\ 0 \notin DOMAIN b /\ 0 \notin DOMAIN x /\ 0 \notin DOMAIN t
  BY <1>1 DEF DiskOK, Kinds, DiskFacts
<1>5. G \cap System = {} /\ DOMAIN n \cap G = {ino} /\ DOMAIN b \cap G = {f} /\ DOMAIN x \cap G = {} /\ 0 \notin G
      /\ DOMAIN t \cap G = {}
  BY <1>2, <1>4
<1>6. ASSUME NEW i \in DOMAIN n \ {ino}
      PROVE  n[i].indirect \notin G
  BY <1>1, <1>5 DEF DiskOK, IndirectKinds, DiskFacts
<1>7. ASSUME NEW i \in DOMAIN n \ {ino}, NEW k \in Rows
      PROVE  n[i].direct[k] \notin G
  <2>1. n[i].direct[k] # 0 => n[i].direct[k] # f /\ n[i].direct[k] \in DOMAIN b \cup DOMAIN t
    BY <1>1, <1>2 DEF DiskOK, DirectOnce, DiskFacts
  <2>2. QED
    BY <1>2, <1>4, <1>5, <2>1
<1>8. \A c \in DOMAIN x, k \in IndirectRows : x[c][k] \notin G
  BY <1>5 DEF DiskOK, IndirectKinds
<1>9. ASSUME NEW c \in DOMAIN b \ G, NEW k \in Rows, n[ino].direct[k] = c
      PROVE  b[c] = NewDirBlock(<< >>)
  <2>1. k # 1 /\ c # 0
    BY <1>4, <1>5, <1>9
  <2>2. \A j \in Columns : b[c][j].sfd_ino = 0
    BY <1>3, <1>9, <2>1 DEF Used
  <2>3. \A j \in Columns : b[c][j] = FreeEntry
    BY <2>2 DEF DiskOK, EntriesLead
  <2>4. b[c] \in [Columns -> EntryRecords]
    BY DEF DiskOK, Tables
  <2>5. /\ NewDirBlock(<< >>) \in [Columns -> EntryRecords]
        /\ \A j \in Columns : NewDirBlock(<< >>)[j] = b[c][j]
    BY <2>3, EmptyBlock
  <2>. HIDE DEF NewDirBlock
  <2>6. QED
    BY <2>4, <2>5
<1>10. \A c \in DOMAIN x \ G : n[ino].indirect # c
  BY <1>4 DEF DiskOK, IndirectKinds
<1>11. \A c \in DOMAIN t \ G, k \in Rows : n[ino].direct[k] # c
  BY <1>4 DEF DiskOK, DirectKinds
<1>12. \A c \in DOMAIN b \cap G, j \in Columns : ~Gives(b, c, j)
  BY <1>2, <1>3, <1>5
<1>13. ASSUME NEW c \in DOMAIN b \ G, NEW j \in Columns
       PROVE  b[c][j].sfd_ino # ino
  <2>1. SUFFICES ASSUME b[c][j].sfd_ino = ino
                 PROVE  FALSE
    OBVIOUS
  <2>2. ~Gives(b, c, j)
    BY <2>1 DEF DiskOK, EntriesLead
  <2>3. b[c][j].sfd_ino # 0 /\ b[c][j].sfd_name \in Dots
    BY <1>2, <2>1, <2>2 DEF Gives
  <2>4. PICK d \in DirsIn(n) :
           /\ c = n[d].direct[1]
           /\ \/ j = 1 /\ b[c][j].sfd_ino = d
              \/ j = 2 /\ DotsOf(n, b, {ino}, d)
    BY <2>3, DotEntries
  <2>5. d # ino
    BY <1>5, <2>4
  <2>6. j = 2 /\ DotsOf(n, b, {ino}, d)
    BY <2>1, <2>4, <2>5
  <2>7. Holds(n, b, ino, d)
    BY <2>1, <2>4, <2>5, <2>6 DEF DotsOf
  <2>8. QED
    BY <1>3, <2>7 DEF Holds
<1>14. QED
  BY <1>2, <1>5, <1>6, <1>7, <1>8, <1>9, <1>10, <1>11, <1>12, <1>13 DEF Droppable

----------------------------------------------------------------------------
\* The parts of the commands.

\* The directory d counts one entry more.
SizeRaised(n, n2, d) ==
    /\ n2 \in [DOMAIN n -> InodeRecords] /\ DOMAIN n2 = DOMAIN n
    /\ \A i \in DOMAIN n :
          /\ n2[i].type = n[i].type /\ n2[i].indirect = n[i].indirect /\ n2[i].direct = n[i].direct
          /\ i # d => n2[i] = n[i]
    /\ n2[d].size = n[d].size + 1

LEMMA SizeRaisedPut ==
    ASSUME NEW n, n \in [DOMAIN n -> InodeRecords], NEW n2, NEW d \in DOMAIN n, SizeRaised(n, n2, d),
           NEW ino, ino \notin DOMAIN n, NEW r \in InodeRecords,
           NEW p, p = Put(n, ino, r), NEW p2, p2 = Put(n2, ino, r)
    PROVE  SizeRaised(p, p2, d)
<1>1. /\ n2 \in [DOMAIN n -> InodeRecords] /\ DOMAIN n2 = DOMAIN n
      /\ \A i \in DOMAIN n :
            /\ n2[i].type = n[i].type /\ n2[i].indirect = n[i].indirect /\ n2[i].direct = n[i].direct
            /\ i # d => n2[i] = n[i]
      /\ n2[d].size = n[d].size + 1
  BY DEF SizeRaised
<1>2. DOMAIN p = DOMAIN n \cup {ino} /\ p[ino] = r /\ \A i \in DOMAIN n : p[i] = n[i]
  BY DEF Put
<1>3. /\ DOMAIN p2 = DOMAIN n \cup {ino} /\ p2[ino] = r /\ \A i \in DOMAIN n : p2[i] = n2[i]
      /\ p2 \in [DOMAIN p2 -> InodeRecords]
  BY <1>1 DEF Put
<1>4. p2 \in [DOMAIN p -> InodeRecords] /\ DOMAIN p2 = DOMAIN p
  BY <1>2, <1>3
<1>5. \A i \in DOMAIN p :
          /\ p2[i].type = p[i].type /\ p2[i].indirect = p[i].indirect /\ p2[i].direct = p[i].direct
          /\ i # d => p2[i] = p[i]
  BY <1>1, <1>2, <1>3
<1>6. p2[d].size = p[d].size + 1
  BY <1>1, <1>2, <1>3
<1>7. QED
  BY <1>4, <1>5, <1>6 DEF SizeRaised

LEMMA EntrySetPut ==
    ASSUME NEW b, b \in [DOMAIN b -> [Columns -> EntryRecords]], NEW b2, NEW c \in DOMAIN b, NEW j, NEW e,
           EntrySet(b, b2, c, j, e),
           NEW first, first \notin DOMAIN b, NEW block \in [Columns -> EntryRecords],
           NEW p, p = Put(b, first, block), NEW p2, p2 = Put(b2, first, block)
    PROVE  EntrySet(p, p2, c, j, e)
<1>1. /\ b2 \in [DOMAIN b -> [Columns -> EntryRecords]] /\ DOMAIN b2 = DOMAIN b
      /\ \A f \in DOMAIN b : f # c => b2[f] = b[f]
      /\ \A f \in DOMAIN b, i \in Columns : b2[f][i] = IF f = c /\ i = j THEN e ELSE b[f][i]
  BY DEF EntrySet
<1>2. DOMAIN p = DOMAIN b \cup {first} /\ p[first] = block /\ \A f \in DOMAIN b : p[f] = b[f]
  BY DEF Put
<1>3. /\ DOMAIN p2 = DOMAIN b \cup {first} /\ p2[first] = block /\ \A f \in DOMAIN b : p2[f] = b2[f]
      /\ p2 \in [DOMAIN p2 -> [Columns -> EntryRecords]]
  BY <1>1 DEF Put
<1>4. p2 \in [DOMAIN p -> [Columns -> EntryRecords]] /\ DOMAIN p2 = DOMAIN p
  BY <1>2, <1>3
<1>5. \A f \in DOMAIN p : f # c => p2[f] = p[f]
  BY <1>1, <1>2, <1>3
<1>6. \A f \in DOMAIN p, i \in Columns : p2[f][i] = IF f = c /\ i = j THEN e ELSE p[f][i]
  BY <1>1, <1>2, <1>3
<1>7. QED
  BY <1>4, <1>5, <1>6 DEF EntrySet

\* The mounted volume.
Sound ==
    /\ DiskOK(inode, dirBlock, indirect, data, bitmap, {})
    /\ cwd \in DirsIn(inode)

\* A name that is found is in an entry of the working directory.
FoundAt(name, k, j) ==
    /\ k \in Rows /\ j \in Columns
    /\ Used(inode, dirBlock, cwd, k, j)
    /\ dirBlock[inode[cwd].direct[k]][j].sfd_name = name
    /\ Ino(name) = dirBlock[inode[cwd].direct[k]][j].sfd_ino

LEMMA FoundName ==
    ASSUME NEW name, Exists(name)
    PROVE  FoundAt(name, Slot(name)[1], Slot(name)[2])
<1> DEFINE k == Slot(name)[1]
           j == Slot(name)[2]
           S == Named(cwd, name)
           s == Slot(name)
<1>1. S \in SUBSET (Rows \X Columns) /\ S # {}
  BY DEF Named, Slots, Exists, Rows, Columns
<1>2. s \in S
  BY <1>1, FirstSlot DEF Slot
<1>3. s \in Rows \X Columns /\ inode[cwd].direct[s[1]] # 0
      /\ At(cwd, s).sfd_ino # SFS_NOINO /\ At(cwd, s).sfd_name = name
  BY <1>2 DEF Named, Slots, Rows, Columns
<1>4. k = s[1] /\ j = s[2] /\ Ino(name) = At(cwd, s).sfd_ino
  BY DEF Ino
<1>. HIDE DEF s
<1>5. QED
  BY <1>3, <1>4 DEF FoundAt, Used, At, SFS_NOINO

LEMMA NoSuchName ==
    ASSUME NEW name, ~Exists(name)
    PROVE  \A k \in Rows, j \in Columns :
               Used(inode, dirBlock, cwd, k, j) => dirBlock[inode[cwd].direct[k]][j].sfd_name # name
<1>1. ASSUME NEW k \in Rows, NEW j \in Columns, Used(inode, dirBlock, cwd, k, j),
             dirBlock[inode[cwd].direct[k]][j].sfd_name = name
      PROVE  FALSE
  <2> DEFINE s == <<k, j>>
  <2>1. s \in Rows \X Columns /\ s[1] = k /\ s[2] = j
    OBVIOUS
  <2>. HIDE DEF s
  <2>2. s \in Named(cwd, name)
    BY <1>1, <2>1 DEF Named, Slots, At, Used, SFS_NOINO, Rows, Columns
  <2>3. QED
    BY <2>2 DEF Exists
<1>2. QED
  BY <1>1

\* The directories of one disk have the same entries in the same places of another.
SlotsKept(n, b, n2, b2) ==
    \A d \in DirsIn(n), k \in Rows, j \in Columns :
        /\ Used(n2, b2, d, k, j) <=> Used(n, b, d, k, j)
        /\ Used(n, b, d, k, j) => b2[n2[d].direct[k]][j] = b[n[d].direct[k]][j]

\* At most the working directory has grown.
Widened(n, b) ==
    /\ \A i \in DOMAIN inode : i # cwd => n[i] = inode[i]
    /\ SlotsKept(inode, dirBlock, n, b)

\* Where a new entry goes: the directory as it is or grown by the block c.
PlacedAt(n, b, m, k, j, e, c) ==
    /\ DiskOK(n, b, indirect, data, m, {})
    /\ m = IF NeedsBlock THEN bitmap \cup {c} ELSE bitmap
    /\ DirsIn(n) = DirsIn(inode) /\ DOMAIN n = DOMAIN inode
    /\ k \in Rows /\ j \in Columns /\ n[cwd].direct[k] # 0
    /\ b[n[cwd].direct[k]][j].sfd_ino = 0
    /\ SizeRaised(n, InodesEntered(c), cwd)
    /\ EntrySet(b, DirBlocksEntered(e, c), n[cwd].direct[k], j, e)
    /\ \A name : ~Exists(name) =>
          \A k2 \in Rows, j2 \in Columns :
              Used(n, b, cwd, k2, j2) => b[n[cwd].direct[k2]][j2].sfd_name # name
    /\ Widened(n, b)

LEMMA PlacedInFreeSlot ==
    ASSUME Sound, ~NeedsBlock, NEW c, NEW e \in EntryRecords
    PROVE  \E k, j : PlacedAt(inode, dirBlock, bitmap, k, j, e, c)
<1> DEFINE s == FirstOf(FreeSlots(cwd))
           k == s[1]
           j == s[2]
           f == inode[cwd].direct[k]
<1>1. FreeSlots(cwd) \in SUBSET (Rows \X Columns) /\ FreeSlots(cwd) # {}
  BY DEF FreeSlots, Slots, NeedsBlock, Rows, Columns
<1>2. s \in FreeSlots(cwd)
  BY <1>1, FirstSlot
<1>3. k \in Rows /\ j \in Columns /\ f # 0 /\ dirBlock[f][j].sfd_ino = 0
  BY <1>2, Zenon DEF FreeSlots, Slots, At, SFS_NOINO, Rows, Columns
<1>4. /\ cwd \in DOMAIN inode /\ f \in DOMAIN dirBlock
      /\ inode \in [DOMAIN inode -> InodeRecords] /\ dirBlock \in [DOMAIN dirBlock -> [Columns -> EntryRecords]]
      /\ inode[cwd].size + 1 \in Nat
  BY <1>3 DEF Sound, DiskOK, Tables, DirectKinds, DirsIn, InodeRecords
<1>5. InodesEntered(c) = Resized(inode, cwd, inode[cwd].size + 1)
  BY DEF InodesEntered, Resized
<1>6. DirBlocksEntered(e, c) = EntryPut(dirBlock, f, j, e)
  BY DEF DirBlocksEntered, EntryPut
<1>. HIDE DEF k, j, f
<1>7. SizeRaised(inode, InodesEntered(c), cwd)
  BY <1>4, <1>5, ResizedAt DEF SizeRaised
<1>8. EntrySet(dirBlock, DirBlocksEntered(e, c), f, j, e)
  BY <1>3, <1>4, <1>6, EntryPutAt
<1>9. \A name : ~Exists(name) =>
          \A k2 \in Rows, j2 \in Columns :
              Used(inode, dirBlock, cwd, k2, j2) => dirBlock[inode[cwd].direct[k2]][j2].sfd_name # name
  BY NoSuchName
<1>10. Widened(inode, dirBlock)
  BY DEF Widened, SlotsKept
<1>11. PlacedAt(inode, dirBlock, bitmap, k, j, e, c)
  BY <1>3, <1>7, <1>8, <1>9, <1>10 DEF PlacedAt, Sound, f
<1>12. QED
  BY <1>11

LEMMA PlacedInNewBlock ==
    ASSUME Sound, NeedsBlock, ~DirectoryFull, NEW c \in Blocks \ bitmap, NEW e \in EntryRecords
    PROVE  \E n, b, k, j : PlacedAt(n, b, bitmap \cup {c}, k, j, e, c)
<1> DEFINE k == Min(Holes)
           n == GrownInodes(inode, cwd, k, c)
           b == Put(dirBlock, c, NewDirBlock(<< >>))
           b2 == Put(dirBlock, c, NewDirBlock(<<e>>))
<1>1. k \in Rows /\ inode[cwd].direct[k] = 0
  <2>1. Holes \in SUBSET Nat /\ Holes # {}
    BY SfsAssumption DEF Holes, DirectoryFull
  <2>2. QED
    BY <2>1, MinOf DEF Holes, Rows
<1>. HIDE DEF k
<1>2. /\ cwd \in DirsIn(inode) /\ cwd \in DOMAIN inode
      /\ DiskOK(inode, dirBlock, indirect, data, bitmap, {})
      /\ inode \in [DOMAIN inode -> InodeRecords] /\ dirBlock \in [DOMAIN dirBlock -> [Columns -> EntryRecords]]
      /\ inode[cwd].size \in Nat
  BY DEF Sound, DiskOK, Tables, DirsIn, InodeRecords
<1>3. DiskOK(n, b, indirect, data, bitmap \cup {c}, {})
  BY <1>1, <1>2, GrowOK
<1>4. /\ n \in [DOMAIN inode -> InodeRecords] /\ DOMAIN n = DOMAIN inode
      /\ \A i \in DOMAIN inode : i # cwd => n[i] = inode[i]
      /\ \A i \in DOMAIN inode :
            /\ n[i].type = inode[i].type /\ n[i].size = inode[i].size /\ n[i].indirect = inode[i].indirect
            /\ \A l \in Rows : n[i].direct[l] = IF i = cwd /\ l = k THEN c ELSE inode[i].direct[l]
      /\ DirsIn(n) = DirsIn(inode)
  BY <1>1, <1>2, GrownInodesAt
<1>5. c \notin DOMAIN dirBlock /\ c # 0
  <2>1. DiskFacts(inode, dirBlock, indirect, data, bitmap)
    BY <1>2, OnDisk
  <2>2. QED
    BY <2>1 DEF DiskFacts
<1>6. SizeRaised(n, InodesEntered(c), cwd)
  <2>1. InodesEntered(c) = Resized(n, cwd, n[cwd].size + 1)
    <3> DEFINE r == inode[cwd]
               q == [r.direct EXCEPT ![k] = c]
               r1 == [r EXCEPT !.direct = q]
               r2 == [r EXCEPT !.size = r.size + 1, !.direct = q]
    <3>1. n = [inode EXCEPT ![cwd] = r1]
      BY DEF GrownInodes
    <3>2. InodesEntered(c) = [inode EXCEPT ![cwd] = r2]
      BY DEF InodesEntered, k
    <3>3. n[cwd] = r1 /\ r1.size = r.size
      <4>1. r \in InodeRecords
        BY <1>2
      <4>2. n[cwd] = r1
        BY <1>2, <3>1
      <4>. HIDE DEF q, r, n
      <4>3. QED
        BY <4>1, <4>2 DEF InodeRecords
    <3>4. [r1 EXCEPT !.size = r.size + 1] = r2
      <4>1. r \in InodeRecords
        BY <1>2
      <4>. HIDE DEF q, r
      <4>2. QED
        BY <4>1 DEF InodeRecords
    <3>5. Resized(n, cwd, n[cwd].size + 1) = [n EXCEPT ![cwd] = r2]
      BY <3>3, <3>4 DEF Resized
    <3>. HIDE DEF r1, r2, n
    <3>6. [n EXCEPT ![cwd] = r2] = [inode EXCEPT ![cwd] = r2]
      BY <3>1, <1>2
    <3>7. QED
      BY <3>2, <3>5, <3>6
  <2>2. n \in [DOMAIN n -> InodeRecords] /\ cwd \in DOMAIN n /\ n[cwd].size + 1 \in Nat
    BY <1>2, <1>4
  <2>. HIDE DEF n
  <2>3. QED
    BY <2>1, <2>2, ResizedAt DEF SizeRaised
<1>7. 1 \in Columns /\ n[cwd].direct[k] = c
  BY <1>1, <1>2, <1>4, SfsAssumption DEF Columns
<1>8. /\ DOMAIN b = DOMAIN dirBlock \cup {c}
      /\ b[c] = NewDirBlock(<< >>) /\ \A f \in DOMAIN dirBlock : b[f] = dirBlock[f]
  BY <1>2, <1>5 DEF Put
<1>9. EntrySet(b, b2, c, 1, e)
  <2>1. \A i \in Columns : /\ NewDirBlock(<<e>>)[i] = IF i = 1 THEN e ELSE NewDirBlock(<< >>)[i]
                           /\ NewDirBlock(<<e>>)[i] \in EntryRecords
    <3>1. Len(<<e>>) = 1 /\ <<e>>[1] = e
      OBVIOUS
    <3>2. \A i \in Columns : i \in Nat \ {0}
      BY SfsAssumption DEF Columns
    <3>3. \A i \in Columns : NewDirBlock(<<e>>)[i] = IF i = 1 THEN e ELSE FreeEntry
      BY <3>1, <3>2 DEF NewDirBlock, Columns
    <3>4. QED
      BY <3>3, EmptyBlock
  <2>2. NewDirBlock(<<e>>) \in [Columns -> EntryRecords]
    BY <2>1 DEF NewDirBlock, Columns
  <2>3. /\ DOMAIN b2 = DOMAIN dirBlock \cup {c} /\ b2 \in [DOMAIN b2 -> [Columns -> EntryRecords]]
        /\ b2[c] = NewDirBlock(<<e>>) /\ \A f \in DOMAIN dirBlock : b2[f] = dirBlock[f]
    BY <1>2, <1>5, <2>2 DEF Put
  <2> DEFINE e0 == NewDirBlock(<< >>)
             e1 == NewDirBlock(<<e>>)
  <2>4. \A i \in Columns : e1[i] = IF i = 1 THEN e ELSE e0[i]
    BY <2>1
  <2>5. b2[c] = e1 /\ b[c] = e0
    BY <1>8, <2>3
  <2>. HIDE DEF b, b2, e0, e1
  <2>6. b2 \in [DOMAIN b -> [Columns -> EntryRecords]] /\ DOMAIN b2 = DOMAIN b
    BY <1>8, <2>3
  <2>7. \A f \in DOMAIN b : f # c => b2[f] = b[f]
    BY <1>8, <2>3
  <2>8. \A f \in DOMAIN b, i \in Columns : b2[f][i] = IF f = c /\ i = 1 THEN e ELSE b[f][i]
    BY <2>4, <2>5, <2>7
  <2>9. QED
    BY <2>6, <2>7, <2>8 DEF EntrySet
<1>10. DirBlocksEntered(e, c) = b2
  BY DEF DirBlocksEntered
<1>11. ASSUME NEW name, ~Exists(name), NEW k2 \in Rows, NEW j2 \in Columns, Used(n, b, cwd, k2, j2)
       PROVE  b[n[cwd].direct[k2]][j2].sfd_name # name
  <2>1. k2 # k
    BY ZenonT(40), <1>7, <1>8, <1>11, EmptyBlock DEF Used
  <2>2. n[cwd].direct[k2] = inode[cwd].direct[k2]
    BY <1>2, <1>4, <2>1
  <2>3. n[cwd].direct[k2] \in DOMAIN dirBlock
    BY <1>2, <1>11, <2>2 DEF DiskOK, DirectKinds, Used
  <2>4. Used(inode, dirBlock, cwd, k2, j2) /\ b[n[cwd].direct[k2]] = dirBlock[inode[cwd].direct[k2]]
    BY <1>8, <1>11, <2>2, <2>3 DEF Used
  <2>5. QED
    BY <1>11, <2>4, NoSuchName
<1>12. b[n[cwd].direct[k]][1].sfd_ino = 0
  BY <1>7, <1>8, EmptyBlock
<1>13. Widened(n, b)
  <2>. HIDE DEF n, b, b2
  <2>1. ASSUME NEW d \in DirsIn(inode), NEW k2 \in Rows, NEW j2 \in Columns
        PROVE  /\ Used(n, b, d, k2, j2) <=> Used(inode, dirBlock, d, k2, j2)
               /\ Used(inode, dirBlock, d, k2, j2) =>
                     b[n[d].direct[k2]][j2] = dirBlock[inode[d].direct[k2]][j2]
    <3>1. d \in DOMAIN inode
      BY DEF DirsIn
    <3>2. CASE d = cwd /\ k2 = k
      <4>1. n[d].direct[k2] = c /\ b[c][j2].sfd_ino = 0
        BY <1>7, <1>8, <3>2, EmptyBlock
      <4>2. QED
        BY <1>1, <3>2, <4>1 DEF Used
    <3>3. CASE ~(d = cwd /\ k2 = k)
      <4>1. n[d].direct[k2] = inode[d].direct[k2]
        BY <1>4, <3>1, <3>3
      <4>2. inode[d].direct[k2] # 0 => inode[d].direct[k2] \in DOMAIN dirBlock
        BY <1>2 DEF DiskOK, DirectKinds
      <4>3. QED
        BY <1>8, <4>1, <4>2 DEF Used
    <3>4. QED
      BY <3>2, <3>3
  <2>2. QED
    BY <1>4, <2>1 DEF Widened, SlotsKept
<1>14. PlacedAt(n, b, bitmap \cup {c}, k, 1, e, c)
  <2>. HIDE DEF n, b, b2
  <2>1. QED
    BY <1>1, <1>3, <1>4, <1>5, <1>6, <1>7, <1>9, <1>10, <1>11, <1>12, <1>13 DEF PlacedAt
<1>15. QED
  BY <1>14

----------------------------------------------------------------------------
\* touch and mkdir.

LEMMA EditedWhen ==
    ASSUME NEW n, NEW b, NEW n2, NEW b2, NEW d \in DirsIn(n), NEW k \in Rows, NEW j \in Columns, NEW e,
           n[d].direct[k] # 0,
           SizeRaised(n, n2, d), EntrySet(b, b2, n[d].direct[k], j, e)
    PROVE  Edited(n, b, n2, b2, d, k, j, e) /\ n2[d].size = n[d].size + 1
BY DEF Edited, SizeRaised, EntrySet

\* The lowest free blocks, taken for a command.
LEMMA Taken ==
    ASSUME NEW n \in {1, 2}, Room(n), NEW s, s = Lowest(Need(n))
    PROVE  /\ Need(n) \in Nat /\ Need(n) = IF NeedsBlock THEN n + 1 ELSE n
           /\ s \in Seq(Blocks \ bitmap) /\ Len(s) = Need(n) /\ DOMAIN s = 1 .. Need(n)
           /\ \A k, l \in 1 .. Need(n) : s[k] = s[l] => k = l
           /\ ToSet(s) = {s[k] : k \in 1 .. Need(n)}
           /\ Last(s) = s[Need(n)]
<1>1. Need(n) \in Nat /\ Need(n) = IF NeedsBlock THEN n + 1 ELSE n
  BY DEF Need
<1>2. Need(n) <= Cardinality(Free)
  <2>1. IsFiniteSet(Free)
    BY VolumeFacts, FS_Subset DEF Free
  <2>2. QED
    BY <1>1, <2>1, FS_CardinalityType DEF Room
<1>3. s \in [1 .. Need(n) -> Free] /\ \A k, l \in 1 .. Need(n) : s[k] = s[l] => k = l
  BY <1>1, <1>2, LowestFree
<1>4. s \in Seq(Blocks \ bitmap) /\ Len(s) = Need(n) /\ DOMAIN s = 1 .. Need(n)
  BY <1>1, <1>3 DEF Free
<1>5. QED
  BY <1>1, <1>3, <1>4 DEF ToSet, Last

\* The map with the block a directory grew by.
GrownMap(c) == IF NeedsBlock THEN bitmap \cup {c} ELSE bitmap

\* A file is made and entered in the working directory.
LEMMA FileEntered ==
    ASSUME Sound, NEW path \in Names, ~Exists(path), ~DirectoryFull,
           NEW ino \in Blocks \ bitmap, NEW c, NeedsBlock => c \in Blocks \ bitmap /\ c # ino,
           NEW r, NEW X, NEW T, NEW x2, NEW t2, Stores(indirect, data, ino, r, X, T, x2, t2),
           X \cup T \subseteq Blocks \ (GrownMap(c) \cup {ino}),
           NEW n2, n2 = Put(InodesEntered(c), ino, r),
           NEW m2, m2 = GrownMap(c) \cup {ino} \cup X \cup T
    PROVE  /\ DiskOK(n2, DirBlocksEntered(Entry(ino, path), c), x2, t2, m2, {})
           /\ cwd \in DirsIn(n2)
<1> DEFINE e == Entry(ino, path)
           m == GrownMap(c)
           b2 == DirBlocksEntered(e, c)
<1>1. e \in EntryRecords
  BY DEF Entry, EntryRecords, Paths
<1>2. PICK n, b, k, j : PlacedAt(n, b, m, k, j, e, c)
  <2>1. CASE NeedsBlock
    BY <1>1, <2>1, PlacedInNewBlock DEF GrownMap
  <2>2. CASE ~NeedsBlock
    BY <1>1, <2>2, PlacedInFreeSlot DEF GrownMap
  <2>3. QED
    BY <2>1, <2>2
<1>3. /\ DiskOK(n, b, indirect, data, m, {})
      /\ DirsIn(n) = DirsIn(inode) /\ DOMAIN n = DOMAIN inode
      /\ k \in Rows /\ j \in Columns /\ n[cwd].direct[k] # 0
      /\ b[n[cwd].direct[k]][j].sfd_ino = 0
      /\ SizeRaised(n, InodesEntered(c), cwd)
      /\ EntrySet(b, b2, n[cwd].direct[k], j, e)
      /\ \A k2 \in Rows, j2 \in Columns :
              Used(n, b, cwd, k2, j2) => b[n[cwd].direct[k2]][j2].sfd_name # path
  BY <1>2 DEF PlacedAt
<1>. HIDE DEF b2
<1> DEFINE n1 == Put(n, ino, r)
<1>4. ino \in Blocks \ m /\ {ino} \cup X \cup T \subseteq Blocks \ m /\ ino \notin X \cup T
  BY DEF GrownMap
<1>. HIDE DEF m
<1>5. DiskOK(n1, b, x2, t2, m2, {ino})
  <2> DEFINE O2 == {ino}
  <2>1. O2 = {} \cup {ino} /\ m2 = m \cup {ino} \cup X \cup T
    BY DEF m
  <2>. HIDE DEF O2
  <2>2. DiskOK(n1, b, x2, t2, m2, O2)
    BY <1>3, <1>4, <2>1, StoreOK
  <2>3. QED
    BY <2>2 DEF O2
<1>6. /\ ino \notin DOMAIN n /\ ino # SFS_ROOT_LOCATION
      /\ n \in [DOMAIN n -> InodeRecords] /\ cwd \in DirsIn(n) /\ cwd \in DOMAIN n
  <2>1. DiskFacts(n, b, indirect, data, m)
    BY <1>3, OnDisk
  <2>2. QED
    BY <1>3, <1>4, <2>1 DEF DiskFacts, DiskOK, Tables, Kinds, Sound, DirsIn
<1>7. r \in InodeRecords /\ r.type = "file"
  BY DEF Stores
<1>8. /\ DOMAIN n1 = DOMAIN n \cup {ino} /\ n1[ino] = r /\ \A i \in DOMAIN n : n1[i] = n[i]
  BY <1>6, <1>7 DEF Put
<1>9. SizeRaised(n1, n2, cwd)
  BY <1>3, <1>6, <1>7, SizeRaisedPut
<1>. HIDE DEF n1
<1>10. cwd \in DirsIn(n1) /\ n1[cwd] = n[cwd] /\ ino \notin DirsIn(n1) /\ ino \in DOMAIN n1
  BY <1>6, <1>7, <1>8 DEF DirsIn
<1>11. Edited(n1, b, n2, b2, cwd, k, j, e) /\ n2[cwd].size = n1[cwd].size + 1
  BY <1>3, <1>9, <1>10, EditedWhen
<1>12. \A k2 \in Rows, j2 \in Columns :
              Used(n1, b, cwd, k2, j2) => b[n1[cwd].direct[k2]][j2].sfd_name # path
  BY <1>3, <1>10 DEF Used
<1>13. b[n1[cwd].direct[k]][j].sfd_ino = 0
  BY <1>3, <1>10
<1>14. DiskOK(n2, b2, x2, t2, m2, {})
  <2>1. Enters(n1, b, n2, b2, cwd, k, j, ino, path)
    BY <1>6, <1>10, <1>11, <1>12, <1>13 DEF Enters
  <2>2. QED
    BY <1>5, <2>1, EnterOK
<1>15. cwd \in DirsIn(n2)
  BY <1>9, <1>10 DEF SizeRaised, DirsIn
<1>16. QED
  BY <1>14, <1>15 DEF b2

\* A directory is made and entered in the working directory.
LEMMA DirEntered ==
    ASSUME Sound, NEW path \in Names, ~Exists(path), ~DirectoryFull,
           NEW ino \in Blocks \ bitmap, NEW first \in Blocks \ bitmap, ino # first,
           NEW c, NeedsBlock => c \in Blocks \ bitmap /\ c # ino /\ c # first,
           NEW r, r = NewDir(first), NEW block, block = DotBlock(ino, cwd),
           NEW n2, n2 = Put(InodesEntered(c), ino, r),
           NEW b2, b2 = Put(DirBlocksEntered(Entry(ino, path), c), first, block),
           NEW m2, m2 = GrownMap(c) \cup {ino, first}
    PROVE  DiskOK(n2, b2, indirect, data, m2, {}) /\ cwd \in DirsIn(n2)
<1> DEFINE e == Entry(ino, path)
           m == GrownMap(c)
<1>1. e \in EntryRecords /\ ino \in Blocks \ m /\ first \in Blocks \ m
  BY DEF Entry, EntryRecords, Paths, GrownMap
<1>2. PICK n, b, k, j : PlacedAt(n, b, m, k, j, e, c)
  <2>1. CASE NeedsBlock
    BY <1>1, <2>1, PlacedInNewBlock DEF GrownMap
  <2>2. CASE ~NeedsBlock
    BY <1>1, <2>2, PlacedInFreeSlot DEF GrownMap
  <2>3. QED
    BY <2>1, <2>2
<1>3. /\ DiskOK(n, b, indirect, data, m, {})
      /\ DirsIn(n) = DirsIn(inode) /\ DOMAIN n = DOMAIN inode
      /\ k \in Rows /\ j \in Columns /\ n[cwd].direct[k] # 0
      /\ b[n[cwd].direct[k]][j].sfd_ino = 0
      /\ SizeRaised(n, InodesEntered(c), cwd)
      /\ EntrySet(b, DirBlocksEntered(e, c), n[cwd].direct[k], j, e)
      /\ \A k2 \in Rows, j2 \in Columns :
              Used(n, b, cwd, k2, j2) => b[n[cwd].direct[k2]][j2].sfd_name # path
  BY <1>2 DEF PlacedAt
<1>4. cwd \in DirsIn(n) /\ cwd \in DOMAIN n
  BY <1>3 DEF Sound, DirsIn
<1> DEFINE n1 == Put(n, ino, r)
           b1 == Put(b, first, block)
           O2 == {ino}
<1>5. DiskOK(n1, b1, indirect, data, m2, {ino}) /\ b1[n1[ino].direct[1]][2].sfd_ino = cwd
  <2>1. MakesDir(n, b, m, {}, cwd, ino, first, n1, b1, m2, O2)
    BY <1>1, <1>4 DEF MakesDir
  <2>. HIDE DEF n1, b1, O2
  <2>2. DiskOK(n1, b1, indirect, data, m2, O2) /\ b1[n1[ino].direct[1]][2].sfd_ino = cwd
    BY <1>3, <2>1, MakeDirOK
  <2>3. QED
    BY <2>2 DEF O2
<1>6. /\ ino \notin DOMAIN n /\ ino # SFS_ROOT_LOCATION /\ first \notin DOMAIN b
      /\ n \in [DOMAIN n -> InodeRecords] /\ b \in [DOMAIN b -> [Columns -> EntryRecords]]
      /\ n[cwd].direct[k] \in DOMAIN b
  <2>1. DiskFacts(n, b, indirect, data, m)
    BY <1>3, OnDisk
  <2>2. QED
    BY <1>1, <1>3, <1>4, <2>1 DEF DiskFacts, DiskOK, Tables, Kinds, DirectKinds, DirsIn
<1>7. r \in InodeRecords /\ block \in [Columns -> EntryRecords]
  <2>1. n1 \in [DOMAIN n1 -> InodeRecords] /\ b1 \in [DOMAIN b1 -> [Columns -> EntryRecords]]
    BY <1>5 DEF DiskOK, Tables
  <2>2. ino \in DOMAIN n1 /\ n1[ino] = r /\ first \in DOMAIN b1 /\ b1[first] = block
    BY DEF Put
  <2>. HIDE DEF n1, b1
  <2>3. QED
    BY <2>1, <2>2
<1>8. /\ DOMAIN n1 = DOMAIN n \cup {ino} /\ n1[ino] = r /\ \A i \in DOMAIN n : n1[i] = n[i]
      /\ DOMAIN b1 = DOMAIN b \cup {first} /\ b1[first] = block /\ \A f \in DOMAIN b : b1[f] = b[f]
  BY <1>6 DEF Put
<1>9. SizeRaised(n1, n2, cwd)
  BY <1>3, <1>4, <1>6, <1>7, SizeRaisedPut
<1>10. EntrySet(b1, b2, n[cwd].direct[k], j, e)
  BY <1>3, <1>6, <1>7, EntrySetPut
<1>. HIDE DEF n1, b1
<1>11. cwd \in DirsIn(n1) /\ n1[cwd] = n[cwd] /\ ino \in DOMAIN n1
  BY <1>4, <1>6, <1>8 DEF DirsIn
<1>12. Edited(n1, b1, n2, b2, cwd, k, j, e) /\ n2[cwd].size = n1[cwd].size + 1
  BY <1>3, <1>9, <1>10, <1>11, EditedWhen
<1>13. \A k2 \in Rows, j2 \in Columns :
            Used(n1, b1, cwd, k2, j2) => b1[n1[cwd].direct[k2]][j2].sfd_name # path
  <2>1. \A k2 \in Rows : n[cwd].direct[k2] # 0 => n[cwd].direct[k2] \in DOMAIN b
    BY <1>3, <1>4 DEF DiskOK, DirectKinds
  <2>2. QED
    BY SMTT(30), <1>3, <1>8, <1>11, <2>1 DEF Used
<1>14. b1[n1[cwd].direct[k]][j].sfd_ino = 0
  BY <1>3, <1>6, <1>8, <1>11
<1>15. DiskOK(n2, b2, indirect, data, m2, {})
  <2>1. Enters(n1, b1, n2, b2, cwd, k, j, ino, path)
    BY <1>5, <1>6, <1>11, <1>12, <1>13, <1>14 DEF Enters
  <2>2. QED
    BY <1>5, <2>1, EnterOK
<1>16. cwd \in DirsIn(n2)
  BY <1>9, <1>11 DEF SizeRaised, DirsIn
<1>17. QED
  BY <1>15, <1>16

\* The lowest free blocks, for a file and for a directory.
LEMMA BlocksForFile ==
    ASSUME Room(1), NEW s, s = Lowest(Need(1)), NEW a, a = s[1], NEW z, z = Last(s)
    PROVE  /\ a \in Blocks \ bitmap /\ z \in Blocks \ bitmap /\ (NeedsBlock => a # z)
           /\ bitmap \cup ToSet(s) = GrownMap(a) \cup {z}
           /\ bitmap \cup ToSet(s) = GrownMap(z) \cup {a}
<1>1. /\ Need(1) = IF NeedsBlock THEN 2 ELSE 1
      /\ s \in Seq(Blocks \ bitmap) /\ Len(s) = Need(1)
      /\ \A k, l \in 1 .. Need(1) : s[k] = s[l] => k = l
      /\ ToSet(s) = {s[k] : k \in 1 .. Need(1)}
      /\ z = s[Need(1)]
  BY Taken
<1>2. CASE NeedsBlock
  <2>1. 1 .. Need(1) = {1, 2}
    BY <1>1, <1>2
  <2>2. ToSet(s) = {a, z} /\ a # z
    BY <1>1, <1>2, <2>1
  <2>3. {a, z} \subseteq Blocks \ bitmap
    BY <1>1, <1>2
  <2>4. QED
    BY <1>2, <2>2, <2>3 DEF GrownMap
<1>3. CASE ~NeedsBlock
  <2>1. 1 .. Need(1) = {1}
    BY <1>1, <1>3
  <2>2. ToSet(s) = {a} /\ a = z /\ a \in Blocks \ bitmap
    BY <1>1, <1>3, <2>1
  <2>3. QED
    BY <1>3, <2>2 DEF GrownMap
<1>4. QED
  BY <1>2, <1>3

LEMMA BlocksForDir ==
    ASSUME Room(2), NEW s, s = Lowest(Need(2)), NEW c, c = s[1],
           NEW ino, ino = s[Need(1)], NEW first, first = s[Need(2)]
    PROVE  /\ ino \in Blocks \ bitmap /\ first \in Blocks \ bitmap /\ ino # first /\ c \in Blocks \ bitmap
           /\ NeedsBlock => c # ino /\ c # first
           /\ bitmap \cup ToSet(s) = GrownMap(c) \cup {ino, first}
<1>1. /\ Need(2) \in Nat /\ Need(2) = IF NeedsBlock THEN 3 ELSE 2
      /\ s \in Seq(Blocks \ bitmap) /\ Len(s) = Need(2)
      /\ \A k, l \in 1 .. Need(2) : s[k] = s[l] => k = l
      /\ ToSet(s) = {s[k] : k \in 1 .. Need(2)}
  BY Taken
<1>2. Need(1) = IF NeedsBlock THEN 2 ELSE 1
  BY DEF Need
<1>3. CASE NeedsBlock
  <2>1. 1 .. Need(2) = {1, 2, 3}
    BY <1>1, <1>3
  <2>2. ToSet(s) = {c, ino, first} /\ c # ino /\ ino # first /\ c # first
    BY <1>1, <1>2, <1>3, <2>1
  <2>3. {c, ino, first} \subseteq Blocks \ bitmap
    BY <1>1, <1>2, <1>3
  <2>4. QED
    BY <1>3, <2>2, <2>3 DEF GrownMap
<1>4. CASE ~NeedsBlock
  <2>1. 1 .. Need(2) = {1, 2}
    BY <1>1, <1>4
  <2>2. ToSet(s) = {ino, first} /\ ino # first /\ c = ino
    BY <1>1, <1>2, <1>4, <2>1
  <2>3. {ino, first} \subseteq Blocks \ bitmap
    BY <1>1, <1>2, <1>4
  <2>4. QED
    BY <1>4, <2>2, <2>3 DEF GrownMap
<1>5. QED
  BY <1>3, <1>4

\* An empty file.
LEMMA NewFileIs ==
    ASSUME NEW r, r = NewFile
    PROVE  /\ r \in InodeRecords /\ r.type = "file" /\ r.size = 0 /\ r.indirect = 0
           /\ \A k \in Rows : r.direct[k] = 0
<1> DEFINE D == [i \in 1 .. SFS_NDIRECT |-> IF i <= Len(<< >>) THEN << >>[i] ELSE 0]
<1>1. r = [type |-> "file", size |-> 0, indirect |-> 0, direct |-> D]
  BY DEF NewFile, Inode
<1>2. \A k \in Rows : D[k] = 0
  <2>1. Len(<< >>) = 0 /\ \A k \in Rows : ~(k <= 0)
    BY SfsAssumption DEF Rows
  <2>2. QED
    BY <2>1 DEF Rows
<1>3. D \in [1 .. SFS_NDIRECT -> Blocks]
  BY <1>2, VolumeFacts DEF Rows
<1>. HIDE DEF D
<1>4. QED
  BY <1>1, <1>2, <1>3, VolumeFacts DEF InodeRecords

LEMMA NothingRead ==
    ASSUME NEW r, r = NewFile, NEW n, NEW i, n[i] = r, NEW x, NEW t
    PROVE  ContentIn(n, x, t, i) = [size |-> 0, chunks |-> << >>]
<1> DEFINE u == UpToMissing(r.direct)
           empty == [k \in 1 .. 0 |-> t[u[k]]]
<1>1. SFS_NDIRECT \in Nat /\ r.direct \in [1 .. SFS_NDIRECT -> Blocks]
  BY NewFileIs, SfsAssumption DEF InodeRecords
<1>2. Len(u) \in 0 .. SFS_NDIRECT /\ \A k \in 1 .. Len(u) : u[k] = r.direct[k] /\ r.direct[k] # 0
  BY <1>1, UpToMissingIs
<1>3. Len(u) = 0
  <2>1. ~(1 \in 1 .. Len(u))
    BY NewFileIs, <1>2, SfsAssumption DEF Rows
  <2>2. QED
    BY <1>2, <2>1
<1>4. BlocksIn(n, x, i) = u
  BY NewFileIs DEF BlocksIn
<1>5. ChunksOf(0) \in Nat /\ SFS_BLOCKSIZE \in Nat
  BY SfsAssumption, RoundedUp DEF ChunksOf
<1>. HIDE DEF u
<1>6. Min({0, Len(u) * SFS_BLOCKSIZE}) = 0 /\ Min({ChunksOf(0), Len(u)}) = 0
  <2> DEFINE z == Len(u) * SFS_BLOCKSIZE
  <2>1. z = 0
    BY <1>3, <1>5
  <2>. HIDE DEF z
  <2>2. {0, z} \in SUBSET Nat /\ {ChunksOf(0), Len(u)} \in SUBSET Nat
    BY <1>3, <1>5, <2>1
  <2>3. Min({0, z}) \in {0, z}
    BY <2>2, MinOf
  <2>4. Min({ChunksOf(0), Len(u)}) \in Nat /\ Min({ChunksOf(0), Len(u)}) <= 0
    BY <1>3, <2>2, MinOf
  <2>5. QED
    BY <2>1, <2>3, <2>4 DEF z
<1>7. ContentIn(n, x, t, i) = [size |-> 0, chunks |-> empty]
  BY NewFileIs, <1>4, <1>6 DEF ContentIn, ContentOf
<1>8. empty = << >>
  OBVIOUS
<1>. HIDE DEF empty
<1>9. QED
  BY <1>7, <1>8

LEMMA TouchOK ==
    ASSUME Sound, NEW path \in Names, ~Exists(path), Room(1),
           NEW s, s = Lowest(Need(1)),
           NEW n2, n2 = Put(InodesEntered(Last(s)), s[1], NewFile)
    PROVE  /\ DiskOK(n2, DirBlocksEntered(Entry(s[1], path), Last(s)), indirect, data, bitmap \cup ToSet(s), {})
           /\ cwd \in DirsIn(n2)
<1> DEFINE ino == s[1]
           c == Last(s)
           m == GrownMap(c)
           r == NewFile
<1>2. /\ ino \in Blocks \ bitmap /\ (NeedsBlock => c \in Blocks \ bitmap /\ c # ino)
      /\ bitmap \cup ToSet(s) = m \cup {ino}
  BY BlocksForFile
<1>. HIDE DEF ino, c, m
<1>3. /\ r \in InodeRecords /\ r.type = "file" /\ r.size = 0 /\ r.indirect = 0
      /\ \A k \in Rows : r.direct[k] = 0
  BY NewFileIs
<1>4. ASSUME NEW n, n[ino] = r
      PROVE  Holding(ContentIn(n, indirect, data, ino), r.size)
  BY <1>3, <1>4, NothingRead DEF Holding, FromHost
<1>. HIDE DEF r
<1>5. /\ indirect \in [DOMAIN indirect -> [IndirectRows -> Blocks]]
  BY DEF Sound, DiskOK, Tables
<1> DEFINE none == {}
<1>6. Stores(indirect, data, ino, r, none, none, indirect, data)
  BY <1>3, <1>4, <1>5 DEF Stores
<1>7. ~DirectoryFull
  BY DEF Room
<1>8. n2 = Put(InodesEntered(c), ino, r)
  BY DEF c, ino, r
<1>9. m = GrownMap(c)
  BY DEF m
<1>10. none \cup none \subseteq Blocks \ (GrownMap(c) \cup {ino})
  OBVIOUS
<1> DEFINE m2 == bitmap \cup ToSet(s)
<1>11. m2 = GrownMap(c) \cup {ino} \cup none \cup none
  BY <1>2, <1>9
<1>. HIDE DEF none, m2
<1>12. DiskOK(n2, DirBlocksEntered(Entry(ino, path), c), indirect, data, m2, {}) /\ cwd \in DirsIn(n2)
  BY <1>2, <1>6, <1>7, <1>8, <1>9, <1>10, <1>11, FileEntered
<1>13. QED
  BY <1>12 DEF ino, c, m2

LEMMA MkdirOK ==
    ASSUME Sound, NEW path \in Names, ~Exists(path), Room(2),
           NEW s, s = Lowest(Need(2)), NEW ino, ino = s[Need(1)], NEW first, first = s[Need(2)],
           NEW n2, n2 = Put(InodesEntered(s[1]), ino, NewDir(first)),
           NEW b2, b2 = Put(DirBlocksEntered(Entry(ino, path), s[1]), first, DotBlock(ino, cwd))
    PROVE  /\ DiskOK(n2, b2, indirect, data, bitmap \cup ToSet(s), {})
           /\ cwd \in DirsIn(n2)
<1> DEFINE c == s[1]
           m == GrownMap(c)
           m2 == bitmap \cup ToSet(s)
<1>3. /\ ino \in Blocks \ bitmap /\ first \in Blocks \ bitmap /\ ino # first
      /\ NeedsBlock => c \in Blocks \ bitmap /\ c # ino /\ c # first
      /\ m2 = m \cup {ino, first}
  BY BlocksForDir
<1>4. /\ m2 = GrownMap(c) \cup {ino, first}
      /\ ~DirectoryFull
      /\ n2 = Put(InodesEntered(c), ino, NewDir(first))
      /\ b2 = Put(DirBlocksEntered(Entry(ino, path), c), first, DotBlock(ino, cwd))
  BY <1>3 DEF Room
<1>. HIDE DEF c, m, m2
<1>5. DiskOK(n2, b2, indirect, data, m2, {}) /\ cwd \in DirsIn(n2)
  BY <1>3, <1>4, DirEntered
<1>6. QED
  BY <1>5 DEF m2

----------------------------------------------------------------------------
\* cpin.

MostBlocks == SFS_NDIRECT + SFS_DBPERIDB

LEMMA WantedIs ==
    ASSUME NEW size \in Nat
    PROVE  Wanted(size) \in Nat /\ Wanted(size) <= MostBlocks + 1
<1> DEFINE S == {size \div SFS_BLOCKSIZE + 1, MostBlocks}
           n == Min(S)
<1>1. S \in SUBSET Nat /\ MostBlocks \in Nat
  <2>1. size \div SFS_BLOCKSIZE \in Nat /\ MostBlocks \in Nat
    BY SfsAssumption DEF MostBlocks
  <2>2. QED
    BY <2>1
<1>2. n \in Nat /\ n <= MostBlocks
  BY <1>1, MinOf
<1>3. ReadBlocks(size) = n
  BY DEF ReadBlocks, MostBlocks
<1>. HIDE DEF n, S
<1>4. QED
  BY <1>1, <1>2, <1>3 DEF Wanted

\* The blocks found, by their use.
SplitAs(s, d, i, u) ==
    /\ d \in Seq(Blocks) /\ Len(d) = (IF Len(s) <= SFS_NDIRECT THEN Len(s) ELSE SFS_NDIRECT)
    /\ \A k \in 1 .. Len(d) : d[k] = s[k]
    /\ i \in Seq(Blocks) /\ Len(i) <= SFS_DBPERIDB
    /\ Len(i) = (IF Len(s) <= SFS_NDIRECT THEN 0 ELSE Len(s) - SFS_NDIRECT - 1)
    /\ \A k \in 1 .. Len(i) : i[k] = s[SFS_NDIRECT + 1 + k]
    /\ u = d \o i /\ u \in Seq(Blocks) /\ Len(u) = Len(d) + Len(i)
    /\ \A k \in 1 .. Len(d) : u[k] = d[k]
    /\ \A k \in Len(d) + 1 .. Len(u) : u[k] = i[k - Len(d)]

LEMMA Splits ==
    ASSUME NEW s \in Seq(Blocks), Len(s) <= MostBlocks + 1
    PROVE  SplitAs(s, Direct(s), Indirect(s), Stored(s))
<1> DEFINE N == SFS_NDIRECT
           d == Direct(s)
           i == Indirect(s)
           u == Stored(s)
           e == Min({Len(s), N})
<1>1. N \in Nat /\ SFS_DBPERIDB \in Nat /\ Len(s) \in Nat /\ N # 0
  BY SfsAssumption
<1>2. e = IF Len(s) <= N THEN Len(s) ELSE N
  <2>1. {Len(s), N} \in SUBSET Nat
    BY <1>1
  <2>2. e \in {Len(s), N} /\ e <= Len(s) /\ e <= N
    BY <2>1, MinOf
  <2>. HIDE DEF e
  <2>3. QED
    BY <1>1, <2>2
<1>3. d = SubSeq(s, 1, e)
  BY DEF Direct
<1>. HIDE DEF e
<1>4. e \in 0 .. Len(s)
  BY <1>1, <1>2
<1>5. d \in Seq(Blocks) /\ Len(d) = e /\ \A k \in 1 .. e : d[k] = s[k]
  BY <1>3, <1>4
<1>6. i = SubSeq(s, N + 2, Len(s))
  BY DEF Indirect
<1>7. u = d \o i
  BY DEF Stored
<1>. HIDE DEF d, i, u
<1>8. SplitAs(s, d, i, u)
  <2>1. CASE Len(s) <= N
    <3>1. i = << >>
      BY <1>1, <1>6, <2>1
    <3>2. i \in Seq(Blocks) /\ Len(i) = 0 /\ 1 .. Len(i) = {} /\ SFS_DBPERIDB >= 0
      BY <1>1, <3>1
    <3>3. d \o << >> = d
      BY <1>5
    <3>4. u = d /\ Len(d) = Len(s) /\ Len(d) + Len(i) = Len(d) /\ Len(d) + 1 .. Len(d) = {}
      BY <1>1, <1>2, <1>5, <1>7, <2>1, <3>1, <3>2, <3>3
    <3>5. QED
      BY <1>1, <1>5, <1>7, <2>1, <3>2, <3>4 DEF SplitAs
  <2>2. CASE ~(Len(s) <= N)
    <3>1. /\ i \in Seq(Blocks) /\ Len(i) = Len(s) - N - 1
          /\ \A k \in 1 .. Len(i) : i[k] = s[N + 1 + k]
      BY <1>1, <1>6, <2>2
    <3>2. /\ d \o i \in Seq(Blocks) /\ Len(d \o i) = Len(d) + Len(i)
          /\ \A k \in 1 .. Len(d) : (d \o i)[k] = d[k]
          /\ \A k \in Len(d) + 1 .. Len(d) + Len(i) : (d \o i)[k] = i[k - Len(d)]
      <4>1. d \in Seq(Blocks) /\ i \in Seq(Blocks)
        BY <1>5, <3>1
      <4>2. QED
        BY <4>1
    <3>3. Len(i) <= SFS_DBPERIDB
      BY <1>1, <3>1 DEF MostBlocks
    <3>4. QED
      BY <1>1, <1>2, <1>5, <1>7, <2>2, <3>1, <3>2, <3>3 DEF SplitAs
  <2>3. QED
    BY <2>1, <2>2
<1>9. QED
  BY <1>8 DEF d, i, u

LEMMA StoredIs ==
    ASSUME NEW s \in Seq(Blocks), Len(s) <= MostBlocks + 1,
           NEW d, d = Direct(s), NEW i, i = Indirect(s), NEW u, u = Stored(s)
    PROVE  /\ d \in Seq(Blocks) /\ Len(d) = (IF Len(s) <= SFS_NDIRECT THEN Len(s) ELSE SFS_NDIRECT)
           /\ \A k \in 1 .. Len(d) : d[k] = s[k]
           /\ i \in Seq(Blocks) /\ Len(i) <= SFS_DBPERIDB
           /\ Len(i) = (IF Len(s) <= SFS_NDIRECT THEN 0 ELSE Len(s) - SFS_NDIRECT - 1)
           /\ \A k \in 1 .. Len(i) : i[k] = s[SFS_NDIRECT + 1 + k]
           /\ u = d \o i /\ u \in Seq(Blocks) /\ Len(u) = Len(d) + Len(i)
           /\ \A k \in 1 .. Len(d) : u[k] = d[k]
           /\ \A k \in Len(d) + 1 .. Len(u) : u[k] = i[k - Len(d)]
BY Splits DEF SplitAs

\* The indirect block among the blocks found.
TableOf(s) == {c \in Blocks : Len(s) > SFS_NDIRECT /\ c = s[SFS_NDIRECT + 1]}

LEMMA BlocksFound ==
    ASSUME NEW s \in Seq(Blocks), Len(s) <= MostBlocks + 1, \A k, l \in 1 .. Len(s) : s[k] = s[l] => k = l,
           NEW u, u = Stored(s),
           NEW X, X = TableOf(s)
    PROVE  /\ ToSet(u) \cup X = ToSet(s) /\ ToSet(u) \cap X = {}
           /\ \A k, l \in 1 .. Len(u) : u[k] = u[l] => k = l
           /\ ToSet(u) = {u[k] : k \in 1 .. Len(u)} /\ ToSet(s) = {s[k] : k \in 1 .. Len(s)}
<1> DEFINE N == SFS_NDIRECT
           at(k) == IF k <= N THEN k ELSE k + 1
<1>. USE DEF TableOf
<1>1. N \in Nat /\ Len(s) \in Nat
  BY SfsAssumption
<1>2. /\ u \in Seq(Blocks)
      /\ Len(u) = IF Len(s) <= N THEN Len(s) ELSE Len(s) - 1
      /\ \A k \in 1 .. Len(u) : at(k) \in 1 .. Len(s) /\ u[k] = s[at(k)]
  <2> DEFINE d == Direct(s)
             i == Indirect(s)
  <2>1. /\ Len(d) = (IF Len(s) <= N THEN Len(s) ELSE N)
        /\ \A k \in 1 .. Len(d) : d[k] = s[k]
        /\ Len(i) = (IF Len(s) <= N THEN 0 ELSE Len(s) - N - 1)
        /\ \A k \in 1 .. Len(i) : i[k] = s[N + 1 + k]
        /\ u \in Seq(Blocks) /\ Len(u) = Len(d) + Len(i)
        /\ \A k \in 1 .. Len(d) : u[k] = d[k]
        /\ \A k \in Len(d) + 1 .. Len(u) : u[k] = i[k - Len(d)]
    BY SMTT(30), StoredIs
  <2>. HIDE DEF d, i
  <2>2. ASSUME NEW k \in 1 .. Len(u)
        PROVE  at(k) \in 1 .. Len(s) /\ u[k] = s[at(k)]
    <3>1. CASE k <= Len(d)
      BY <1>1, <2>1, <3>1
    <3>2. CASE ~(k <= Len(d))
      <4>1. k \in Len(d) + 1 .. Len(u) /\ k - Len(d) \in 1 .. Len(i) /\ Len(d) = N
        BY <1>1, <2>1, <3>2
      <4>2. u[k] = i[k - Len(d)] /\ i[k - Len(d)] = s[N + 1 + (k - Len(d))] /\ N + 1 + (k - Len(d)) = k + 1
        <5>1. u[k] = i[k - Len(d)]
          BY <2>1, <4>1
        <5>2. i[k - Len(d)] = s[N + 1 + (k - Len(d))]
          BY <2>1, <4>1
        <5>3. Len(d) \in Nat /\ k \in Nat
          BY <1>1, <4>1
        <5>4. N + 1 + (k - Len(d)) = k + 1
          BY <1>1, <4>1, <5>3
        <5>5. QED
          BY <5>1, <5>2, <5>4
      <4>3. QED
        BY <1>1, <2>1, <3>2, <4>1, <4>2
    <3>3. QED
      BY <3>1, <3>2
  <2>3. QED
    BY <1>1, <2>1, <2>2
<1>3. \A k \in 1 .. Len(u) : Len(s) > N => at(k) # N + 1
  BY <1>1, <1>2
<1>4. ToSet(u) = {u[k] : k \in 1 .. Len(u)} /\ ToSet(s) = {s[k] : k \in 1 .. Len(s)}
  BY <1>1, <1>2 DEF ToSet
<1>5. \A k \in 1 .. Len(s) : s[k] \in Blocks
  OBVIOUS
<1>6. ASSUME NEW k \in 1 .. Len(s)
      PROVE  s[k] \in ToSet(u) \cup X
  <2>1. CASE k <= N
    <3>1. k \in 1 .. Len(u) /\ at(k) = k
      BY <1>1, <1>2, <2>1
    <3>2. QED
      BY <1>2, <1>4, <3>1
  <2>2. CASE k = N + 1
    <3>1. Len(s) > N
      BY <1>1, <2>2
    <3>2. QED
      BY <1>5, <2>2, <3>1
  <2>3. CASE k > N + 1
    <3>1. k - 1 \in 1 .. Len(u) /\ at(k - 1) = k
      BY <1>1, <1>2, <2>3
    <3>2. u[k - 1] = s[k]
      BY <1>2, <3>1
    <3>3. QED
      BY <1>4, <3>1, <3>2
  <2>4. QED
    BY <1>1, <2>1, <2>2, <2>3
<1>7. X \subseteq ToSet(s)
  <2>1. Len(s) > N => N + 1 \in 1 .. Len(s)
    BY <1>1
  <2>2. QED
    BY <1>4, <2>1
<1>8. ToSet(u) \subseteq ToSet(s)
  BY <1>2, <1>4
<1>9. ASSUME NEW k \in 1 .. Len(u), u[k] \in X
      PROVE  FALSE
  <2>1. Len(s) > N /\ s[at(k)] = s[N + 1] /\ at(k) \in 1 .. Len(s) /\ N + 1 \in 1 .. Len(s)
    BY <1>1, <1>2, <1>9
  <2>2. QED
    BY <1>3, <2>1
<1>10. ASSUME NEW k \in 1 .. Len(u), NEW l \in 1 .. Len(u), u[k] = u[l]
       PROVE  k = l
  <2>1. at(k) = at(l)
    BY SMTT(30), <1>2, <1>10
  <2>2. QED
    BY <1>1, <2>1
<1>. HIDE DEF at
<1>11. ToSet(u) \cap X = {}
  BY <1>4, <1>9
<1>12. ToSet(s) \subseteq ToSet(u) \cup X
  BY <1>4, <1>6
<1>13. ToSet(u) \cup X = ToSet(s)
  BY <1>7, <1>8, <1>12
<1>14. QED
  BY <1>4, <1>10, <1>11, <1>13

LEMMA CopiedInodeIs ==
    ASSUME NEW s \in Seq(Blocks), Len(s) <= MostBlocks + 1, NEW file, file.size \in Nat,
           NEW r, r = CopiedInode(file, s)
    PROVE  /\ r \in InodeRecords /\ r.type = "file"
           /\ r.size <= file.size /\ r.size <= SFS_BLOCKSIZE * Len(Stored(s))
           /\ \A k \in Rows : r.direct[k] = (IF k <= Len(s) THEN s[k] ELSE 0)
           /\ r.indirect = (IF Len(s) > SFS_NDIRECT THEN s[SFS_NDIRECT + 1] ELSE 0)
<1> DEFINE d == Direct(s)
           D == [i \in 1 .. SFS_NDIRECT |-> IF i <= Len(d) THEN d[i] ELSE 0]
           z == Len(Stored(s)) * SFS_BLOCKSIZE
           size == Min({file.size, z})
           ind == IF Len(s) > SFS_NDIRECT THEN s[SFS_NDIRECT + 1] ELSE 0
<1>1. r = [type |-> "file", size |-> size, indirect |-> ind, direct |-> D]
  BY DEF CopiedInode, Inode
<1>2. /\ d \in Seq(Blocks) /\ Len(d) = (IF Len(s) <= SFS_NDIRECT THEN Len(s) ELSE SFS_NDIRECT)
      /\ \A k \in 1 .. Len(d) : d[k] = s[k]
      /\ Stored(s) \in Seq(Blocks)
  <2> DEFINE i == Indirect(s)
             u == Stored(s)
  <2>1. /\ d \in Seq(Blocks) /\ Len(d) = (IF Len(s) <= SFS_NDIRECT THEN Len(s) ELSE SFS_NDIRECT)
        /\ \A k \in 1 .. Len(d) : d[k] = s[k]
        /\ i \in Seq(Blocks) /\ u = d \o i /\ u \in Seq(Blocks)
    BY SMTT(30), StoredIs
  <2>2. QED
    BY <2>1
<1>3. SFS_NDIRECT \in Nat /\ SFS_BLOCKSIZE \in Nat /\ Len(s) \in Nat /\ Len(Stored(s)) \in Nat
  BY <1>2, SfsAssumption
<1>. HIDE DEF d
<1>4. \A k \in Rows : D[k] = (IF k <= Len(s) THEN s[k] ELSE 0) /\ D[k] \in Blocks
  <2>1. ASSUME NEW k \in Rows
        PROVE  D[k] = (IF k <= Len(s) THEN s[k] ELSE 0) /\ D[k] \in Blocks
    <3>1. k \in 1 .. SFS_NDIRECT /\ 0 \in Blocks
      BY VolumeFacts DEF Rows
    <3>2. CASE k <= Len(s)
      <4>1. k \in 1 .. Len(d) /\ k \in 1 .. Len(s)
        BY <1>2, <1>3, <3>1, <3>2
      <4>2. QED
        BY <1>2, <3>1, <3>2, <4>1
    <3>3. CASE ~(k <= Len(s))
      <4>1. ~(k <= Len(d))
        BY <1>2, <1>3, <3>1, <3>3
      <4>2. QED
        BY <3>1, <3>3, <4>1
    <3>4. QED
      BY <3>2, <3>3
  <2>2. QED
    BY <2>1
<1>5. D \in [1 .. SFS_NDIRECT -> Blocks]
  BY <1>4 DEF Rows
<1>6. z \in Nat /\ z = SFS_BLOCKSIZE * Len(Stored(s))
  BY <1>3
<1>. HIDE DEF z
<1>7. size \in Nat /\ size <= file.size /\ size <= z
  <2>1. {file.size, z} \in SUBSET Nat
    BY <1>6
  <2>2. QED
    BY <2>1, MinOf
<1>8. ind \in Blocks
  <2>1. Len(s) > SFS_NDIRECT => SFS_NDIRECT + 1 \in 1 .. Len(s)
    BY <1>3
  <2>2. QED
    BY <2>1, VolumeFacts
<1>9. /\ r.type = "file" /\ r.size = size /\ r.indirect = ind /\ r.direct = D
      /\ r \in InodeRecords
  <2>. HIDE DEF D, size, ind
  <2>1. QED
    BY <1>1, <1>5, <1>7, <1>8 DEF InodeRecords
<1>. HIDE DEF D, size
<1>10. QED
  BY <1>4, <1>6, <1>7, <1>9

\* The table of the indirect block lists the blocks found after it.
TableCopied(s, X, x2) ==
    \A c \in X, k \in IndirectRows :
        x2[c][k] = IF SFS_NDIRECT + 1 + k <= Len(s) THEN s[SFS_NDIRECT + 1 + k] ELSE 0

LEMMA CopiedIndirectIs ==
    ASSUME NEW s \in Seq(Blocks), Len(s) <= MostBlocks + 1,
           indirect \in [DOMAIN indirect -> [IndirectRows -> Blocks]],
           NEW X, X = TableOf(s), X \cap DOMAIN indirect = {}, NEW x2, x2 = CopiedIndirect(s)
    PROVE  /\ x2 \in [DOMAIN indirect \cup X -> [IndirectRows -> Blocks]]
           /\ \A c \in DOMAIN indirect : x2[c] = indirect[c]
           /\ TableCopied(s, X, x2)
<1>. USE DEF TableOf, TableCopied
<1>1. SFS_NDIRECT \in Nat /\ SFS_DBPERIDB \in Nat /\ Len(s) \in Nat
  BY SfsAssumption
<1>2. CASE Len(s) <= SFS_NDIRECT
  <2>1. X = {} /\ x2 = indirect
    BY <1>1, <1>2 DEF CopiedIndirect
  <2>2. QED
    BY <2>1
<1>3. CASE ~(Len(s) <= SFS_NDIRECT)
  <2> DEFINE i == Indirect(s)
             d == Direct(s)
             u == Stored(s)
             f == s[SFS_NDIRECT + 1]
             table == [k \in 1 .. SFS_DBPERIDB |-> IF k <= Len(i) THEN i[k] ELSE 0]
  <2>1. /\ i \in Seq(Blocks) /\ Len(i) <= SFS_DBPERIDB /\ Len(i) = Len(s) - SFS_NDIRECT - 1
        /\ \A k \in 1 .. Len(i) : i[k] = s[SFS_NDIRECT + 1 + k]
    <3>1. /\ d \in Seq(Blocks) /\ u \in Seq(Blocks) /\ i \in Seq(Blocks) /\ Len(i) <= SFS_DBPERIDB
          /\ Len(i) = (IF Len(s) <= SFS_NDIRECT THEN 0 ELSE Len(s) - SFS_NDIRECT - 1)
          /\ \A k \in 1 .. Len(i) : i[k] = s[SFS_NDIRECT + 1 + k]
      BY StoredIs
    <3>2. QED
      BY <1>3, <3>1
  <2>2. x2 = Put(indirect, f, table)
    BY <1>3 DEF CopiedIndirect
  <2>3. X = {f} /\ f \in Blocks /\ f \notin DOMAIN indirect
    <3>1. SFS_NDIRECT + 1 \in 1 .. Len(s) /\ Len(s) > SFS_NDIRECT
      BY <1>1, <1>3
    <3>2. QED
      BY <3>1
  <2>. HIDE DEF i, f
  <2>4. ASSUME NEW k \in IndirectRows
        PROVE  /\ table[k] = IF SFS_NDIRECT + 1 + k <= Len(s) THEN s[SFS_NDIRECT + 1 + k] ELSE 0
               /\ table[k] \in Blocks
    <3>1. k \in 1 .. SFS_DBPERIDB /\ 0 \in Blocks
      BY VolumeFacts DEF IndirectRows
    <3>2. k <= Len(i) <=> SFS_NDIRECT + 1 + k <= Len(s)
      BY <1>1, <2>1, <3>1
    <3>3. k <= Len(i) => k \in 1 .. Len(i)
      BY <1>1, <2>1, <3>1
    <3>4. QED
      BY <2>1, <3>1, <3>2, <3>3
  <2>5. table \in [IndirectRows -> Blocks]
    BY <2>4 DEF IndirectRows
  <2>. HIDE DEF table
  <2>6. /\ DOMAIN x2 = DOMAIN indirect \cup {f} /\ x2[f] = table
        /\ \A c \in DOMAIN indirect : x2[c] = indirect[c]
        /\ x2 \in [DOMAIN indirect \cup {f} -> [IndirectRows -> Blocks]]
    BY <2>2, <2>3, <2>5 DEF Put
  <2>7. QED
    BY <2>3, <2>4, <2>6
<1>4. QED
  BY <1>2, <1>3

\* Blocks u differ and hold no data yet.
Fresh(u) ==
    /\ u \in Seq(Blocks)
    /\ \A k, l \in 1 .. Len(u) : u[k] = u[l] => k = l
    /\ ToSet(u) \cap DOMAIN data = {}

\* Blocks u hold the file's chunks in their order, the others what they held.
DataCopied(file, u, t2) ==
    /\ DOMAIN t2 = DOMAIN data \cup ToSet(u)
    /\ \A c \in DOMAIN data : t2[c] = data[c]
    /\ \A k \in 1 .. Len(u) : k <= Len(file.chunks) => t2[u[k]] = file.chunks[k]

LEMMA CopiedDataIs ==
    ASSUME NEW s, NEW file, Fresh(Stored(s)), NEW t2, t2 = CopiedData(file, s)
    PROVE  DataCopied(file, Stored(s), t2)
<1> DEFINE u == Stored(s)
           T == ToSet(Stored(s))
           which(b) == CHOOSE k \in DOMAIN u : u[k] = b
           value(b) == IF b \notin T THEN data[b]
                       ELSE IF which(b) <= Len(file.chunks) THEN file.chunks[which(b)] ELSE EmptyChunk
<1>1. /\ u \in Seq(Blocks) /\ DOMAIN u = 1 .. Len(u)
      /\ \A k, l \in 1 .. Len(u) : u[k] = u[l] => k = l
      /\ T \cap DOMAIN data = {}
  BY DEF Fresh
<1>2. T = {u[k] : k \in 1 .. Len(u)}
  BY <1>1 DEF ToSet
<1>3. t2 = [b \in DOMAIN data \cup T |-> value(b)]
  BY Zenon DEF CopiedData
<1>. HIDE DEF u, T
<1>4. ASSUME NEW k \in 1 .. Len(u)
      PROVE  u[k] \in T /\ which(u[k]) = k
  <2>1. which(u[k]) \in DOMAIN u /\ u[which(u[k])] = u[k]
    BY <1>1
  <2>. HIDE DEF which
  <2>2. QED
    BY <1>1, <1>2, <2>1
<1>. HIDE DEF which
<1>5. ASSUME NEW k \in 1 .. Len(u), k <= Len(file.chunks)
      PROVE  t2[u[k]] = file.chunks[k]
  <2>1. t2[u[k]] = value(u[k])
    BY <1>3, <1>4
  <2>2. QED
    BY <1>4, <1>5, <2>1
<1>6. \A c \in DOMAIN data : t2[c] = data[c]
  BY <1>1, <1>3
<1>7. DOMAIN t2 = DOMAIN data \cup T
  BY <1>3
<1>8. QED
  BY <1>5, <1>6, <1>7 DEF u, T, DataCopied

LEMMA SameSequence ==
    ASSUME NEW p \in Seq(Blocks), NEW q \in Seq(Blocks), Len(p) = Len(q), \A k \in 1 .. Len(p) : p[k] = q[k]
    PROVE  p = q
<1>1. p \in [1 .. Len(p) -> Blocks] /\ q \in [1 .. Len(p) -> Blocks]
  OBVIOUS
<1>2. QED
  BY <1>1

\* Inode r and the table of its indirect block list the blocks found.
ListsDirect(s, r) == \A k \in Rows : r.direct[k] = (IF k <= Len(s) THEN s[k] ELSE 0)

ListedBy(s, r, x2) ==
    /\ ListsDirect(s, r)
    /\ r.indirect = (IF Len(s) > SFS_NDIRECT THEN s[SFS_NDIRECT + 1] ELSE 0)
    /\ Len(s) > SFS_NDIRECT =>
          /\ x2[r.indirect] \in [IndirectRows -> Blocks]
          /\ \A k \in IndirectRows :
                x2[r.indirect][k] = IF SFS_NDIRECT + 1 + k <= Len(s) THEN s[SFS_NDIRECT + 1 + k] ELSE 0

\* Reading the copy follows the blocks in the order they were found.
LEMMA DirectCopied ==
    ASSUME NEW s \in Seq(Blocks), Len(s) <= MostBlocks + 1, \A k \in 1 .. Len(s) : s[k] # 0,
           NEW r \in InodeRecords, ListsDirect(s, r)
    PROVE  UpToMissing(r.direct) = Direct(s)
<1> DEFINE N == SFS_NDIRECT
           d == Direct(s)
           p == UpToMissing(r.direct)
<1>1. N \in Nat /\ SFS_DBPERIDB \in Nat /\ Len(s) \in Nat /\ N # 0
  BY SfsAssumption
<1>2. /\ d \in Seq(Blocks) /\ Len(d) = (IF Len(s) <= N THEN Len(s) ELSE N)
      /\ \A k \in 1 .. Len(d) : d[k] = s[k]
  BY Splits DEF SplitAs
<1>3. r.direct \in [1 .. N -> Blocks]
  BY DEF InodeRecords
<1>4. /\ p \in Seq(Blocks) /\ Len(p) \in 0 .. N
      /\ \A k \in 1 .. Len(p) : p[k] = r.direct[k] /\ r.direct[k] # 0
      /\ Len(p) = N \/ r.direct[Len(p) + 1] = 0
  <2>1. p = UpToMissing(r.direct)
    OBVIOUS
  <2> HIDE DEF p
  <2>2. QED
    BY <1>1, <1>3, <2>1, UpToMissingIs
<1>. HIDE DEF p, d
<1>5. Len(p) = Len(d) /\ \A k \in 1 .. Len(p) : p[k] = d[k]
  <2>1. \A k \in 1 .. Len(p) : k <= Len(s) /\ p[k] = s[k]
    BY <1>1, <1>4 DEF Rows, ListsDirect
  <2>2. Len(p) <= Len(s)
    <3>1. Len(p) = 0 \/ Len(p) \in 1 .. Len(p)
      BY <1>4
    <3>2. QED
      BY <1>1, <2>1, <3>1
  <2>3. Len(p) < N => ~(Len(p) + 1 <= Len(s))
    <3>1. ASSUME Len(p) < N, Len(p) + 1 <= Len(s)
          PROVE  FALSE
      <4>1. Len(p) + 1 \in Rows /\ Len(p) + 1 \in 1 .. Len(s)
        BY <1>1, <1>4, <3>1 DEF Rows
      <4>2. r.direct[Len(p) + 1] = s[Len(p) + 1] /\ r.direct[Len(p) + 1] = 0
        BY <1>1, <1>4, <3>1, <4>1 DEF ListsDirect
      <4>3. QED
        BY <4>1, <4>2
    <3>2. QED
      BY <3>1
  <2>4. Len(p) = Len(d)
    BY <1>1, <1>2, <1>4, <2>2, <2>3
  <2>5. QED
    BY <1>2, <2>1, <2>4
<1>6. p = d
  BY <1>2, <1>4, <1>5, SameSequence
<1>7. QED
  BY <1>6 DEF p, d

LEMMA BlocksCopied ==
    ASSUME NEW s \in Seq(Blocks), Len(s) <= MostBlocks + 1, \A k \in 1 .. Len(s) : s[k] # 0,
           NEW n, NEW x2, NEW ino, NEW r, n[ino] = r, r \in InodeRecords, ListedBy(s, r, x2)
    PROVE  BlocksIn(n, x2, ino) = Stored(s)
<1> DEFINE N == SFS_NDIRECT
           d == Direct(s)
           i == Indirect(s)
           u == Stored(s)
           p == UpToMissing(r.direct)
           v == UpToMissing(x2[r.indirect])
<1>. USE DEF ListedBy
<1>1. N \in Nat /\ SFS_DBPERIDB \in Nat /\ Len(s) \in Nat /\ N # 0
  BY SfsAssumption
<1>2. /\ d \in Seq(Blocks) /\ Len(d) = (IF Len(s) <= N THEN Len(s) ELSE N)
      /\ \A k \in 1 .. Len(d) : d[k] = s[k]
      /\ i \in Seq(Blocks) /\ Len(i) <= SFS_DBPERIDB
      /\ Len(i) = (IF Len(s) <= N THEN 0 ELSE Len(s) - N - 1)
      /\ \A k \in 1 .. Len(i) : i[k] = s[N + 1 + k]
      /\ u = d \o i /\ u \in Seq(Blocks) /\ Len(u) = Len(d) + Len(i)
      /\ \A k \in 1 .. Len(d) : u[k] = d[k]
      /\ \A k \in Len(d) + 1 .. Len(u) : u[k] = i[k - Len(d)]
  BY StoredIs
<1>3. p = d
  BY DirectCopied
<1>. HIDE DEF p, d, i, u
<1>4. CASE Len(s) <= N
  <2>1. r.indirect = 0
    BY <1>1, <1>4
  <2>2. BlocksIn(n, x2, ino) = p
    BY <2>1 DEF BlocksIn, p
  <2>3. i = << >>
    BY <1>2, <1>4
  <2>4. u = d
    BY <1>2, <2>3
  <2>5. QED
    BY <1>3, <2>2, <2>4 DEF u
<1>5. CASE ~(Len(s) <= N)
  <2>1. Len(s) > N /\ N + 1 \in 1 .. Len(s) /\ r.indirect # 0 /\ Len(p) = N
    BY <1>1, <1>2, <1>3, <1>5
  <2>2. x2[r.indirect] \in [1 .. SFS_DBPERIDB -> Blocks]
    BY <2>1 DEF IndirectRows
  <2>3. /\ v \in Seq(Blocks) /\ Len(v) \in 0 .. SFS_DBPERIDB
        /\ \A k \in 1 .. Len(v) : v[k] = x2[r.indirect][k] /\ x2[r.indirect][k] # 0
        /\ Len(v) = SFS_DBPERIDB \/ x2[r.indirect][Len(v) + 1] = 0
    BY <1>1, <2>2, UpToMissingIs
  <2>4. BlocksIn(n, x2, ino) = p \o v
    BY <2>1 DEF BlocksIn, p
  <2>. HIDE DEF v
  <2>5. \A k \in 1 .. Len(v) : N + 1 + k <= Len(s) /\ v[k] = s[N + 1 + k]
    <3>1. \A k \in 1 .. Len(v) : k \in IndirectRows
      BY <1>1, <2>3 DEF IndirectRows
    <3>2. QED
      BY <2>1, <2>3, <3>1
  <2>6. Len(v) <= Len(s) - N - 1
    <3>1. Len(v) = 0 \/ Len(v) \in 1 .. Len(v)
      BY <2>3
    <3>2. QED
      BY <1>1, <2>1, <2>3, <2>5, <3>1
  <2>7. Len(v) < SFS_DBPERIDB => ~(N + 1 + (Len(v) + 1) <= Len(s))
    <3>1. ASSUME Len(v) < SFS_DBPERIDB, N + 1 + (Len(v) + 1) <= Len(s)
          PROVE  FALSE
      <4>1. Len(v) + 1 \in IndirectRows /\ N + 1 + (Len(v) + 1) \in 1 .. Len(s)
        BY <1>1, <2>3, <3>1 DEF IndirectRows
      <4>2. x2[r.indirect][Len(v) + 1] = s[N + 1 + (Len(v) + 1)] /\ x2[r.indirect][Len(v) + 1] = 0
        BY <1>1, <2>1, <2>3, <3>1, <4>1
      <4>3. QED
        BY <4>1, <4>2
    <3>2. QED
      BY <3>1
  <2>8. Len(v) = Len(i)
    <3>1. Len(i) = Len(s) - N - 1 /\ Len(i) <= SFS_DBPERIDB /\ Len(v) \in 0 .. SFS_DBPERIDB
      BY <1>2, <1>5, <2>3
    <3>2. QED
      BY SMTT(30), <1>1, <2>6, <2>7, <3>1
  <2>9. v = i
    <3>1. \A k \in 1 .. Len(v) : v[k] = i[k]
      BY <1>2, <2>5, <2>8
    <3>2. QED
      BY <1>2, <2>3, <2>8, <3>1, SameSequence
  <2>10. QED
    BY <1>2, <1>3, <2>4, <2>9 DEF u
<1>6. QED
  BY <1>4, <1>5

LEMMA HostFileIs ==
    ASSUME NEW h \in HostFiles, NEW file, file = HostFile(h), file # NoFile
    PROVE  /\ file.size = HostSize[h] /\ HostSize[h] \in Nat
           /\ ChunksOf(HostSize[h]) \in Nat /\ Len(file.chunks) = ChunksOf(HostSize[h])
           /\ \A k \in 1 .. Len(file.chunks) : file.chunks[k] = <<h, k>>
<1> DEFINE c == ChunksOf(HostSize[h])
           chunks == [i \in 1 .. c |-> <<h, i>>]
<1>1. HostSize[h] \in Nat \cup {-1} /\ HostSize[h] # -1
  BY SfsAssumption DEF HostFile
<1>2. c \in Nat
  BY <1>1, SfsAssumption, RoundedUp DEF ChunksOf
<1>3. file = [size |-> HostSize[h], chunks |-> chunks]
  BY <1>1 DEF HostFile
<1>. HIDE DEF c
<1>4. Len(chunks) = c /\ \A k \in 1 .. c : chunks[k] = <<h, k>>
  BY <1>2
<1>. HIDE DEF chunks
<1>5. file.size = HostSize[h] /\ file.chunks = chunks
  BY <1>3
<1>6. QED
  BY <1>1, <1>2, <1>4, <1>5 DEF c

\* The copy holds the start of the host file.
LEMMA CopiedContent ==
    ASSUME NEW h \in HostFiles, NEW file, file = HostFile(h), file # NoFile,
           NEW u \in Seq(Blocks), NEW t2,
           \A k \in 1 .. Len(u) : k <= Len(file.chunks) => t2[u[k]] = file.chunks[k],
           NEW size \in Nat, size <= file.size, size <= SFS_BLOCKSIZE * Len(u)
    PROVE  Holding(ContentOf(size, u, t2), size)
<1> DEFINE c == ChunksOf(size)
           z == Len(u) * SFS_BLOCKSIZE
           chunks == [k \in 1 .. c |-> t2[u[k]]]
           starts == [k \in 1 .. c |-> <<h, k>>]
<1>1. /\ file.size = HostSize[h] /\ HostSize[h] \in Nat
      /\ ChunksOf(HostSize[h]) \in Nat /\ Len(file.chunks) = ChunksOf(HostSize[h])
      /\ \A k \in 1 .. Len(file.chunks) : file.chunks[k] = <<h, k>>
  BY HostFileIs
<1>2. SFS_BLOCKSIZE \in Nat \ {0} /\ Len(u) \in Nat
  BY SfsAssumption
<1>3. c \in Nat /\ c <= Len(u) /\ c <= Len(file.chunks)
  <2>1. c \in Nat /\ \A l \in Nat : size <= SFS_BLOCKSIZE * l => c <= l
    BY <1>2, RoundedUp DEF ChunksOf
  <2>2. HostSize[h] <= SFS_BLOCKSIZE * ChunksOf(HostSize[h])
    BY <1>1, <1>2, RoundedUp DEF ChunksOf
  <2> DEFINE y == SFS_BLOCKSIZE * ChunksOf(HostSize[h])
  <2>3. y \in Nat
    BY <1>1, <1>2
  <2>4. size <= y
    <3>. HIDE DEF y
    <3>1. HostSize[h] <= y
      BY <2>2 DEF y
    <3>2. QED
      BY <1>1, <2>3, <3>1
  <2>. HIDE DEF c
  <2>5. c <= ChunksOf(HostSize[h])
    BY <1>1, <2>1, <2>4
  <2>6. c <= Len(u)
    BY <1>2, <2>1
  <2>7. QED
    BY <1>1, <2>1, <2>5, <2>6
<1>. HIDE DEF c
<1>4. Min({c, Len(u)}) = c
  <2>1. {c, Len(u)} \in SUBSET Nat
    BY <1>2, <1>3
  <2>2. Min({c, Len(u)}) \in {c, Len(u)} /\ Min({c, Len(u)}) <= c
    BY <2>1, MinOf
  <2>3. QED
    BY <1>2, <1>3, <2>2
<1>5. Min({size, z}) = size
  <2>1. z \in Nat /\ size <= z
    BY <1>2
  <2>. HIDE DEF z
  <2>2. {size, z} \in SUBSET Nat
    BY <2>1
  <2>3. Min({size, z}) \in {size, z} /\ Min({size, z}) <= size
    BY <2>2, MinOf
  <2>4. QED
    BY <2>1, <2>3
<1>6. ContentOf(size, u, t2) = [size |-> size, chunks |-> chunks]
  BY <1>4, <1>5 DEF ContentOf, c
<1>7. chunks = starts
  <2>1. \A k \in 1 .. c : t2[u[k]] = <<h, k>>
    <3>1. \A k \in 1 .. c : k \in 1 .. Len(u) /\ k \in 1 .. Len(file.chunks) /\ k <= Len(file.chunks)
      BY <1>1, <1>2, <1>3
    <3>2. QED
      BY <1>1, <3>1
  <2>2. QED
    BY <2>1
<1>. HIDE DEF chunks
<1> DEFINE f == ContentOf(size, u, t2)
<1>8. f.size = size /\ f.chunks = starts
  BY <1>6, <1>7
<1>. HIDE DEF f
<1>9. IsPrefixOf(f, h)
  BY <1>1, <1>8 DEF IsPrefixOf, c
<1>10. QED
  BY <1>8, <1>9 DEF Holding, FromHost, f

\* What cpin stores is a new file of blocks that were not taken.
Copies(h, file, taken, s, r, X, T, x2, t2) ==
    /\ h \in HostFiles /\ file = HostFile(h) /\ file # NoFile
    /\ bitmap \subseteq taken /\ Untaken(taken, Wanted(file.size), s)
    /\ r = CopiedInode(file, s) /\ x2 = CopiedIndirect(s) /\ t2 = CopiedData(file, s)
    /\ X = TableOf(s) /\ T = ToSet(Stored(s))

LEMMA CopyStores ==
    ASSUME Sound, NEW h, NEW file, NEW taken, NEW s, NEW ino, NEW r, NEW X, NEW T, NEW x2, NEW t2,
           Copies(h, file, taken, s, r, X, T, x2, t2)
    PROVE  /\ Stores(indirect, data, ino, r, X, T, x2, t2)
           /\ X \cup T = ToSet(s) /\ X \cup T \subseteq Blocks \ taken
<1>. USE DEF Copies
<1> DEFINE N == SFS_NDIRECT
           D == SFS_DBPERIDB
           u == Stored(s)
           at(k) == IF k <= N THEN k ELSE k + 1
<1>1. /\ N \in Nat /\ N # 0 /\ D \in Nat
      /\ s \in Seq(Blocks) /\ Len(s) \in Nat /\ Len(s) <= MostBlocks + 1
      /\ \A k \in 1 .. Len(s) : s[k] \notin taken
      /\ \A k, l \in 1 .. Len(s) : s[k] = s[l] => k = l
  <2>1. file.size \in Nat
    BY HostFileIs
  <2>2. Wanted(file.size) \in Nat /\ Wanted(file.size) <= MostBlocks + 1
    BY <2>1, WantedIs
  <2>3. s \in Seq(Blocks) /\ Len(s) <= Wanted(file.size)
    BY DEF Untaken
  <2>4. MostBlocks \in Nat
    BY SfsAssumption DEF MostBlocks
  <2>5. QED
    BY <2>2, <2>3, <2>4, SfsAssumption DEF Untaken
<1>2. /\ T \cup X = ToSet(s) /\ T \cap X = {}
      /\ \A k, l \in 1 .. Len(u) : u[k] = u[l] => k = l
      /\ T = {u[k] : k \in 1 .. Len(u)} /\ ToSet(s) = {s[k] : k \in 1 .. Len(s)}
  <2>1. /\ ToSet(u) \cup X = ToSet(s) /\ ToSet(u) \cap X = {}
        /\ \A k, l \in 1 .. Len(u) : u[k] = u[l] => k = l
        /\ ToSet(u) = {u[k] : k \in 1 .. Len(u)} /\ ToSet(s) = {s[k] : k \in 1 .. Len(s)}
    BY <1>1, BlocksFound
  <2>2. QED
    BY <2>1
<1>. 0 \in taken /\ DOMAIN indirect \cup DOMAIN data \subseteq taken
  BY VolumeFacts DEF Sound, DiskOK, Kinds
<1>3. \A k \in 1 .. Len(s) : s[k] \in Blocks /\ s[k] # 0
  BY <1>1
<1>4. /\ X \cup T = ToSet(s) /\ X \cup T \subseteq Blocks \ taken
      /\ \A k \in 1 .. Len(s) : s[k] \in T \cup X
  <2>1. X \cup T = ToSet(s)
    BY <1>2
  <2>2. \A c \in ToSet(s) : c \in Blocks \ taken
    BY <1>1, <1>2, <1>3
  <2>3. \A k \in 1 .. Len(s) : s[k] \in ToSet(s)
    BY <1>2
  <2>4. QED
    BY <2>1, <2>2, <2>3
<1>5. X \cap DOMAIN indirect = {} /\ T \cap DOMAIN data = {}
  BY <1>4
<1>6. indirect \in [DOMAIN indirect -> [IndirectRows -> Blocks]]
  BY DEF Sound, DiskOK, Tables
<1>7. file.size \in Nat
  BY HostFileIs
<1>8. /\ r \in InodeRecords /\ r.type = "file"
      /\ r.size <= file.size /\ r.size <= SFS_BLOCKSIZE * Len(u)
      /\ \A k \in Rows : r.direct[k] = (IF k <= Len(s) THEN s[k] ELSE 0)
      /\ r.indirect = (IF Len(s) > N THEN s[N + 1] ELSE 0)
  BY <1>1, <1>7, CopiedInodeIs
<1>9. /\ x2 \in [DOMAIN indirect \cup X -> [IndirectRows -> Blocks]]
      /\ \A c \in DOMAIN indirect : x2[c] = indirect[c]
      /\ \A c \in X, k \in IndirectRows :
            x2[c][k] = IF N + 1 + k <= Len(s) THEN s[N + 1 + k] ELSE 0
  <2>1. /\ x2 \in [DOMAIN indirect \cup X -> [IndirectRows -> Blocks]]
        /\ \A c \in DOMAIN indirect : x2[c] = indirect[c]
        /\ TableCopied(s, X, x2)
    BY <1>1, <1>5, <1>6, CopiedIndirectIs
  <2>2. QED
    BY <2>1 DEF TableCopied
<1>10. u \in Seq(Blocks)
  <2> DEFINE d == Direct(s)
             i == Indirect(s)
  <2>1. /\ d \in Seq(Blocks)
        /\ i \in Seq(Blocks)
        /\ u = d \o i /\ u \in Seq(Blocks) /\ Len(u) = Len(d) + Len(i)
    BY <1>1, StoredIs
  <2>2. QED
    BY <2>1
<1>11. /\ DOMAIN t2 = DOMAIN data \cup T
       /\ \A c \in DOMAIN data : t2[c] = data[c]
       /\ \A k \in 1 .. Len(u) : k <= Len(file.chunks) => t2[u[k]] = file.chunks[k]
  <2>1. Fresh(u)
    BY <1>2, <1>5, <1>10 DEF Fresh
  <2>2. DataCopied(file, Stored(s), t2)
    BY <2>1, CopiedDataIs
  <2>3. QED
    BY <2>2 DEF DataCopied
<1>12. X = {r.indirect} \ {0} /\ (Len(s) > N => r.indirect \in X)
  <2>1. Len(s) > N => N + 1 \in 1 .. Len(s)
    BY <1>1
  <2>2. QED
    BY <1>3, <1>8, <2>1 DEF TableOf
<1>13. \A n : n[ino] = r => Holding(ContentIn(n, x2, t2, ino), r.size)
  <2>1. ASSUME NEW n, n[ino] = r
        PROVE  Holding(ContentIn(n, x2, t2, ino), r.size)
    <3>1. ListedBy(s, r, x2)
      BY <1>8, <1>9, <1>12 DEF ListedBy, ListsDirect
    <3>3. BlocksIn(n, x2, ino) = Stored(s)
      BY <1>1, <1>3, <1>8, <2>1, <3>1, BlocksCopied
    <3>4. ContentIn(n, x2, t2, ino) = ContentOf(r.size, u, t2)
      BY <2>1, <3>3 DEF ContentIn
    <3>5. r.size \in Nat
      BY <1>8 DEF InodeRecords
    <3>. HIDE DEF u
    <3>6. Holding(ContentOf(r.size, u, t2), r.size)
      BY <1>8, <1>10, <1>11, <3>5, CopiedContent
    <3>7. QED
      BY <3>4, <3>6
  <2>2. QED
    BY <2>1
<1>. HIDE DEF u
<1>14. \A k \in Rows : k \in Nat /\ k \in 1 .. N
  BY <1>1 DEF Rows
<1>15. \A k \in IndirectRows : N + 1 + k \in Nat /\ N + 1 + k > N + 1
  BY <1>1 DEF IndirectRows
<1>16. \A k \in Rows : r.direct[k] # 0 => k \in 1 .. Len(s) /\ r.direct[k] = s[k]
  BY <1>1, <1>8, <1>14
<1>17. \A c \in X, k \in IndirectRows : x2[c][k] # 0 => N + 1 + k \in 1 .. Len(s) /\ x2[c][k] = s[N + 1 + k]
  BY <1>1, <1>9, <1>15
<1>18. X # {} => Len(s) > N /\ X = {s[N + 1]} /\ N + 1 \in 1 .. Len(s)
  BY <1>1 DEF TableOf
<1>19. \A k \in Rows : r.direct[k] # 0 => r.direct[k] \in T
  <2>1. ASSUME NEW k \in Rows, r.direct[k] # 0
        PROVE  r.direct[k] \in T
    <3>1. k \in 1 .. Len(s) /\ r.direct[k] = s[k] /\ s[k] \in T \cup X
      BY <1>4, <1>16, <2>1
    <3>2. s[k] \notin X
      BY <1>1, <1>14, <1>18, <3>1
    <3>3. QED
      BY <3>1, <3>2
  <2>2. QED
    BY <2>1
<1>20. \A c \in X, k \in IndirectRows : x2[c][k] # 0 => x2[c][k] \in T
  <2>1. ASSUME NEW c \in X, NEW k \in IndirectRows, x2[c][k] # 0
        PROVE  x2[c][k] \in T
    <3>1. N + 1 + k \in 1 .. Len(s) /\ x2[c][k] = s[N + 1 + k] /\ s[N + 1 + k] \in T \cup X
      BY <1>4, <1>17, <2>1
    <3>2. s[N + 1 + k] \notin X
      BY <1>1, <1>15, <1>18, <3>1
    <3>3. QED
      BY <3>1, <3>2
  <2>2. QED
    BY <2>1
<1>21. \A k, l \in Rows : r.direct[k] # 0 /\ r.direct[k] = r.direct[l] => k = l
  BY <1>1, <1>16
<1>22. \A c \in X, k, l \in IndirectRows : x2[c][k] # 0 /\ x2[c][k] = x2[c][l] => k = l
  <2>1. ASSUME NEW c \in X, NEW k \in IndirectRows, NEW l \in IndirectRows, x2[c][k] # 0, x2[c][k] = x2[c][l]
        PROVE  k = l
    <3>1. N + 1 + k = N + 1 + l
      BY <1>1, <1>17, <2>1
    <3>2. k \in Nat /\ l \in Nat
      BY <1>1 DEF IndirectRows
    <3>3. QED
      BY <1>1, <3>1, <3>2
  <2>2. QED
    BY <2>1
<1>23. \A c \in X, k \in Rows, l \in IndirectRows : r.direct[k] # 0 => r.direct[k] # x2[c][l]
  <2>1. ASSUME NEW c \in X, NEW k \in Rows, NEW l \in IndirectRows, r.direct[k] # 0, r.direct[k] = x2[c][l]
        PROVE  FALSE
    <3>1. k = N + 1 + l
      BY <1>1, <1>16, <1>17, <2>1
    <3>2. QED
      BY <1>1, <1>14, <1>15, <3>1
  <2>2. QED
    BY <2>1
<1>24. \A c \in T : \/ \E k \in Rows : r.direct[k] = c
                    \/ \E d \in X, k \in IndirectRows : x2[d][k] = c
  <2>1. ASSUME NEW c \in T
        PROVE  \/ \E k \in Rows : r.direct[k] = c
               \/ \E d \in X, k \in IndirectRows : x2[d][k] = c
    <3>1. PICK k \in 1 .. Len(s) : c = s[k]
      BY <1>2
    <3>2. CASE k <= N
      <4>1. k \in Rows /\ k <= Len(s)
        BY <1>1, <3>2 DEF Rows
      <4>2. QED
        BY <1>8, <3>1, <4>1
    <3>3. CASE ~(k <= N)
      <4>1. Len(s) > N
        BY <1>1, <3>3
      <4>2. r.indirect \in X /\ r.indirect = s[N + 1]
        BY <1>8, <1>12, <4>1
      <4>3. k # N + 1
        BY <1>2, <3>1, <4>2
      <4>4. k - (N + 1) \in IndirectRows /\ N + 1 + (k - (N + 1)) = k /\ k <= Len(s)
        BY <1>1, <3>1, <3>3, <4>3 DEF IndirectRows, MostBlocks
      <4>5. x2[r.indirect][k - (N + 1)] = c
        BY <1>9, <3>1, <4>2, <4>4
      <4>6. QED
        BY <4>2, <4>4, <4>5
    <3>4. QED
      BY <3>2, <3>3
  <2>2. QED
    BY <2>1
<1>25. X \cap T = {}
  BY <1>2
<1>26. Stores(indirect, data, ino, r, X, T, x2, t2)
  BY <1>8, <1>9, <1>11, <1>12, <1>13, <1>19, <1>20, <1>21, <1>22, <1>23, <1>24, <1>25 DEF Stores
<1>27. QED
  BY <1>4, <1>26

LEMMA CpinOK ==
    ASSUME Sound, NEW path \in Names, ~Exists(path), Room(1),
           NEW h \in HostFiles, NEW file, file = HostFile(h), file # NoFile,
           NEW e, e = Lowest(Need(1)), NEW ino, ino = Last(e),
           NEW s, s = Scan(bitmap \cup ToSet(e), Wanted(file.size)),
           NEW n2, n2 = Put(InodesEntered(e[1]), ino, CopiedInode(file, s))
    PROVE  /\ DiskOK(n2, DirBlocksEntered(Entry(ino, path), e[1]), CopiedIndirect(s), CopiedData(file, s),
                     Marked(e, s), {})
           /\ cwd \in DirsIn(n2)
<1> DEFINE c == e[1]
           taken == bitmap \cup ToSet(e)
           r == CopiedInode(file, s)
           x2 == CopiedIndirect(s)
           t2 == CopiedData(file, s)
           X == TableOf(s)
           T == ToSet(Stored(s))
           m2 == Marked(e, s)
<1>2. /\ ino \in Blocks \ bitmap /\ (NeedsBlock => c \in Blocks \ bitmap /\ c # ino)
      /\ taken = GrownMap(c) \cup {ino}
  BY BlocksForFile
<1>3. Untaken(taken, Wanted(file.size), s)
  <2>1. Wanted(file.size) \in Nat
    BY HostFileIs, WantedIs
  <2>2. QED
    BY <2>1, ScanUntaken
<1>4. m2 = taken \cup ToSet(s)
  BY DEF Marked
<1>5. bitmap \subseteq taken
  OBVIOUS
<1>6. /\ r = CopiedInode(file, s) /\ x2 = CopiedIndirect(s) /\ t2 = CopiedData(file, s)
      /\ X = TableOf(s) /\ T = ToSet(Stored(s))
  OBVIOUS
<1>. HIDE DEF taken, c, r, x2, t2, X, T, m2
<1>7. Copies(h, file, taken, s, r, X, T, x2, t2)
  BY <1>3, <1>5, <1>6 DEF Copies
<1>8. /\ Stores(indirect, data, ino, r, X, T, x2, t2)
      /\ X \cup T = ToSet(s) /\ X \cup T \subseteq Blocks \ taken
  BY <1>7, CopyStores
<1>9. m2 = GrownMap(c) \cup {ino} \cup X \cup T
  BY <1>2, <1>4, <1>8
<1>10. X \cup T \subseteq Blocks \ (GrownMap(c) \cup {ino})
  BY <1>2, <1>8
<1>11. ~DirectoryFull /\ n2 = Put(InodesEntered(c), ino, r)
  BY DEF Room, c, r
<1>12. DiskOK(n2, DirBlocksEntered(Entry(ino, path), c), x2, t2, m2, {}) /\ cwd \in DirsIn(n2)
  BY SMTT(30), <1>2, <1>8, <1>9, <1>10, <1>11, FileEntered
<1>13. QED
  BY <1>12 DEF c, x2, t2, m2

----------------------------------------------------------------------------
\* rm, rmdir and mv.

\* The entry of a name, once the name is removed.
LEMMA EntryFreed ==
    ASSUME Sound, NEW path, Exists(path), NEW k, NEW j, k = Slot(path)[1], j = Slot(path)[2],
           NEW n1, n1 = Resized(inode, cwd, inode[cwd].size - 1), NEW b1, b1 = DirBlocksWithout(Slot(path))
    PROVE  /\ Edited(inode, dirBlock, n1, b1, cwd, k, j, FreeEntry)
           /\ n1[cwd].size = inode[cwd].size - 1
<1> DEFINE f == inode[cwd].direct[k]
           size == inode[cwd].size - 1
<1>1. k \in Rows /\ j \in Columns /\ Used(inode, dirBlock, cwd, k, j)
  BY FoundName DEF FoundAt
<1>2. /\ cwd \in DirsIn(inode) /\ cwd \in DOMAIN inode /\ f # 0 /\ f \in DOMAIN dirBlock
      /\ inode \in [DOMAIN inode -> InodeRecords] /\ dirBlock \in [DOMAIN dirBlock -> [Columns -> EntryRecords]]
      /\ inode[cwd].size = Cardinality(UsedSlots(inode, dirBlock, cwd))
  BY <1>1 DEF Sound, DiskOK, Tables, DirectKinds, SizesCount, DirsIn, Used
<1>3. size \in Nat
  <2> DEFINE S == UsedSlots(inode, dirBlock, cwd)
  <2>1. S # {}
    <3>1. <<k, j>> \in Rows \X Columns /\ Used(inode, dirBlock, cwd, <<k, j>>[1], <<k, j>>[2])
      BY <1>1
    <3>2. <<k, j>> \in S
      BY <3>1, Zenon DEF UsedSlots
    <3>3. QED
      BY <3>2
  <2>2. IsFiniteSet(S) /\ Cardinality(S) \in Nat
    BY UsedFinite
  <2>. HIDE DEF S
  <2>3. Cardinality(S) # 0
    BY <2>1, <2>2, FS_EmptySet
  <2>4. QED
    BY <1>2, <2>2, <2>3 DEF S
<1>4. n1 = Resized(inode, cwd, size)
  OBVIOUS
<1>5. b1 = EntryPut(dirBlock, f, j, FreeEntry)
  BY DEF DirBlocksWithout, EntryPut
<1>. HIDE DEF size
<1>6. /\ n1 \in [DOMAIN inode -> InodeRecords] /\ DOMAIN n1 = DOMAIN inode
      /\ \A i \in DOMAIN inode :
            /\ n1[i].type = inode[i].type /\ n1[i].indirect = inode[i].indirect /\ n1[i].direct = inode[i].direct
            /\ i # cwd => n1[i] = inode[i]
      /\ n1[cwd].size = size
  BY <1>2, <1>3, <1>4, ResizedAt
<1>7. EntrySet(dirBlock, b1, f, j, FreeEntry)
  BY <1>1, <1>2, <1>5, EmptyBlock, EntryPutAt
<1>8. QED
  BY <1>1, <1>2, <1>6, <1>7 DEF Edited, EntrySet, size

\* A name that is not "." or ".." names no ancestor.
LEMMA GivenName ==
    ASSUME Sound, NEW path, Exists(path), NEW k, NEW j, k = Slot(path)[1], j = Slot(path)[2],
           IsFile(path) \/ path \notin Dots
    PROVE  Gives(dirBlock, inode[cwd].direct[k], j)
<1> DEFINE f == inode[cwd].direct[k]
<1>1. /\ k \in Rows /\ j \in Columns /\ Used(inode, dirBlock, cwd, k, j)
      /\ dirBlock[f][j].sfd_name = path /\ Ino(path) = dirBlock[f][j].sfd_ino
  BY FoundName DEF FoundAt
<1>2. CASE path \notin Dots
  BY <1>1, <1>2 DEF Gives, Used
<1>3. CASE path \in Dots /\ IsFile(path)
  <2>1. f \in DOMAIN dirBlock /\ dirBlock[f][j].sfd_ino # 0
    BY <1>1 DEF Sound, DiskOK, DirectKinds, Used
  <2>. HIDE DEF f
  <2>2. PICK d \in DirsIn(inode) :
            \/ j = 1 /\ dirBlock[f][j].sfd_ino = d
            \/ j = 2 /\ DotsOf(inode, dirBlock, {}, d) /\ f = inode[d].direct[1]
    <3>1. DiskOK(inode, dirBlock, indirect, data, bitmap, {})
      BY DEF Sound
    <3>2. dirBlock[f][j].sfd_name \in Dots
      BY <1>1, <1>3 DEF f
    <3>3. \E d \in DirsIn(inode) :
              /\ f = inode[d].direct[1]
              /\ \/ j = 1 /\ dirBlock[f][j].sfd_ino = d
                 \/ j = 2 /\ DotsOf(inode, dirBlock, {}, d)
      BY <1>1, <2>1, <3>1, <3>2, DotEntries
    <3>4. QED
      BY <3>3
  <2>3. Ino(path) \in DirsIn(inode)
    BY <1>1, <2>2 DEF DotsOf, f
  <2>4. inode[Ino(path)].type = "dir"
    BY <2>3 DEF DirsIn
  <2>5. QED
    BY <1>3, <2>4 DEF IsFile
<1>4. QED
  BY <1>2, <1>3

\* After the entry is gone, its inode's blocks G are dropped.
Drops(n1, b1, ino, G, n2, b2, x2, t2) ==
    /\ DiskOK(n1, b1, indirect, data, bitmap, {ino})
    /\ Droppable(n1, b1, indirect, data, ino, G)
    /\ n2 = Forget(n1, G) /\ b2 = Forget(b1, G) /\ x2 = Forget(indirect, G) /\ t2 = Forget(data, G)

LEMMA DropKeepsDirectory ==
    ASSUME NEW n1, NEW b1, NEW ino, NEW G, NEW n2, NEW b2, NEW x2, NEW t2,
           Drops(n1, b1, ino, G, n2, b2, x2, t2), NEW d \in DirsIn(n1), d # ino
    PROVE  DiskOK(n2, b2, x2, t2, bitmap \ G, {}) /\ d \in DirsIn(n2)
<1>. USE DEF Drops
<1>1. DiskOK(n2, b2, x2, t2, bitmap \ G, {})
  BY DropOK
<1>2. d \notin G /\ d \in DOMAIN n1 /\ n1[d].type = "dir"
  BY DEF Droppable, DirsIn
<1>3. DOMAIN n2 = DOMAIN n1 \ G /\ \A i \in DOMAIN n2 : n2[i] = n1[i]
  BY DEF Forget, Restrict
<1>4. QED
  BY <1>1, <1>2, <1>3 DEF DirsIn

LEMMA RmOK ==
    ASSUME Sound, NEW path, Exists(path), IsFile(path), Release(path, RmBlocks(Ino(path)))
    PROVE  DiskOK(inode', dirBlock', indirect', data', bitmap', {}) /\ cwd \in DirsIn(inode')
<1> DEFINE k == Slot(path)[1]
           j == Slot(path)[2]
           ino == Ino(path)
           G == RmBlocks(Ino(path))
           n1 == Resized(inode, cwd, inode[cwd].size - 1)
           b1 == DirBlocksWithout(Slot(path))
<1>1. /\ inode' = Forget(n1, G) /\ dirBlock' = Forget(b1, G)
      /\ indirect' = Forget(indirect, G) /\ data' = Forget(data, G) /\ bitmap' = bitmap \ G
  BY DEF Release, Resized
<1>2. Edited(inode, dirBlock, n1, b1, cwd, k, j, FreeEntry) /\ n1[cwd].size = inode[cwd].size - 1
  BY EntryFreed
<1>3. Gives(dirBlock, inode[cwd].direct[k], j)
  BY GivenName
<1>4. ino = dirBlock[inode[cwd].direct[k]][j].sfd_ino
  BY FoundName DEF FoundAt
<1>. HIDE DEF k, j, ino, n1, b1
<1>5. DiskOK(inode, dirBlock, indirect, data, bitmap, {}) /\ cwd \in DirsIn(inode)
  BY DEF Sound
<1>6. DiskOK(n1, b1, indirect, data, bitmap, {ino}) /\ ino \in DOMAIN inode /\ ino # SFS_ROOT_LOCATION
  BY <1>2, <1>3, <1>4, <1>5, LeaveOK
<1>7. inode[ino].type = "file" /\ ino # cwd
  <2>1. inode[ino].type \in {"file", "dir"}
    BY <1>5, <1>6 DEF DiskOK, Tables, InodeRecords
  <2>2. QED
    BY <1>5 DEF IsFile, DirsIn, ino
<1>8. n1[ino] = inode[ino] /\ ino \in FilesIn(n1) /\ cwd \in DirsIn(n1)
  BY <1>2, <1>5, <1>6, <1>7 DEF Edited, DirsIn, FilesIn
<1>9. G = ({ino, n1[ino].indirect} \cup Range(n1[ino].direct)
              \cup (IF n1[ino].indirect # 0 THEN Range(indirect[n1[ino].indirect]) ELSE {})) \ {0}
  <2>1. G = ({ino, inode[ino].indirect} \cup Range(inode[ino].direct)
                \cup (IF inode[ino].indirect # 0 THEN Range(indirect[inode[ino].indirect]) ELSE {})) \ {0}
    BY DEF RmBlocks, ino
  <2>2. QED
    BY <1>8, <2>1
<1>. HIDE DEF G
<1>10. Droppable(n1, b1, indirect, data, ino, G)
  BY <1>6, <1>8, <1>9, DropFileOK
<1>11. Drops(n1, b1, ino, G, inode', dirBlock', indirect', data')
  BY <1>1, <1>6, <1>10 DEF Drops
<1>12. DiskOK(inode', dirBlock', indirect', data', bitmap \ G, {}) /\ cwd \in DirsIn(inode')
  BY <1>7, <1>8, <1>11, DropKeepsDirectory
<1>13. QED
  BY <1>1, <1>12

\* An empty directory is not the parent of the working directory, nor that
\* directory itself, unless it is the root.
LEMMA EmptyIsElsewhere ==
    ASSUME Sound, NEW path, path # ".", Exists(path), Ino(path) # SFS_ROOT_LOCATION,
           Ino(path) \in DirsIn(inode), inode[Ino(path)].size <= 2
    PROVE  path \notin Dots /\ Ino(path) # cwd
<1> DEFINE k == Slot(path)[1]
           j == Slot(path)[2]
           f == inode[cwd].direct[k]
           ino == Ino(path)
<1>1. /\ k \in Rows /\ j \in Columns /\ Used(inode, dirBlock, cwd, k, j)
      /\ dirBlock[f][j].sfd_name = path /\ ino = dirBlock[f][j].sfd_ino
  BY FoundName DEF FoundAt
<1>2. /\ DiskOK(inode, dirBlock, indirect, data, bitmap, {}) /\ cwd \in DirsIn(inode)
      /\ f \in DOMAIN dirBlock /\ f # 0 /\ ino # 0 /\ cwd \in DOMAIN inode /\ DirsIn(inode) \subseteq DOMAIN inode
  BY <1>1 DEF Sound, DiskOK, DirectKinds, Used, DirsIn
<1>. HIDE DEF k, j, f, ino
<1>3. \A k2 \in Rows, j2 \in Columns : inode[ino].direct[k2] # 0 => ~Gives(dirBlock, inode[ino].direct[k2], j2)
  BY <1>2, OnlyDots DEF ino
<1>4. path \notin Dots
  <2>1. SUFFICES ASSUME path = ".."
                 PROVE  FALSE
    BY DEF Dots
  <2>2. dirBlock[f][j].sfd_name \in Dots /\ dirBlock[f][j].sfd_ino # 0
    BY <1>1, <1>2, <2>1 DEF Dots, f
  <2>3. PICK d \in DirsIn(inode) :
            f = inode[d].direct[1] /\ (j = 1 \/ j = 2)
    <3>1. \E d \in DirsIn(inode) :
              /\ f = inode[d].direct[1]
              /\ \/ j = 1 /\ dirBlock[f][j].sfd_ino = d
                 \/ j = 2 /\ DotsOf(inode, dirBlock, {}, d)
      BY <1>1, <1>2, <2>2, DotEntries
    <3>2. QED
      BY <3>1
  <2>4. 1 \in Rows
    BY SfsAssumption DEF Rows
  <2>5. d = cwd /\ f = inode[cwd].direct[1]
    BY <1>1, <1>2, <2>3, <2>4 DEF f, DiskOK, DirectOnce
  <2>6. DotsOf(inode, dirBlock, {}, cwd)
    BY <1>2 DEF DiskOK, DotsLead
  <2>7. j = 2
    <3>1. dirBlock[f][1].sfd_name = "."
      BY <2>5, <2>6 DEF DotsOf, Entry
    <3>2. dirBlock[f][j].sfd_name = ".."
      BY <1>1, <2>1 DEF f
    <3>3. QED
      BY <2>3, <3>1, <3>2
  <2>8. ino = dirBlock[inode[cwd].direct[1]][2].sfd_ino
    BY <1>1, <2>5, <2>7 DEF f
  <2>9. (cwd = SFS_ROOT_LOCATION => ino = cwd) /\ (cwd # SFS_ROOT_LOCATION => Holds(inode, dirBlock, ino, cwd))
    BY <2>6, <2>8 DEF DotsOf
  <2>10. Holds(inode, dirBlock, ino, cwd)
    BY <2>9 DEF ino
  <2>11. QED
    BY <1>3, <2>10 DEF Holds
<1>5. ino # cwd
  <2>1. Gives(dirBlock, inode[cwd].direct[k], j)
    BY <1>4, GivenName DEF k, j
  <2>2. QED
    BY <1>1, <1>2, <1>3, <2>1 DEF f
<1>6. QED
  BY <1>4, <1>5 DEF ino

LEMMA RmdirOK ==
    ASSUME Sound, NEW path, path # ".", Exists(path), ~IsFile(path), ~HasEntries(Ino(path)),
           Release(path, RmdirBlocks(Ino(path))), SFS_ROOT_LOCATION \in bitmap'
    PROVE  DiskOK(inode', dirBlock', indirect', data', bitmap', {}) /\ cwd \in DirsIn(inode')
<1> DEFINE k == Slot(path)[1]
           j == Slot(path)[2]
           ino == Ino(path)
           G == RmdirBlocks(Ino(path))
           n1 == Resized(inode, cwd, inode[cwd].size - 1)
           b1 == DirBlocksWithout(Slot(path))
<1>1. /\ inode' = Forget(n1, G) /\ dirBlock' = Forget(b1, G)
      /\ indirect' = Forget(indirect, G) /\ data' = Forget(data, G) /\ bitmap' = bitmap \ G
  BY DEF Release, Resized
<1>2. Edited(inode, dirBlock, n1, b1, cwd, k, j, FreeEntry) /\ n1[cwd].size = inode[cwd].size - 1
  BY EntryFreed
<1>3. /\ ino = dirBlock[inode[cwd].direct[k]][j].sfd_ino
      /\ k \in Rows /\ j \in Columns /\ Used(inode, dirBlock, cwd, k, j)
  BY FoundName DEF FoundAt
<1>4. DiskOK(inode, dirBlock, indirect, data, bitmap, {}) /\ cwd \in DirsIn(inode)
  BY DEF Sound
<1>5. G = {ino, inode[ino].direct[1]}
  BY DEF RmdirBlocks
<1>. HIDE DEF n1, b1, G
<1>6. ino \in DirsIn(inode) /\ inode[ino].size <= 2 /\ ino # SFS_ROOT_LOCATION
  <2>. HIDE DEF k, j
  <2>1. inode[cwd].direct[k] \in DOMAIN dirBlock
    BY <1>3, <1>4 DEF DiskOK, DirectKinds, Used
  <2>2. ino \in DOMAIN inode
    BY <1>3, <1>4, <2>1 DEF DiskOK, EntriesLead, Used
  <2>3. inode[ino] \in InodeRecords
    BY <1>4, <2>2 DEF DiskOK, Tables
  <2>4. inode[ino].type = "dir" /\ inode[ino].size <= 2
    BY <2>3 DEF IsFile, HasEntries, InodeRecords
  <2>5. ino # SFS_ROOT_LOCATION
    BY <1>1, <1>5
  <2>6. QED
    BY <2>2, <2>4, <2>5 DEF DirsIn
<1>7. path \notin Dots /\ ino # cwd
  BY <1>6, EmptyIsElsewhere
<1>8. Gives(dirBlock, inode[cwd].direct[k], j)
  BY <1>7, GivenName
<1>. HIDE DEF k, j, ino
<1>9. DiskOK(n1, b1, indirect, data, bitmap, {ino})
  BY <1>2, <1>3, <1>4, <1>8, LeaveOK
<1>10. n1[ino] = inode[ino] /\ ino \in DirsIn(n1) /\ cwd \in DirsIn(n1)
  BY <1>2, <1>4, <1>6, <1>7 DEF Edited, DirsIn
<1>11. Droppable(n1, b1, indirect, data, ino, G)
  BY <1>5, <1>6, <1>9, <1>10, DropDirOK
<1>12. Drops(n1, b1, ino, G, inode', dirBlock', indirect', data')
  BY <1>1, <1>9, <1>11 DEF Drops
<1>13. DiskOK(inode', dirBlock', indirect', data', bitmap \ G, {}) /\ cwd \in DirsIn(inode')
  BY <1>7, <1>10, <1>12, DropKeepsDirectory
<1>14. QED
  BY <1>1, <1>13

\* Removing keeps the tables well formed, the root's removal too.
LEMMA ReleaseTypes ==
    ASSUME Sound, NEW path, Exists(path), NEW G, Release(path, G)
    PROVE  Tables(inode', dirBlock', indirect') /\ bitmap' \subseteq Blocks
<1> DEFINE k == Slot(path)[1]
           j == Slot(path)[2]
           n1 == Resized(inode, cwd, inode[cwd].size - 1)
           b1 == DirBlocksWithout(Slot(path))
<1>1. /\ inode' = Forget(n1, G) /\ dirBlock' = Forget(b1, G)
      /\ indirect' = Forget(indirect, G) /\ bitmap' = bitmap \ G
  BY DEF Release, Resized
<1>2. Edited(inode, dirBlock, n1, b1, cwd, k, j, FreeEntry) /\ n1[cwd].size = inode[cwd].size - 1
  BY EntryFreed
<1>. HIDE DEF k, j, n1, b1
<1>3. n1 \in [DOMAIN n1 -> InodeRecords] /\ b1 \in [DOMAIN b1 -> [Columns -> EntryRecords]]
  BY <1>2 DEF Edited
<1>4. indirect \in [DOMAIN indirect -> [IndirectRows -> Blocks]] /\ bitmap \subseteq Blocks
  BY DEF Sound, DiskOK, Tables, Kinds
<1>5. inode' \in [DOMAIN inode' -> InodeRecords]
  BY <1>1, <1>3, ForgetType
<1>6. dirBlock' \in [DOMAIN dirBlock' -> [Columns -> EntryRecords]]
  BY <1>1, <1>3, ForgetType
<1>7. indirect' \in [DOMAIN indirect' -> [IndirectRows -> Blocks]]
  BY <1>1, <1>4, ForgetType
<1>8. QED
  BY <1>1, <1>4, <1>5, <1>6, <1>7 DEF Tables

\* mv writes the same inode under another name.
Renamed(b, c, j, name) == [b EXCEPT ![c][j].sfd_name = name]

LEMMA RenamedEntry ==
    ASSUME NEW b, b \in [DOMAIN b -> [Columns -> EntryRecords]], NEW c \in DOMAIN b, NEW j \in Columns,
           NEW name, NEW e, e = Entry(b[c][j].sfd_ino, name)
    PROVE  Renamed(b, c, j, name) = EntryPut(b, c, j, e)
<1> DEFINE old == b[c][j]
<1>1. old \in EntryRecords
  OBVIOUS
<1>2. [old EXCEPT !.sfd_name = name] = e
  <2>1. old = [sfd_ino |-> old.sfd_ino, sfd_name |-> old.sfd_name]
    BY <1>1 DEF EntryRecords
  <2>2. [old EXCEPT !.sfd_name = name] = [sfd_ino |-> old.sfd_ino, sfd_name |-> name]
    BY <2>1
  <2>3. QED
    BY <2>2 DEF Entry
<1>3. Renamed(b, c, j, name) = [b EXCEPT ![c] = [b[c] EXCEPT ![j] = [old EXCEPT !.sfd_name = name]]]
  BY DEF Renamed
<1>4. EntryPut(b, c, j, e) = [b EXCEPT ![c] = [b[c] EXCEPT ![j] = e]]
  BY DEF EntryPut
<1>5. QED
  BY <1>2, <1>3, <1>4

LEMMA MvOK ==
    ASSUME Sound, NEW src \in Names, NEW dst \in Names, ~Exists(dst), Exists(src), NEW b2,
           NEW k, NEW j, k = Slot(src)[1], j = Slot(src)[2],
           NEW e, e = Entry(Ino(src), dst), b2 = EntryPut(dirBlock, inode[cwd].direct[k], j, e)
    PROVE  DiskOK(inode, b2, indirect, data, bitmap, {})
<1> DEFINE f == inode[cwd].direct[k]
<1>1. /\ k \in Rows /\ j \in Columns /\ Used(inode, dirBlock, cwd, k, j)
      /\ dirBlock[f][j].sfd_name = src /\ Ino(src) = dirBlock[f][j].sfd_ino
  BY FoundName DEF FoundAt
<1>2. src \notin Dots
  BY SfsAssumption DEF Dots
<1>3. Gives(dirBlock, f, j)
  BY <1>2, GivenName
<1>4. \A k2 \in Rows, j2 \in Columns :
          Used(inode, dirBlock, cwd, k2, j2) => dirBlock[inode[cwd].direct[k2]][j2].sfd_name # dst
  BY NoSuchName
<1>5. /\ DiskOK(inode, dirBlock, indirect, data, bitmap, {}) /\ cwd \in DirsIn(inode) /\ cwd \in DOMAIN inode
      /\ f \in DOMAIN dirBlock /\ f # 0
      /\ inode \in [DOMAIN inode -> InodeRecords] /\ dirBlock \in [DOMAIN dirBlock -> [Columns -> EntryRecords]]
  BY <1>1, Zenon DEF Sound, DiskOK, Tables, DirectKinds, Used, DirsIn
<1>6. dirBlock[f][j] \in EntryRecords
  BY <1>1, <1>5
<1>7. e \in EntryRecords /\ e.sfd_ino = dirBlock[f][j].sfd_ino /\ e.sfd_name = dst
  BY <1>1, <1>6, Zenon DEF Entry, EntryRecords, Paths
<1>8. EntrySet(dirBlock, b2, f, j, e)
  BY <1>1, <1>5, <1>7, EntryPutAt, Zenon
<1>9. Edited(inode, dirBlock, inode, b2, cwd, k, j, e)
  BY <1>1, <1>5, <1>8, Zenon DEF Edited, EntrySet
<1>10. Renames(inode, dirBlock, b2, cwd, k, j, e)
  BY <1>3, <1>4, <1>7, <1>9, Zenon DEF Renames
<1>11. QED
  BY <1>5, <1>10, RenameOK
----------------------------------------------------------------------------
\* The invariant.

\* A volume as it is formatted holds the root directory and nothing else.
Formatted(n, b, x, t, m) ==
    /\ n = Put(<< >>, SFS_ROOT_LOCATION, NewDir(RootBlock))
    /\ b = Put(<< >>, RootBlock, DotBlock(SFS_ROOT_LOCATION, SFS_ROOT_LOCATION))
    /\ x = << >> /\ t = << >>
    /\ m = System \cup {SFS_ROOT_LOCATION, RootBlock}

LEMMA FormattedOK ==
    ASSUME NEW n, NEW b, NEW x, NEW t, NEW m, Formatted(n, b, x, t, m)
    PROVE  DiskOK(n, b, x, t, m, {})
<1>. USE DEF Formatted
<1> DEFINE i == SFS_ROOT_LOCATION
           c == RootBlock
           r == NewDir(c)
           block == DotBlock(i, i)
<1>1. /\ r \in InodeRecords /\ r.type = "dir" /\ r.size = 2 /\ r.indirect = 0
      /\ \A k \in Rows : r.direct[k] = IF k = 1 THEN c ELSE 0
      /\ r.direct[1] = c
      /\ block \in [Columns -> EntryRecords]
      /\ block[1] = Entry(i, ".") /\ block[2] = Entry(i, "..")
      /\ \A j \in Columns : j \notin {1, 2} => block[j] = FreeEntry
  BY VolumeFacts, NewDirIs
<1>2. /\ c \in Blocks /\ i \in Blocks /\ c # i /\ i # 0 /\ c # 0 /\ c \notin System /\ i \notin System
      /\ System \subseteq Blocks
  BY VolumeFacts
<1>3. 1 \in Rows /\ 1 \in Columns /\ 2 \in Columns
  BY SfsAssumption DEF Rows, Columns
<1>4. DOMAIN n = {i} /\ n[i] = r /\ DOMAIN b = {c} /\ b[c] = block /\ DOMAIN x = {} /\ DOMAIN t = {}
  <2>1. DOMAIN << >> = {}
    OBVIOUS
  <2>2. QED
    BY <2>1 DEF Put
<1>5. n \in [DOMAIN n -> InodeRecords] /\ b \in [DOMAIN b -> [Columns -> EntryRecords]]
  <2>1. n = [e \in DOMAIN n |-> n[e]] /\ b = [e \in DOMAIN b |-> b[e]]
    BY DEF Put
  <2>2. QED
    BY <1>1, <1>4, <2>1
<1>6. x \in [DOMAIN x -> [IndirectRows -> Blocks]]
  BY <1>4
<1>7. DirsIn(n) = {i} /\ FilesIn(n) = {}
  BY <1>1, <1>4 DEF DirsIn, FilesIn
<1>8. /\ block[1].sfd_ino = i /\ block[1].sfd_name = "."
      /\ block[2].sfd_ino = i /\ block[2].sfd_name = ".."
      /\ \A j \in Columns : j \notin {1, 2} => block[j].sfd_ino = 0
      /\ \A j \in Columns : ~Gives(b, c, j)
  <2>1. /\ Entry(i, ".").sfd_ino = i /\ Entry(i, ".").sfd_name = "."
        /\ Entry(i, "..").sfd_ino = i /\ Entry(i, "..").sfd_name = ".."
    BY DEF Entry
  <2>2. /\ block[1].sfd_ino = i /\ block[1].sfd_name = "."
        /\ block[2].sfd_ino = i /\ block[2].sfd_name = ".."
        /\ \A j \in Columns : j \notin {1, 2} => block[j].sfd_ino = 0
    BY <1>1, <2>1, EmptyBlock
  <2>3. QED
    BY <1>4, <2>2 DEF Gives, Dots
<1>. HIDE DEF Formatted, r, block, c
<1>9. m = System \cup {i, c}
  BY DEF Formatted, c
<1>. HIDE DEF i
<1>10. \A k \in Rows : n[i].direct[k] # 0 => k = 1 /\ n[i].direct[k] = c
  BY <1>1, <1>4
<1>11. Tables(n, b, x)
  BY <1>5, <1>6 DEF Tables
<1>12. Kinds(n, b, x, t, m)
  BY <1>2, <1>4, <1>7, <1>9 DEF Kinds, i
<1>13. EntriesLead(n, b, {})
  BY <1>1, <1>2, <1>4, <1>8 DEF EntriesLead
<1>14. LinksOnce(b)
  BY <1>4, <1>8, Zenon DEF LinksOnce
<1>15. AllLinked(n, b, {})
  BY <1>4 DEF AllLinked, i
<1>16. DirectKinds(n, b, t) /\ IndirectKinds(n, x, t)
  BY <1>1, <1>2, <1>4, <1>7, <1>10 DEF DirectKinds, IndirectKinds
<1>17. DirectOnce(n) /\ IndirectOnce(n)
  BY <1>1, <1>4, <1>10 DEF DirectOnce, IndirectOnce
<1>18. RowsOnce(n, x)
  BY <1>4 DEF RowsOnce
<1>19. AllPointed(n, b, x, t)
  BY <1>1, <1>3, <1>4 DEF AllPointed
<1>20. DotsLead(n, b, {})
  <2>1. n[i].direct[1] = c
    BY <1>1, <1>4
  <2>2. DotsOf(n, b, {}, i)
    BY <1>1, <1>4, <1>7, <1>8, <2>1 DEF DotsOf, i
  <2>3. QED
    BY <1>7, <2>2 DEF DotsLead
<1>21. \A k \in Rows, j \in Columns : Used(n, b, i, k, j) <=> k = 1 /\ j \in {1, 2}
  BY <1>1, <1>2, <1>3, <1>4, <1>8, <1>10 DEF Used
<1>22. NamesOnce(n, b)
  <2>1. ASSUME NEW k \in Rows, NEW l \in Rows, NEW j \in Columns, NEW h \in Columns,
               Used(n, b, i, k, j), Used(n, b, i, l, h),
               b[n[i].direct[k]][j].sfd_name = b[n[i].direct[l]][h].sfd_name
        PROVE  k = l /\ j = h
    <3>1. k = 1 /\ l = 1 /\ j \in {1, 2} /\ h \in {1, 2}
      BY <1>21, <2>1
    <3>2. n[i].direct[k] = c /\ n[i].direct[l] = c
      BY <1>1, <1>4, <3>1
    <3>3. QED
      BY <1>4, <1>8, <2>1, <3>1, <3>2
  <2>2. NamesOf(n, b, i)
    BY <2>1, Zenon DEF NamesOf
  <2>3. QED
    BY <1>7, <2>2 DEF NamesOnce
<1>23. SizesCount(n, b)
  <2>1. Cardinality(UsedSlots(n, b, i)) = 2
    BY <1>21, TwoUsed
  <2>2. QED
    BY <1>1, <1>4, <1>7, <2>1 DEF SizesCount
<1>24. FilesHold(n, x, t)
  BY <1>7 DEF FilesHold
<1>25. QED
  BY <1>11, <1>12, <1>13, <1>14, <1>15, <1>16, <1>17, <1>18, <1>19, <1>20, <1>22, <1>23, <1>24 DEF DiskOK

LEMMA FormattedDisk ==
    ASSUME Init
    PROVE  DiskOK(inode, dirBlock, indirect, data, bitmap, {})
<1>1. Formatted(inode, dirBlock, indirect, data, bitmap)
  BY DEF Init, Formatted, NewDir, DotBlock
<1>2. QED
  BY <1>1, FormattedOK

LEMMA InitOK == Init => IndInv
<1> SUFFICES ASSUME Init
             PROVE  IndInv
  OBVIOUS
<1>2. DiskOK(inode, dirBlock, indirect, data, bitmap, {})
  BY FormattedDisk
<1>3. Tables(inode, dirBlock, indirect) /\ bitmap \subseteq Blocks
  BY <1>2 DEF DiskOK, Kinds
<1>4. cwd = SFS_NOINO /\ cwd \in Blocks /\ lacking \in Nat /\ output = NoFile
  BY VolumeFacts DEF Init, SFS_NOINO
<1>5. QED
  BY <1>2, <1>3, <1>4 DEF IndInv, SfsTypes, Output

\* A name leads to an inode on the disk.
LEMMA NamedInode ==
    ASSUME Sound, NEW path, Exists(path)
    PROVE  Ino(path) \in DOMAIN inode /\ Ino(path) \in (IF IsFile(path) THEN FilesIn(inode) ELSE DirsIn(inode))
<1> DEFINE k == Slot(path)[1]
           j == Slot(path)[2]
           ino == Ino(path)
<1>1. /\ k \in Rows /\ j \in Columns /\ Used(inode, dirBlock, cwd, k, j)
      /\ ino = dirBlock[inode[cwd].direct[k]][j].sfd_ino
  BY FoundName DEF FoundAt
<1>2. DiskOK(inode, dirBlock, indirect, data, bitmap, {}) /\ cwd \in DirsIn(inode)
  BY DEF Sound
<1>. HIDE DEF k, j
<1>3. inode[cwd].direct[k] \in DOMAIN dirBlock
  BY <1>1, <1>2 DEF DiskOK, DirectKinds, Used
<1>4. ino \in DOMAIN inode
  BY <1>1, <1>2, <1>3 DEF DiskOK, EntriesLead, Used
<1>5. inode[ino] \in InodeRecords
  BY <1>2, <1>4 DEF DiskOK, Tables
<1>6. QED
  BY <1>4, <1>5 DEF IsFile, DirsIn, FilesIn, InodeRecords

LEMMA MoreBlocks ==
    ASSUME NEW k \in Nat, NEW l \in Nat, k <= l, NEW z \in Nat
    PROVE  k * z <= l * z
<1>1. PICK g \in Nat : l = k + g
  <2>1. l - k \in Nat /\ l = k + (l - k)
    OBVIOUS
  <2>2. QED
    BY <2>1
<1>2. l * z = k * z + g * z
  BY <1>1
<1>3. g * z \in Nat /\ k * z \in Nat
  OBVIOUS
<1>4. QED
  BY <1>2, <1>3

LEMMA CpoutOK ==
    ASSUME Sound, NEW path, Exists(path), IsFile(path), NEW file, file = Content(Ino(path))
    PROVE  Output(file)
<1> DEFINE i == Ino(path)
           s == BlocksIn(inode, indirect, i)
           S == {inode[i].size, Len(s) * SFS_BLOCKSIZE}
           M == SFS_NDIRECT + SFS_DBPERIDB
<1>1. i \in DOMAIN inode /\ i \in FilesIn(inode)
  BY NamedInode
<1>2. file = ContentIn(inode, indirect, data, i)
  BY DEF Content, ContentIn, ContentOf, FileBlocks, BlocksIn
<1>3. file.size = Min(S)
  BY <1>2 DEF ContentIn, ContentOf
<1>. HIDE DEF i
<1>4. Tables(inode, dirBlock, indirect) /\ IndirectKinds(inode, indirect, data) /\ FilesHold(inode, indirect, data)
  BY DEF Sound, DiskOK
<1>5. FromHost(file)
  BY <1>1, <1>2, <1>4 DEF FilesHold, Holding
<1>6. Len(s) \in Nat /\ Len(s) <= M
  <2>1. inode[i].indirect # 0 => inode[i].indirect \in DOMAIN indirect
    BY <1>1, <1>4 DEF IndirectKinds
  <2>2. s \in Seq(Blocks) /\ Len(s) \in 0 .. M
    BY <1>1, <1>4, <2>1, BlocksOfFile
  <2>3. QED
    BY <2>2
<1>7. M \in Nat /\ SFS_BLOCKSIZE \in Nat
  BY SfsAssumption
<1>. HIDE DEF s, M
<1>8. Len(s) * SFS_BLOCKSIZE <= M * SFS_BLOCKSIZE
  BY <1>6, <1>7, MoreBlocks
<1>9. S \in SUBSET Nat /\ S # {}
  <2>1. inode[i].size \in Nat
    BY <1>1, <1>4 DEF Tables, InodeRecords
  <2>2. Len(s) * SFS_BLOCKSIZE \in Nat
    BY <1>6, <1>7
  <2>3. QED
    BY <2>1, <2>2
<1>10. Min(S) \in Nat /\ Min(S) <= Len(s) * SFS_BLOCKSIZE
  BY <1>9, MinOf
<1>11. MaxFileSize = M * SFS_BLOCKSIZE /\ M * SFS_BLOCKSIZE \in Nat
  BY <1>7 DEF MaxFileSize, M
<1>. HIDE DEF S
<1>12. file.size \in 0 .. MaxFileSize
  <2>1. Len(s) * SFS_BLOCKSIZE \in Nat
    BY <1>6, <1>7
  <2> DEFINE y == Len(s) * SFS_BLOCKSIZE
             z == M * SFS_BLOCKSIZE
  <2>2. y \in Nat /\ z \in Nat /\ y <= z /\ Min(S) <= y /\ Min(S) \in Nat /\ file.size = Min(S) /\ MaxFileSize = z
    BY <1>3, <1>8, <1>10, <1>11, <2>1
  <2>. HIDE DEF y, z
  <2>3. QED
    BY <2>2
<1>13. QED
  BY <1>5, <1>12 DEF Output

\* The same disk is lost or is not.
LEMMA LostKept ==
    ASSUME UNCHANGED disk
    PROVE  Lost' <=> Lost
<1>1. UNCHANGED <<bitmap, inode, dirBlock>>
  BY DEF disk
<1>2. Links' = Links
  BY <1>1 DEF Links, Dirs, Entries, Slots, At, IsDot
<1>3. QED
  BY <1>1, <1>2 DEF Lost, RootLost, DotRenamed

\* A command that leaves the disk and the working directory alone, or the disk.
LEMMA Kept ==
    ASSUME IndInv, UNCHANGED <<cwd, disk>>, lacking' \in Nat, Output(output')
    PROVE  IndInv'
<1>1. UNCHANGED <<cwd, bitmap, inode, dirBlock, indirect, data>>
  BY DEF disk
<1>2. Tables(inode', dirBlock', indirect') /\ cwd' \in Blocks /\ bitmap' \subseteq Blocks
  BY <1>1 DEF IndInv, SfsTypes
<1>3. SfsTypes'
  BY <1>2 DEF SfsTypes, Output, FromHost, IsPrefixOf
<1>4. Lost' <=> Lost
  BY LostKept
<1>5. ~Lost => /\ DiskOK(inode', dirBlock', indirect', data', bitmap', {})
               /\ cwd' = SFS_NOINO \/ cwd' \in DirsIn(inode')
  BY <1>1 DEF IndInv
<1>6. QED
  BY <1>3, <1>4, <1>5 DEF IndInv

LEMMA CommandDone ==
    ASSUME DiskOK(inode', dirBlock', indirect', data', bitmap', {}),
           cwd' = SFS_NOINO \/ cwd' \in DirsIn(inode'), lacking' \in Nat, output' = NoFile
    PROVE  IndInv'
<1>1. Tables(inode', dirBlock', indirect') /\ bitmap' \subseteq Blocks /\ DirsIn(inode') \subseteq bitmap'
  BY DEF DiskOK, Kinds, DirsIn
<1>2. cwd' \in Blocks
  BY <1>1, VolumeFacts DEF SFS_NOINO
<1>3. SfsTypes'
  BY <1>1, <1>2 DEF SfsTypes, Output
<1>4. QED
  BY <1>3 DEF IndInv

LEMMA Refused ==
    ASSUME IndInv, NEW message, Refuse(message)
    PROVE  IndInv'
<1>1. UNCHANGED <<cwd, disk>> /\ lacking' \in Nat /\ Output(output')
  BY DEF Refuse, Done, Output
<1>2. QED
  BY <1>1, Kept

LEMMA NoRoomKept ==
    ASSUME IndInv, NEW n \in Nat, NoRoom(n)
    PROVE  IndInv'
<1>1. CASE DirectoryFull /\ Refuse("Directory full")
  BY <1>1, Refused
<1>2. CASE RefuseForRoom(Need(n))
  <2>1. UNCHANGED <<cwd, disk>> /\ lacking' \in Nat /\ Output(output')
    BY <1>2 DEF RefuseForRoom, Need, Output
  <2>2. QED
    BY <2>1, Kept
<1>3. QED
  BY <1>1, <1>2 DEF NoRoom

LEMMA MountedSound ==
    ASSUME IndInv, ~Lost, Mounted
    PROVE  Sound
BY DEF IndInv, Mounted, Sound

LEMMA MountKeeps ==
    ASSUME IndInv, Mount \/ Umount \/ CdRoot
    PROVE  IndInv'
<1>1. UNCHANGED <<bitmap, inode, dirBlock, indirect, data>> /\ lacking' \in Nat /\ output' = NoFile
  BY DEF Mount, Umount, CdRoot, Done, disk
<1>2. cwd' = SFS_NOINO \/ cwd' = SFS_ROOT_LOCATION
  BY DEF Mount, Umount, CdRoot
<1>3. Tables(inode', dirBlock', indirect') /\ cwd' \in Blocks /\ bitmap' \subseteq Blocks
  BY <1>1, <1>2, VolumeFacts DEF IndInv, SfsTypes, SFS_NOINO
<1>4. SfsTypes'
  BY <1>1, <1>3 DEF SfsTypes, Output
<1>5. ~Lost' => ~Lost
  BY <1>1, LostKept DEF disk
<1>6. ~Lost' => DiskOK(inode', dirBlock', indirect', data', bitmap', {})
  BY <1>1, <1>5 DEF IndInv
<1>7. ~Lost' => cwd' = SFS_NOINO \/ cwd' \in DirsIn(inode')
  BY <1>2, <1>6 DEF DiskOK, Kinds
<1>8. QED
  BY <1>4, <1>6, <1>7 DEF IndInv

LEMMA CdKeeps ==
    ASSUME IndInv, ~Lost, NEW path, Cd(path)
    PROVE  IndInv'
<1>1. Sound
  BY MountedSound DEF Cd
<1>2. CASE \E message : Refuse(message)
  BY <1>2, Refused
<1>3. CASE Exists(path) /\ ~IsFile(path) /\ cwd' = Ino(path) /\ Done /\ UNCHANGED disk
  <2>1. cwd' \in DirsIn(inode)
    BY <1>1, <1>3, NamedInode
  <2>2. UNCHANGED <<bitmap, inode, dirBlock, indirect, data>> /\ lacking' \in Nat /\ output' = NoFile
    BY <1>3 DEF Done, disk
  <2>3. DiskOK(inode', dirBlock', indirect', data', bitmap', {}) /\ cwd' \in DirsIn(inode')
    BY <1>1, <2>1, <2>2 DEF Sound
  <2>4. QED
    BY <2>2, <2>3, CommandDone
<1>4. QED
  BY <1>2, <1>3 DEF Cd

LEMMA RmdirKeeps ==
    ASSUME IndInv, ~Lost, NEW path, Rmdir(path)
    PROVE  IndInv'
<1>1. Sound
  BY MountedSound DEF Rmdir
<1>2. CASE \E message : Refuse(message)
  BY <1>2, Refused
<1>3. CASE /\ path # "." /\ Exists(path) /\ ~IsFile(path) /\ ~HasEntries(Ino(path))
           /\ Release(path, RmdirBlocks(Ino(path))) /\ Done /\ UNCHANGED cwd
  <2>1. lacking' \in Nat /\ output' = NoFile /\ cwd' = cwd
    BY <1>3 DEF Done
  <2>2. CASE SFS_ROOT_LOCATION \in bitmap'
    <3>1. DiskOK(inode', dirBlock', indirect', data', bitmap', {}) /\ cwd \in DirsIn(inode')
      BY <1>1, <1>3, <2>2, RmdirOK
    <3>2. QED
      BY <2>1, <3>1, CommandDone
  <2>3. CASE SFS_ROOT_LOCATION \notin bitmap'
    <3>1. Tables(inode', dirBlock', indirect') /\ bitmap' \subseteq Blocks
      BY <1>1, <1>3, ReleaseTypes
    <3>2. SfsTypes'
      BY <2>1, <3>1 DEF IndInv, SfsTypes, Output
    <3>3. Lost'
      BY <2>3 DEF Lost, RootLost
    <3>4. QED
      BY <3>2, <3>3 DEF IndInv
  <2>4. QED
    BY <2>2, <2>3
<1>4. QED
  BY <1>2, <1>3 DEF Rmdir

LEMMA RmKeeps ==
    ASSUME IndInv, ~Lost, NEW path, Rm(path)
    PROVE  IndInv'
<1>1. Sound
  BY MountedSound DEF Rm
<1>2. CASE \E message : Refuse(message)
  BY <1>2, Refused
<1>3. CASE /\ Exists(path) /\ IsFile(path)
           /\ Release(path, RmBlocks(Ino(path))) /\ Done /\ UNCHANGED cwd
  <2>1. lacking' \in Nat /\ output' = NoFile /\ cwd' = cwd
    BY <1>3 DEF Done
  <2>2. DiskOK(inode', dirBlock', indirect', data', bitmap', {}) /\ cwd \in DirsIn(inode')
    BY <1>1, <1>3, RmOK
  <2>3. QED
    BY <2>1, <2>2, CommandDone
<1>4. QED
  BY <1>2, <1>3 DEF Rm

\* "." and "..", where they are found.
LEMMA DotNames ==
    ASSUME NEW n, NEW b, NEW x, NEW t, NEW m, DiskOK(n, b, x, t, m, {}),
           NEW d \in DirsIn(n), NEW k \in Rows, NEW j \in Columns, Used(n, b, d, k, j),
           NEW name \in Dots, b[n[d].direct[k]][j].sfd_name = name,
           NEW i, i = b[n[d].direct[k]][j].sfd_ino
    PROVE  \/ name = "." /\ i = d
           \/ name = ".." /\ d = SFS_ROOT_LOCATION /\ i = d
           \/ name = ".." /\ d # SFS_ROOT_LOCATION /\ Holds(n, b, i, d)
<1> DEFINE f == n[d].direct[k]
<1>1. f \in DOMAIN b /\ f # 0 /\ b[f][j].sfd_ino # 0 /\ d \in DOMAIN n
  BY DEF DiskOK, DirectKinds, Used, DirsIn
<1>2. PICK e \in DirsIn(n) : f = n[e].direct[1] /\ (j = 1 \/ j = 2)
  <2>. HIDE DEF f
  <2>1. \E e \in DirsIn(n) : /\ f = n[e].direct[1]
                             /\ \/ j = 1 /\ b[f][j].sfd_ino = e
                                \/ j = 2 /\ DotsOf(n, b, {}, e)
    BY <1>1, DotEntries DEF f
  <2>2. QED
    BY <2>1
<1>3. 1 \in Rows
  BY SfsAssumption DEF Rows
<1>4. e = d /\ f = n[d].direct[1]
  BY <1>1, <1>2, <1>3 DEF DiskOK, DirectOnce, DirsIn
<1>5. DotsOf(n, b, {}, d)
  BY DEF DiskOK, DotsLead
<1>6. /\ b[f][1] = Entry(d, ".") /\ b[f][2].sfd_name = ".."
      /\ d = SFS_ROOT_LOCATION => b[f][2].sfd_ino = d
      /\ d # SFS_ROOT_LOCATION => Holds(n, b, b[f][2].sfd_ino, d)
  BY <1>4, <1>5 DEF DotsOf
<1>. HIDE DEF f
<1>7. CASE j = 1
  BY <1>6, <1>7 DEF Entry, f
<1>8. CASE j = 2
  BY <1>6, <1>8 DEF f
<1>9. QED
  BY <1>2, <1>7, <1>8

\* What mv writes.
MvRenames(src, dst) ==
    /\ ~Exists(dst) /\ Exists(src)
    /\ dirBlock' = LET s == Slot(src)
                   IN  [dirBlock EXCEPT ![inode[cwd].direct[s[1]]][s[2]].sfd_name = dst]
    /\ Done /\ UNCHANGED <<cwd, bitmap, inode, indirect, data>>

LEMMA MvRenamesOnly ==
    ASSUME NEW src, NEW dst, MvRenames(src, dst)
    PROVE  /\ Exists(src) /\ ~Exists(dst)
           /\ inode' = inode /\ indirect' = indirect /\ data' = data /\ bitmap' = bitmap /\ cwd' = cwd
           /\ lacking' = 0 /\ output' = NoFile
BY Zenon DEF MvRenames, Done

LEMMA MvEntry ==
    ASSUME Sound, NEW src, NEW dst, MvRenames(src, dst), NEW k, NEW j, FoundAt(src, k, j),
           k = Slot(src)[1], j = Slot(src)[2]
    PROVE  /\ dirBlock' = EntryPut(dirBlock, inode[cwd].direct[k], j, Entry(Ino(src), dst))
           /\ inode[cwd].direct[k] \in DOMAIN dirBlock
<1> DEFINE f == inode[cwd].direct[k]
           e == Entry(Ino(src), dst)
<1>1. dirBlock' = Renamed(dirBlock, f, j, dst)
  BY Zenon DEF MvRenames, Renamed
<1>2. /\ k \in Rows /\ j \in Columns /\ Used(inode, dirBlock, cwd, k, j)
      /\ Ino(src) = dirBlock[f][j].sfd_ino
  BY DEF FoundAt
<1>3. f \in DOMAIN dirBlock /\ dirBlock \in [DOMAIN dirBlock -> [Columns -> EntryRecords]]
  BY <1>2 DEF Sound, DiskOK, Tables, DirectKinds, Used
<1>4. e = Entry(dirBlock[f][j].sfd_ino, dst)
  BY <1>2
<1>. HIDE DEF e, f
<1>5. dirBlock' = EntryPut(dirBlock, f, j, e)
  BY <1>1, <1>2, <1>3, <1>4, RenamedEntry
<1>6. QED
  BY <1>3, <1>5 DEF e, f

LEMMA MvNameOK ==
    ASSUME Sound, NEW src \in Names, NEW dst \in Names, MvRenames(src, dst)
    PROVE  DiskOK(inode, dirBlock', indirect, data, bitmap, {})
<1>1. Exists(src) /\ ~Exists(dst)
  BY MvRenamesOnly
<1>2. PICK k, j : k = Slot(src)[1] /\ j = Slot(src)[2]
  OBVIOUS
<1>3. FoundAt(src, k, j)
  BY <1>1, <1>2, FoundName
<1>4. dirBlock' = EntryPut(dirBlock, inode[cwd].direct[k], j, Entry(Ino(src), dst))
  BY <1>2, <1>3, MvEntry
<1>5. QED
  BY <1>1, <1>2, <1>4, MvOK

LEMMA MvNameKeeps ==
    ASSUME Sound, NEW src \in Names, NEW dst \in Names, MvRenames(src, dst)
    PROVE  IndInv'
<1>1. DiskOK(inode, dirBlock', indirect, data, bitmap, {})
  BY MvNameOK
<1>2. /\ inode' = inode /\ indirect' = indirect /\ data' = data /\ bitmap' = bitmap /\ cwd' = cwd
      /\ lacking' \in Nat /\ output' = NoFile
  BY MvRenamesOnly
<1>3. DiskOK(inode', dirBlock', indirect', data', bitmap', {}) /\ cwd' \in DirsIn(inode')
  BY <1>1, <1>2 DEF Sound
<1>4. QED
  BY <1>2, <1>3, CommandDone

\* A directory has its "." and "..".
LEMMA DotsFound ==
    ASSUME Sound, NEW x \in Dots
    PROVE  Exists(x) /\ Ino(x) \in DirsIn(inode)
<1>1. /\ DiskOK(inode, dirBlock, indirect, data, bitmap, {}) /\ cwd \in DirsIn(inode)
      /\ DotsOf(inode, dirBlock, {}, cwd)
  BY DEF Sound, DiskOK, DotsLead
<1>2. 1 \in Rows /\ 1 \in Columns /\ 2 \in Columns /\ inode[cwd].direct[1] # 0 /\ 0 \notin DirsIn(inode)
  <2>1. DiskFacts(inode, dirBlock, indirect, data, bitmap)
    BY <1>1, OnDisk
  <2>2. QED
    BY <1>1, <2>1 DEF DiskFacts, DirsIn
<1>3. /\ Used(inode, dirBlock, cwd, 1, 1) /\ dirBlock[inode[cwd].direct[1]][1].sfd_name = "."
      /\ Used(inode, dirBlock, cwd, 1, 2) /\ dirBlock[inode[cwd].direct[1]][2].sfd_name = ".."
  BY <1>1, <1>2 DEF DotsOf, Entry, Used
<1>4. Exists(x)
  BY <1>2, <1>3, NoSuchName DEF Dots
<1>5. PICK k, j : k = Slot(x)[1] /\ j = Slot(x)[2]
  OBVIOUS
<1>6. FoundAt(x, k, j)
  BY <1>4, <1>5, FoundName
<1>7. ~IsFile(x)
  <2>1. dirBlock[inode[cwd].direct[k]][j].sfd_name \in Dots
    BY <1>6 DEF FoundAt
  <2>2. ~Gives(dirBlock, inode[cwd].direct[k], j)
    BY <2>1 DEF Gives
  <2>3. QED
    BY <1>4, <1>5, <2>2, GivenName
<1>8. QED
  BY <1>4, <1>7, NamedInode

LEMMA NamedLink ==
    ASSUME NEW d \in DirsIn(inode'), NEW k \in Rows, NEW j \in Columns, Used(inode', dirBlock', d, k, j),
           NEW e, e = dirBlock'[inode'[d].direct[k]][j], e.sfd_name \notin Dots
    PROVE  <<d, e.sfd_name, e.sfd_ino>> \in Links'
<1>1. PICK s : s = <<k, j>>
  OBVIOUS
<1>2. d \in Dirs'
  BY DEF Dirs, DirsIn
<1>3. s \in Rows \X Columns /\ s[1] = k /\ s[2] = j
  BY <1>1
<1>4. At(d, s)' = e
  BY <1>3 DEF At
<1>5. s \in Entries(d)' /\ ~IsDot(d, s)'
  BY <1>3, <1>4 DEF Entries, Slots, Used, IsDot, Dots, SFS_NOINO, Rows, Columns
<1>6. QED
  BY <1>2, <1>4, <1>5 DEF Links

\* After mv of "." or ".." the working directory has a name for itself, or for
\* the directory that has a name for it.
LEMMA MvDotLoses ==
    ASSUME Sound, NEW src \in Dots, NEW dst \in Names, MvRenames(src, dst)
    PROVE  Tables(inode', dirBlock', indirect') /\ Lost'
<1> DEFINE f == inode[cwd].direct[Slot(src)[1]]
           i == Ino(src)
<1>1. PICK k, j : k = Slot(src)[1] /\ j = Slot(src)[2]
  OBVIOUS
<1>2. /\ DiskOK(inode, dirBlock, indirect, data, bitmap, {}) /\ cwd \in DirsIn(inode)
      /\ i \in DirsIn(inode) /\ Exists(src)
  BY DotsFound DEF Sound
<1>3. FoundAt(src, k, j)
  BY <1>1, <1>2, FoundName
<1>4. /\ k \in Rows /\ j \in Columns /\ Used(inode, dirBlock, cwd, k, j)
      /\ dirBlock[f][j].sfd_name = src /\ dirBlock[f][j].sfd_ino = i /\ f = inode[cwd].direct[k]
  BY <1>1, <1>3 DEF FoundAt
<1>5. dirBlock' = EntryPut(dirBlock, f, j, Entry(i, dst)) /\ f \in DOMAIN dirBlock
  BY <1>1, <1>3, MvEntry
<1>6. dst \notin Dots /\ inode' = inode /\ indirect' = indirect
  BY SfsAssumption, MvRenamesOnly DEF Dots
<1>7. i # 0 /\ i \in Blocks /\ f # 0
  <2>1. DOMAIN inode \subseteq Blocks
    BY <1>2 DEF DiskOK, Kinds
  <2>2. QED
    BY <1>2, <1>4, <2>1 DEF Used, DirsIn
<1>8. /\ dirBlock \in [DOMAIN dirBlock -> [Columns -> EntryRecords]]
      /\ inode \in [DOMAIN inode -> InodeRecords] /\ indirect \in [DOMAIN indirect -> [IndirectRows -> Blocks]]
  BY <1>2 DEF DiskOK, Tables
<1>. HIDE DEF f, i
<1>9. Entry(i, dst) \in EntryRecords /\ Entry(i, dst).sfd_ino = i /\ Entry(i, dst).sfd_name = dst
  BY <1>7 DEF Entry, EntryRecords, Paths
<1>10. EntrySet(dirBlock, dirBlock', f, j, Entry(i, dst))
  BY <1>4, <1>5, <1>8, <1>9, EntryPutAt
<1>11. Tables(inode', dirBlock', indirect')
  BY <1>6, <1>8, <1>10 DEF EntrySet, Tables
<1>12. <<cwd, dst, i>> \in Links'
  <2>1. PICK e : e = dirBlock'[inode'[cwd].direct[k]][j]
    OBVIOUS
  <2>2. e = Entry(i, dst)
    BY <1>4, <1>5, <1>6, <1>10, <2>1 DEF EntrySet
  <2>3. Used(inode', dirBlock', cwd, k, j)
    BY <1>4, <1>6, <1>7, <1>9, <2>1, <2>2 DEF Used
  <2>4. QED
    BY <1>2, <1>4, <1>6, <1>9, <2>1, <2>2, <2>3, NamedLink
<1>13. i = cwd \/ Holds(inode, dirBlock, i, cwd)
  BY <1>2, <1>4, DotNames
<1>14. CASE i = cwd
  <2>1. PICK l : l = <<cwd, dst, i>>
    OBVIOUS
  <2>2. l \in Links' /\ l[1] = l[3]
    BY <1>12, <1>14, <2>1
  <2>3. QED
    BY <1>11, <2>2 DEF Lost, DotRenamed
<1>15. CASE Holds(inode, dirBlock, i, cwd)
  <2>1. PICK k2 \in Rows, j2 \in Columns :
            /\ inode[i].direct[k2] # 0
            /\ Gives(dirBlock, inode[i].direct[k2], j2) /\ dirBlock[inode[i].direct[k2]][j2].sfd_ino = cwd
    BY <1>15 DEF Holds
  <2>2. PICK g : g = inode[i].direct[k2]
    OBVIOUS
  <2>3. g \in DOMAIN dirBlock /\ ~(g = f /\ j2 = j)
    BY <1>2, <1>4, <2>1, <2>2 DEF DiskOK, DirectKinds, Gives
  <2>4. PICK e : e = dirBlock[g][j2]
    OBVIOUS
  <2>5. e = dirBlock'[inode'[i].direct[k2]][j2]
    BY <1>6, <1>10, <2>1, <2>2, <2>3, <2>4 DEF EntrySet
  <2>6. e.sfd_ino = cwd /\ e.sfd_ino # 0 /\ e.sfd_name \notin Dots
    BY <2>1, <2>2, <2>4 DEF Gives
  <2>7. Used(inode', dirBlock', i, k2, j2)
    BY <1>6, <2>1, <2>5, <2>6 DEF Used
  <2>8. <<i, e.sfd_name, e.sfd_ino>> \in Links'
    BY <1>2, <1>6, <2>1, <2>5, <2>6, <2>7, NamedLink
  <2>9. PICK l, m : l = <<cwd, dst, i>> /\ m = <<i, e.sfd_name, e.sfd_ino>>
    OBVIOUS
  <2>10. l \in Links' /\ m \in Links' /\ l[1] = m[3] /\ l[3] = m[1]
    BY <1>12, <2>6, <2>8, <2>9
  <2>11. QED
    BY <1>11, <2>10 DEF Lost, DotRenamed
<1>16. QED
  BY <1>13, <1>14, <1>15

LEMMA MvKeeps ==
    ASSUME IndInv, ~Lost, NEW src \in Paths, NEW dst \in Paths, Mv(src, dst)
    PROVE  IndInv'
<1>1. Sound
  BY MountedSound, Zenon DEF Mv
<1>2. CASE \E message : Refuse(message)
  BY <1>2, Refused
<1>3. CASE MvRenames(src, dst)
  <2>1. dst \in Names
    BY <1>1, <1>3, DotsFound, MvRenamesOnly DEF Paths, Dots
  <2>2. CASE src \in Names
    BY <1>1, <1>3, <2>1, <2>2, MvNameKeeps
  <2>3. CASE src \in Dots
    <3>1. Tables(inode', dirBlock', indirect') /\ Lost'
      BY <1>1, <1>3, <2>1, <2>3, MvDotLoses
    <3>2. cwd' = cwd /\ bitmap' = bitmap /\ lacking' \in Nat /\ output' = NoFile
      BY <1>3, MvRenamesOnly
    <3>3. SfsTypes'
      BY <3>1, <3>2 DEF IndInv, SfsTypes, Output
    <3>4. QED
      BY <3>1, <3>3 DEF IndInv
  <2>4. QED
    BY <2>2, <2>3 DEF Paths, Dots
<1>4. QED
  BY <1>2, <1>3, Zenon DEF Mv, MvRenames

LEMMA TouchKeeps ==
    ASSUME IndInv, ~Lost, NEW path \in Names, Touch(path)
    PROVE  IndInv'
<1>1. Sound
  BY MountedSound DEF Touch
<1>2. CASE Refuse("Already exists")
  BY <1>2, Refused
<1>3. CASE NoRoom(1)
  BY <1>3, NoRoomKept
<1>4. CASE ~Refuse("Already exists") /\ ~NoRoom(1)
  <2> DEFINE s == Lowest(Need(1))
             n2 == Put(InodesEntered(Last(s)), s[1], NewFile)
  <2>1. /\ ~Exists(path) /\ Room(1)
        /\ inode' = n2 /\ dirBlock' = DirBlocksEntered(Entry(s[1], path), Last(s))
        /\ bitmap' = bitmap \cup ToSet(s) /\ Done /\ UNCHANGED <<cwd, indirect, data>>
    BY <1>4, Zenon DEF Touch
  <2>. HIDE DEF s, n2
  <2>2. /\ DiskOK(n2, DirBlocksEntered(Entry(s[1], path), Last(s)), indirect, data, bitmap \cup ToSet(s), {})
        /\ cwd \in DirsIn(n2)
    BY <1>1, <2>1, TouchOK DEF s, n2
  <2>3. DiskOK(inode', dirBlock', indirect', data', bitmap', {}) /\ cwd' \in DirsIn(inode')
    BY <2>1, <2>2
  <2>4. lacking' \in Nat /\ output' = NoFile
    BY <2>1 DEF Done
  <2>5. QED
    BY <2>3, <2>4, CommandDone
<1>5. QED
  BY <1>2, <1>3, <1>4

LEMMA MkdirKeeps ==
    ASSUME IndInv, ~Lost, NEW path \in Names, Mkdir(path)
    PROVE  IndInv'
<1>1. Sound
  BY MountedSound DEF Mkdir
<1>2. CASE Refuse("Already exists")
  BY <1>2, Refused
<1>3. CASE NoRoom(2)
  BY <1>3, NoRoomKept
<1>4. CASE ~Refuse("Already exists") /\ ~NoRoom(2)
  <2> DEFINE s == Lowest(Need(2))
             ino == s[Need(1)]
             first == s[Need(2)]
             n2 == Put(InodesEntered(s[1]), ino, NewDir(first))
             b2 == Put(DirBlocksEntered(Entry(ino, path), s[1]), first, DotBlock(ino, cwd))
  <2>1. /\ ~Exists(path) /\ Room(2)
        /\ inode' = n2 /\ dirBlock' = b2
        /\ bitmap' = bitmap \cup ToSet(s) /\ Done /\ UNCHANGED <<cwd, indirect, data>>
    BY <1>4, Zenon DEF Mkdir, NewDir, DotBlock
  <2>2. DiskOK(n2, b2, indirect, data, bitmap \cup ToSet(s), {}) /\ cwd \in DirsIn(n2)
    BY <1>1, <2>1, MkdirOK
  <2>. HIDE DEF s, n2, b2
  <2>3. DiskOK(inode', dirBlock', indirect', data', bitmap', {}) /\ cwd' \in DirsIn(inode')
    BY <2>1, <2>2
  <2>4. lacking' \in Nat /\ output' = NoFile
    BY <2>1 DEF Done
  <2>5. QED
    BY <2>3, <2>4, CommandDone
<1>5. QED
  BY <1>2, <1>3, <1>4

LEMMA CpinKeeps ==
    ASSUME IndInv, ~Lost, NEW path \in Names, NEW h \in HostFiles, Cpin(path, h)
    PROVE  IndInv'
<1> DEFINE file == HostFile(h)
           e == Lowest(Need(1))
           ino == Last(e)
           s == Scan(bitmap \cup ToSet(e), Wanted(file.size))
           n2 == Put(InodesEntered(e[1]), ino, CopiedInode(file, s))
<1>1. Sound
  BY MountedSound DEF Cpin
<1>2. CASE \E message : Refuse(message)
  BY <1>2, Refused
<1>3. CASE NoRoom(1)
  BY <1>3, NoRoomKept
<1>4. CASE ~(\E message : Refuse(message)) /\ ~NoRoom(1)
  <2>1. /\ ~Exists(path) /\ Room(1) /\ file # NoFile
        /\ inode' = n2 /\ dirBlock' = DirBlocksEntered(Entry(ino, path), e[1])
        /\ indirect' = CopiedIndirect(s) /\ data' = CopiedData(file, s)
        /\ bitmap' = Marked(e, s) /\ cwd' = cwd
        /\ lacking' = (IF Len(s) < Wanted(file.size) THEN 1 ELSE 0) /\ output' = NoFile
    BY <1>4 DEF Cpin
  <2>2. /\ DiskOK(n2, DirBlocksEntered(Entry(ino, path), e[1]), CopiedIndirect(s), CopiedData(file, s),
                  Marked(e, s), {})
        /\ cwd \in DirsIn(n2)
    BY <1>1, <2>1, CpinOK
  <2>. HIDE DEF file, e, ino, s, n2
  <2>3. DiskOK(inode', dirBlock', indirect', data', bitmap', {}) /\ cwd' \in DirsIn(inode')
    BY <2>1, <2>2
  <2>4. lacking' \in Nat
    BY <2>1
  <2>5. QED
    BY <2>1, <2>3, <2>4, CommandDone
<1>5. QED
  BY <1>2, <1>3, <1>4

LEMMA CpoutKeeps ==
    ASSUME IndInv, ~Lost, NEW path, Cpout(path)
    PROVE  IndInv'
<1>1. Sound
  BY MountedSound DEF Cpout
<1>2. CASE \E message : Refuse(message)
  BY <1>2, Refused
<1>3. CASE /\ Exists(path) /\ IsFile(path)
           /\ output' = Content(Ino(path)) /\ lacking' = 0 /\ UNCHANGED <<cwd, disk>>
  <2>1. Output(output')
    BY <1>1, <1>3, CpoutOK
  <2>2. QED
    BY <1>3, <2>1, Kept
<1>4. QED
  BY <1>2, <1>3 DEF Cpout

LEMMA NextOK == IndInv /\ [Next]_vars => IndInv'
<1> SUFFICES ASSUME IndInv, [Next]_vars
             PROVE  IndInv'
  OBVIOUS
<1>1. CASE Mount \/ Umount \/ CdRoot
  BY <1>1, MountKeeps
<1>2. ASSUME ~Lost, NEW path \in Paths, Cd(path) \/ Rmdir(path) \/ Rm(path)
      PROVE  IndInv'
  BY <1>2, CdKeeps, RmdirKeeps, RmKeeps
<1>3. ASSUME ~Lost, NEW src \in Paths, NEW dst \in Paths, Mv(src, dst)
      PROVE  IndInv'
  BY <1>3, MvKeeps
<1>4. ASSUME ~Lost, NEW path \in Names, Touch(path) \/ Mkdir(path) \/ Cpout(path)
      PROVE  IndInv'
  BY <1>4, TouchKeeps, MkdirKeeps, CpoutKeeps
<1>5. ASSUME ~Lost, NEW path \in Names, NEW h \in HostFiles, Cpin(path, h)
      PROVE  IndInv'
  BY <1>5, CpinKeeps
<1>6. CASE UNCHANGED vars
  <2>1. UNCHANGED <<cwd, disk>> /\ lacking' = lacking /\ output' = output
    BY <1>6 DEF vars, report
  <2>2. lacking' \in Nat /\ Output(output')
    BY <2>1 DEF IndInv, SfsTypes
  <2>3. QED
    BY <2>1, <2>2, Kept
<1>7. QED
  BY <1>1, <1>2, <1>3, <1>4, <1>5, <1>6 DEF Next, Command

LEMMA Inductive == Spec => []IndInv
BY InitOK, NextOK, PTL DEF Spec

----------------------------------------------------------------------------
\* What the invariant says in the words of Sfs.

LEMMA SlotParts ==
    ASSUME NEW s \in Rows \X Columns
    PROVE  s = <<s[1], s[2]>> /\ s[1] \in Rows /\ s[2] \in Columns
OBVIOUS

LEMMA SlotsAre ==
    ASSUME NEW d
    PROVE  /\ Entries(d) = UsedSlots(inode, dirBlock, d)
           /\ \A s \in Entries(d) :
                 /\ s[1] \in Rows /\ s[2] \in Columns /\ s = <<s[1], s[2]>>
                 /\ Used(inode, dirBlock, d, s[1], s[2])
                 /\ At(d, s) = dirBlock[inode[d].direct[s[1]]][s[2]]
           /\ \A k \in Rows, j \in Columns : Used(inode, dirBlock, d, k, j) => <<k, j>> \in Entries(d)
<1>1. ASSUME NEW s \in Rows \X Columns
      PROVE  s \in Entries(d) <=> Used(inode, dirBlock, d, s[1], s[2])
  BY DEF Entries, Slots, Used, At, Rows, Columns, SFS_NOINO
<1>2. Entries(d) \in SUBSET (Rows \X Columns)
  BY DEF Entries, Slots, Rows, Columns
<1>3. Entries(d) = UsedSlots(inode, dirBlock, d)
  BY <1>1, <1>2 DEF UsedSlots
<1>4. ASSUME NEW s \in Entries(d)
      PROVE  /\ s[1] \in Rows /\ s[2] \in Columns /\ s = <<s[1], s[2]>>
             /\ Used(inode, dirBlock, d, s[1], s[2])
             /\ At(d, s) = dirBlock[inode[d].direct[s[1]]][s[2]]
  <2>1. s \in Rows \X Columns
    BY <1>2
  <2>2. QED
    BY <1>1, <2>1, SlotParts DEF At
<1>5. ASSUME NEW k \in Rows, NEW j \in Columns, Used(inode, dirBlock, d, k, j)
      PROVE  <<k, j>> \in Entries(d)
  <2> DEFINE s == <<k, j>>
  <2>1. s \in Rows \X Columns /\ s[1] = k /\ s[2] = j
    OBVIOUS
  <2>. HIDE DEF s
  <2>2. s \in Entries(d)
    BY <1>1, <1>5, <2>1
  <2>3. QED
    BY <2>2 DEF s
<1>6. QED
  BY <1>3, <1>4, <1>5

\* The pointers by what they are part of.
NamePointer(d, k, j, p) ==
    /\ Used(inode, dirBlock, d, k, j) /\ Gives(dirBlock, inode[d].direct[k], j)
    /\ p = <<d, <<k, j>>, dirBlock[inode[d].direct[k]][j].sfd_ino>>
DirectPointer(i, k, p) == p = <<i, <<k, 0>>, inode[i].direct[k]>>
TablePointer(i, p) == p = <<i, <<0, 0>>, inode[i].indirect>>
RowPointer(c, k, p) == p = <<c, <<k, 0>>, indirect[c][k]>>

IsNamePointer(p) == \E d \in DirsIn(inode), k \in Rows, j \in Columns : NamePointer(d, k, j, p)
IsDirectPointer(p) == \E i \in DOMAIN inode, k \in Rows : DirectPointer(i, k, p)
IsTablePointer(p) == \E i \in DOMAIN inode : TablePointer(i, p)
IsRowPointer(p) == \E c \in DOMAIN indirect, k \in IndirectRows : RowPointer(c, k, p)

LEMMA PointersAre ==
    ASSUME NEW p
    PROVE  p \in Pointers <=> IsNamePointer(p) \/ IsDirectPointer(p) \/ IsTablePointer(p) \/ IsRowPointer(p)
<1>1. p \in EntryPointers <=> IsNamePointer(p)
  <2>1. p \in EntryPointers <=> \E d \in Dirs : \E s \in Entries(d) : ~IsDot(d, s) /\ p = <<d, s, At(d, s).sfd_ino>>
    BY DEF EntryPointers
  <2>2. Dirs = DirsIn(inode)
    BY DEF Dirs, DirsIn
  <2>3. ASSUME NEW d \in Dirs, NEW s \in Entries(d), ~IsDot(d, s), p = <<d, s, At(d, s).sfd_ino>>
        PROVE  IsNamePointer(p)
    <3> DEFINE k == s[1]
               j == s[2]
    <3>1. /\ k \in Rows /\ j \in Columns /\ s = <<k, j>> /\ Used(inode, dirBlock, d, k, j)
          /\ At(d, s) = dirBlock[inode[d].direct[k]][j]
      BY SlotsAre
    <3>. HIDE DEF k, j
    <3>2. Gives(dirBlock, inode[d].direct[k], j)
      BY <2>3, <3>1 DEF IsDot, Gives, Used, Dots
    <3>3. NamePointer(d, k, j, p)
      BY <2>3, <3>1, <3>2 DEF NamePointer
    <3>4. QED
      BY <2>2, <3>1, <3>3 DEF IsNamePointer
  <2>4. ASSUME NEW d \in Dirs, NEW k \in Rows, NEW j \in Columns, NamePointer(d, k, j, p)
        PROVE  \E s \in Entries(d) : ~IsDot(d, s) /\ p = <<d, s, At(d, s).sfd_ino>>
    <3> DEFINE s == <<k, j>>
    <3>1. s \in Entries(d)
      BY <2>4, SlotsAre DEF NamePointer
    <3>2. s[1] = k /\ s[2] = j /\ p = <<d, s, dirBlock[inode[d].direct[k]][j].sfd_ino>>
      BY <2>4 DEF NamePointer
    <3>. HIDE DEF s
    <3>3. At(d, s) = dirBlock[inode[d].direct[k]][j]
      BY <3>2 DEF At
    <3>4. ~IsDot(d, s)
      BY <2>4, <3>3 DEF IsDot, NamePointer, Gives, Dots
    <3>5. QED
      BY <3>1, <3>2, <3>3, <3>4
  <2>5. QED
    BY <2>1, <2>2, <2>3, <2>4, Zenon DEF IsNamePointer
<1>2. p \in DirectPointers <=> IsDirectPointer(p)
  BY DEF IsDirectPointer, DirectPointer, DirectPointers, Rows
<1>3. p \in TablePointers <=> IsTablePointer(p)
  BY DEF IsTablePointer, TablePointer, TablePointers
<1>4. p \in RowPointers <=> IsRowPointer(p)
  BY DEF IsRowPointer, RowPointer, RowPointers, IndirectRows
<1>5. QED
  BY <1>1, <1>2, <1>3, <1>4 DEF Pointers

\* What a pointer that is not 0 leads to.
LEMMA PointersLead ==
    ASSUME DiskOK(inode, dirBlock, indirect, data, bitmap, {}), NEW p, p[3] # 0
    PROVE  /\ IsNamePointer(p) => p[3] \in DOMAIN inode \ {SFS_ROOT_LOCATION}
           /\ IsDirectPointer(p) => p[3] \in DOMAIN dirBlock \cup DOMAIN data
           /\ IsTablePointer(p) => p[3] \in DOMAIN indirect
           /\ IsRowPointer(p) => p[3] \in DOMAIN data
<1>1. DiskFacts(inode, dirBlock, indirect, data, bitmap)
  BY OnDisk
<1>2. ASSUME NEW d \in DirsIn(inode), NEW k \in Rows, NEW j \in Columns, NamePointer(d, k, j, p)
      PROVE  p[3] \in DOMAIN inode \ {SFS_ROOT_LOCATION}
  <2>1. inode[d].direct[k] \in DOMAIN dirBlock
    BY <1>2 DEF NamePointer, Used, DiskOK, DirectKinds
  <2>2. p[3] = dirBlock[inode[d].direct[k]][j].sfd_ino
    BY <1>2 DEF NamePointer
  <2>3. QED
    BY <1>2, <2>1, <2>2 DEF NamePointer, DiskOK, EntriesLead
<1>3. ASSUME NEW i \in DOMAIN inode, NEW k \in Rows, DirectPointer(i, k, p)
      PROVE  p[3] \in DOMAIN dirBlock \cup DOMAIN data
  BY <1>1, <1>3 DEF DirectPointer, DiskFacts
<1>4. ASSUME NEW i \in DOMAIN inode, TablePointer(i, p)
      PROVE  p[3] \in DOMAIN indirect
  <2>1. p[3] = inode[i].indirect
    BY <1>4 DEF TablePointer
  <2>2. i \in DirsIn(inode) \/ i \in FilesIn(inode)
    BY <1>1 DEF DiskFacts
  <2>3. QED
    BY <2>1, <2>2 DEF DiskOK, IndirectKinds
<1>5. ASSUME NEW c \in DOMAIN indirect, NEW k \in IndirectRows, RowPointer(c, k, p)
      PROVE  p[3] \in DOMAIN data
  BY <1>5 DEF RowPointer, DiskOK, IndirectKinds
<1>6. QED
  BY <1>2, <1>3, <1>4, <1>5 DEF IsNamePointer, IsDirectPointer, IsTablePointer, IsRowPointer

\* Two pointers to one block are one.
LEMMA PointersApart ==
    ASSUME DiskOK(inode, dirBlock, indirect, data, bitmap, {}),
           NEW p \in LivePointers, NEW q \in LivePointers, p[3] = q[3]
    PROVE  p = q
<1>1. /\ p[3] # 0 /\ q[3] # 0
      /\ IsNamePointer(p) \/ IsDirectPointer(p) \/ IsTablePointer(p) \/ IsRowPointer(p)
      /\ IsNamePointer(q) \/ IsDirectPointer(q) \/ IsTablePointer(q) \/ IsRowPointer(q)
  BY PointersAre DEF LivePointers
<1>2. CASE IsNamePointer(p) /\ IsNamePointer(q)
  <2>1. PICK d \in DirsIn(inode), k \in Rows, j \in Columns : NamePointer(d, k, j, p)
    BY <1>2 DEF IsNamePointer
  <2>2. PICK e \in DirsIn(inode), l \in Rows, i \in Columns : NamePointer(e, l, i, q)
    BY <1>2 DEF IsNamePointer
  <2> DEFINE f == inode[d].direct[k]
             g == inode[e].direct[l]
  <2>3. /\ Gives(dirBlock, f, j) /\ Gives(dirBlock, g, i) /\ dirBlock[f][j].sfd_ino = dirBlock[g][i].sfd_ino
        /\ f # 0 /\ g # 0
    BY <2>1, <2>2 DEF NamePointer, Used
  <2>4. f \in DOMAIN dirBlock /\ g \in DOMAIN dirBlock
    BY <2>3 DEF DiskOK, DirectKinds
  <2>5. d \in DOMAIN inode /\ e \in DOMAIN inode
    BY DEF DirsIn
  <2>6. LinksOnce(dirBlock) /\ DirectOnce(inode)
    BY DEF DiskOK
  <2>7. f = g /\ j = i
    <3>. HIDE DEF f, g
    <3>1. QED
      BY <2>3, <2>4, <2>6, Zenon DEF LinksOnce
  <2>8. d = e /\ k = l
    BY <2>3, <2>5, <2>6, <2>7 DEF DirectOnce
  <2>9. QED
    BY <2>1, <2>2, <2>7, <2>8 DEF NamePointer
<1>3. CASE IsDirectPointer(p) /\ IsDirectPointer(q)
  <2>1. PICK i \in DOMAIN inode, k \in Rows : DirectPointer(i, k, p)
    BY <1>3 DEF IsDirectPointer
  <2>2. PICK h \in DOMAIN inode, l \in Rows : DirectPointer(h, l, q)
    BY <1>3 DEF IsDirectPointer
  <2>3. inode[i].direct[k] # 0 /\ inode[i].direct[k] = inode[h].direct[l]
    BY <1>1, <2>1, <2>2 DEF DirectPointer
  <2>4. i = h /\ k = l
    BY <2>3 DEF DiskOK, DirectOnce
  <2>5. QED
    BY <2>1, <2>2, <2>4 DEF DirectPointer
<1>4. CASE IsTablePointer(p) /\ IsTablePointer(q)
  <2>1. PICK i \in DOMAIN inode : TablePointer(i, p)
    BY <1>4 DEF IsTablePointer
  <2>2. PICK h \in DOMAIN inode : TablePointer(h, q)
    BY <1>4 DEF IsTablePointer
  <2>3. inode[i].indirect # 0 /\ inode[i].indirect = inode[h].indirect
    BY <1>1, <2>1, <2>2 DEF TablePointer
  <2>4. i = h
    BY <2>3 DEF DiskOK, IndirectOnce
  <2>5. QED
    BY <2>1, <2>2, <2>4 DEF TablePointer
<1>5. CASE IsRowPointer(p) /\ IsRowPointer(q)
  <2>1. PICK c \in DOMAIN indirect, k \in IndirectRows : RowPointer(c, k, p)
    BY <1>5 DEF IsRowPointer
  <2>2. PICK d \in DOMAIN indirect, l \in IndirectRows : RowPointer(d, l, q)
    BY <1>5 DEF IsRowPointer
  <2>3. indirect[c][k] # 0 /\ indirect[c][k] = indirect[d][l]
    BY <1>1, <2>1, <2>2 DEF RowPointer
  <2>4. c = d /\ k = l
    BY <2>3 DEF DiskOK, RowsOnce
  <2>5. QED
    BY <2>1, <2>2, <2>4 DEF RowPointer
<1>6. ASSUME NEW i \in DOMAIN inode, NEW k \in Rows, NEW c \in DOMAIN indirect, NEW l \in IndirectRows,
             NEW r, NEW s, DirectPointer(i, k, r), RowPointer(c, l, s), r[3] # 0
      PROVE  r[3] # s[3]
  BY <1>6 DEF DirectPointer, RowPointer, DiskOK, RowsOnce
<1>7. /\ ~(IsDirectPointer(p) /\ IsRowPointer(q)) /\ ~(IsRowPointer(p) /\ IsDirectPointer(q))
  BY <1>1, <1>6 DEF IsDirectPointer, IsRowPointer
<1>8. /\ DOMAIN inode \cap DOMAIN dirBlock = {} /\ DOMAIN inode \cap DOMAIN indirect = {}
      /\ DOMAIN inode \cap DOMAIN data = {} /\ DOMAIN dirBlock \cap DOMAIN indirect = {}
      /\ DOMAIN indirect \cap DOMAIN data = {}
  BY DEF DiskOK, Kinds
<1>9. QED
  BY <1>1, <1>2, <1>3, <1>4, <1>5, <1>7, <1>8, PointersLead

LEMMA OwnedOnce == IndInv => BlocksOwnedOnce
<1> SUFFICES ASSUME IndInv, ~Lost
             PROVE  /\ Cardinality(LivePointers) = Cardinality(Pointed)
                    /\ Pointed \subseteq bitmap \ (System \cup {SFS_ROOT_LOCATION})
  BY DEF BlocksOwnedOnce
<1>1. DiskOK(inode, dirBlock, indirect, data, bitmap, {})
  BY DEF IndInv
<1>2. Pointed \subseteq bitmap \ (System \cup {SFS_ROOT_LOCATION})
  <2>1. ASSUME NEW p \in LivePointers
        PROVE  p[3] \in bitmap \ (System \cup {SFS_ROOT_LOCATION})
    <3>1. /\ p[3] # 0
          /\ IsNamePointer(p) \/ IsDirectPointer(p) \/ IsTablePointer(p) \/ IsRowPointer(p)
      BY PointersAre DEF LivePointers
    <3>2. p[3] \in (DOMAIN inode \ {SFS_ROOT_LOCATION}) \cup DOMAIN dirBlock \cup DOMAIN indirect \cup DOMAIN data
      BY <1>1, <3>1, PointersLead
    <3>3. QED
      BY <1>1, <3>2 DEF DiskOK, Kinds, DirsIn
  <2>2. QED
    BY <2>1 DEF Pointed
<1>3. IsFiniteSet(Pointed)
  <2>1. Pointed \subseteq Blocks
    BY <1>1, <1>2 DEF DiskOK, Kinds
  <2>2. QED
    BY <2>1, VolumeFacts, FS_Subset
<1> DEFINE f == [p \in LivePointers |-> p[3]]
<1>4. f \in [LivePointers -> Pointed] /\ \A p \in LivePointers : f[p] = p[3]
  BY DEF Pointed
<1>5. \A p, q \in LivePointers : f[p] = f[q] => p = q
  BY <1>1, <1>4, PointersApart
<1>6. \A b \in Pointed : \E p \in LivePointers : f[p] = b
  BY <1>4 DEF Pointed
<1>. HIDE DEF f
<1>7. f \in Injection(LivePointers, Pointed)
  BY <1>4, <1>5 DEF Injection, IsInjective
<1>8. f \in Surjection(LivePointers, Pointed)
  BY <1>4, <1>6 DEF Surjection
<1>9. Cardinality(LivePointers) = Cardinality(Pointed)
  BY <1>3, <1>7, <1>8, FS_Injection, Zenon
<1>10. QED
  BY <1>2, <1>9

LEMMA PointedIs ==
    /\ \A i \in DOMAIN inode, k \in Rows : inode[i].direct[k] # 0 => inode[i].direct[k] \in Pointed
    /\ \A i \in DOMAIN inode : inode[i].indirect # 0 => inode[i].indirect \in Pointed
    /\ \A c \in DOMAIN indirect, k \in IndirectRows : indirect[c][k] # 0 => indirect[c][k] \in Pointed
    /\ \A d \in DirsIn(inode), k \in Rows, j \in Columns :
          Used(inode, dirBlock, d, k, j) /\ Gives(dirBlock, inode[d].direct[k], j)
              => dirBlock[inode[d].direct[k]][j].sfd_ino \in Pointed
<1>1. ASSUME NEW p, NEW a, NEW b, NEW e, p = <<a, b, e>>, e # 0,
             IsNamePointer(p) \/ IsDirectPointer(p) \/ IsTablePointer(p) \/ IsRowPointer(p)
      PROVE  e \in Pointed
  <2>1. p \in Pointers /\ p[3] = e
    BY <1>1, PointersAre
  <2>2. QED
    BY <1>1, <2>1 DEF Pointed, LivePointers
<1>2. ASSUME NEW i \in DOMAIN inode, NEW k \in Rows, inode[i].direct[k] # 0
      PROVE  inode[i].direct[k] \in Pointed
  <2> DEFINE p == <<i, <<k, 0>>, inode[i].direct[k]>>
  <2>1. IsDirectPointer(p)
    BY DEF IsDirectPointer, DirectPointer
  <2>2. QED
    BY <1>1, <1>2, <2>1
<1>3. ASSUME NEW i \in DOMAIN inode, inode[i].indirect # 0
      PROVE  inode[i].indirect \in Pointed
  <2> DEFINE p == <<i, <<0, 0>>, inode[i].indirect>>
  <2>1. IsTablePointer(p)
    BY DEF IsTablePointer, TablePointer
  <2>2. QED
    BY <1>1, <1>3, <2>1
<1>4. ASSUME NEW c \in DOMAIN indirect, NEW k \in IndirectRows, indirect[c][k] # 0
      PROVE  indirect[c][k] \in Pointed
  <2> DEFINE p == <<c, <<k, 0>>, indirect[c][k]>>
  <2>1. IsRowPointer(p)
    BY DEF IsRowPointer, RowPointer
  <2>2. QED
    BY <1>1, <1>4, <2>1
<1>5. ASSUME NEW d \in DirsIn(inode), NEW k \in Rows, NEW j \in Columns,
             Used(inode, dirBlock, d, k, j), Gives(dirBlock, inode[d].direct[k], j)
      PROVE  dirBlock[inode[d].direct[k]][j].sfd_ino \in Pointed
  <2> DEFINE e == dirBlock[inode[d].direct[k]][j].sfd_ino
             p == <<d, <<k, j>>, e>>
  <2>1. NamePointer(d, k, j, p) /\ e # 0
    BY <1>5 DEF NamePointer, Used
  <2>2. IsNamePointer(p)
    BY <2>1 DEF IsNamePointer
  <2>3. QED
    BY <1>1, <2>1, <2>2
<1>6. QED
  BY <1>2, <1>3, <1>4, <1>5

LEMMA NoneOrphaned == IndInv => NothingOrphaned
<1> SUFFICES ASSUME IndInv, ~Lost
             PROVE  /\ (DOMAIN inode \cup DOMAIN indirect \cup DOMAIN data) \ {SFS_ROOT_LOCATION} \subseteq Pointed
                    /\ bitmap \ System = DOMAIN inode \cup DOMAIN dirBlock \cup DOMAIN indirect \cup DOMAIN data
                    /\ \A b \in DOMAIN dirBlock \ Pointed : dirBlock[b] = NewDirBlock(<< >>)
  BY DEF NothingOrphaned
<1>1. DiskOK(inode, dirBlock, indirect, data, bitmap, {})
  BY DEF IndInv
<1>2. DiskFacts(inode, dirBlock, indirect, data, bitmap)
  BY <1>1, OnDisk
<1>3. bitmap \ System = DOMAIN inode \cup DOMAIN dirBlock \cup DOMAIN indirect \cup DOMAIN data
  BY <1>1 DEF DiskOK, Kinds
<1>4. \A b \in DOMAIN dirBlock \ Pointed : dirBlock[b] = NewDirBlock(<< >>)
  <2>1. ASSUME NEW b \in DOMAIN dirBlock, dirBlock[b] # NewDirBlock(<< >>)
        PROVE  b \in Pointed
    <3>1. PICK i \in DOMAIN inode, k \in Rows : inode[i].direct[k] = b
      BY <1>1, <2>1 DEF DiskOK, AllPointed
    <3>2. b # 0
      BY <1>2 DEF DiskFacts
    <3>3. QED
      BY <3>1, <3>2, PointedIs
  <2>2. QED
    BY <2>1
<1>5. ASSUME NEW i \in DOMAIN inode, i # SFS_ROOT_LOCATION
      PROVE  i \in Pointed
  <2>1. PICK c \in DOMAIN dirBlock, j \in Columns : Gives(dirBlock, c, j) /\ dirBlock[c][j].sfd_ino = i
    BY <1>1, <1>5 DEF DiskOK, AllLinked
  <2>2. dirBlock[c] # NewDirBlock(<< >>)
    BY <2>1, EmptyBlock DEF Gives
  <2>3. PICK d \in DOMAIN inode, k \in Rows : inode[d].direct[k] = c
    BY <1>1, <2>2 DEF DiskOK, AllPointed
  <2>4. c # 0 /\ c \notin DOMAIN data
    BY <1>1, <1>2 DEF DiskFacts, DiskOK, Kinds
  <2>5. d \notin FilesIn(inode)
    BY <1>1, <2>3, <2>4 DEF DiskOK, DirectKinds
  <2>6. d \in DirsIn(inode)
    BY <1>2, <2>5 DEF DiskFacts
  <2>7. Used(inode, dirBlock, d, k, j) /\ Gives(dirBlock, inode[d].direct[k], j)
    BY <2>1, <2>3, <2>4 DEF Used, Gives
  <2>8. dirBlock[inode[d].direct[k]][j].sfd_ino \in Pointed
    BY <2>6, <2>7, PointedIs
  <2>9. QED
    BY <2>1, <2>3, <2>8
<1>6. ASSUME NEW c \in DOMAIN indirect
      PROVE  c \in Pointed
  <2>1. PICK i \in DOMAIN inode : inode[i].indirect = c
    BY <1>1 DEF DiskOK, AllPointed
  <2>2. QED
    BY <1>2, <2>1, PointedIs DEF DiskFacts
<1>7. ASSUME NEW c \in DOMAIN data
      PROVE  c \in Pointed
  <2>1. c # 0
    BY <1>2 DEF DiskFacts
  <2>2. CASE \E i \in DOMAIN inode, k \in Rows : inode[i].direct[k] = c
    BY <2>1, <2>2, PointedIs
  <2>3. CASE \E d \in DOMAIN indirect, k \in IndirectRows : indirect[d][k] = c
    BY <2>1, <2>3, PointedIs
  <2>4. QED
    BY <1>1, <2>2, <2>3 DEF DiskOK, AllPointed
<1>8. QED
  BY <1>3, <1>4, <1>5, <1>6, <1>7

\* The parent that ".." names is the only one.
LEMMA ParentIs ==
    ASSUME DiskOK(inode, dirBlock, indirect, data, bitmap, {}),
           NEW d \in DirsIn(inode), NEW p \in DirsIn(inode), Holds(inode, dirBlock, p, d)
    PROVE  Parent(d) = {p}
<1>1. /\ Dirs = DirsIn(inode) /\ DirsIn(inode) \subseteq DOMAIN inode
      /\ LinksOnce(dirBlock) /\ DirectOnce(inode)
      /\ \A e \in DirsIn(inode), k \in Rows : inode[e].direct[k] # 0 => inode[e].direct[k] \in DOMAIN dirBlock
  BY DEF Dirs, DirsIn, DiskOK, DirectKinds
<1>2. PICK k \in Rows, j \in Columns :
          /\ inode[p].direct[k] # 0
          /\ Gives(dirBlock, inode[p].direct[k], j) /\ dirBlock[inode[p].direct[k]][j].sfd_ino = d
  BY DEF Holds
<1> DEFINE f == inode[p].direct[k]
<1>3. p \in Parent(d)
  <2> DEFINE s == <<k, j>>
  <2>1. Used(inode, dirBlock, p, k, j)
    BY <1>2 DEF Used, Gives
  <2>2. s \in Entries(p) /\ s[1] = k /\ s[2] = j
    BY <2>1, SlotsAre
  <2>. HIDE DEF s
  <2>3. At(p, s) = dirBlock[f][j]
    BY <2>2 DEF At
  <2>4. At(p, s).sfd_ino = d /\ ~IsDot(p, s)
    BY <1>2, <2>3 DEF IsDot, Gives, Dots
  <2>5. QED
    BY <1>1, <2>2, <2>4 DEF Parent
<1>4. ASSUME NEW e \in Parent(d)
      PROVE  e = p
  <2>1. e \in DirsIn(inode)
    BY <1>1 DEF Parent
  <2>2. PICK s \in Entries(e) : At(e, s).sfd_ino = d /\ ~IsDot(e, s)
    BY DEF Parent
  <2> DEFINE l == s[1]
             i == s[2]
             g == inode[e].direct[l]
  <2>3. l \in Rows /\ i \in Columns /\ Used(inode, dirBlock, e, l, i) /\ At(e, s) = dirBlock[g][i]
    BY SlotsAre
  <2>. HIDE DEF l, i
  <2>4. Gives(dirBlock, g, i) /\ dirBlock[g][i].sfd_ino = d /\ g # 0 /\ g \in DOMAIN dirBlock
    BY <1>1, <2>1, <2>2, <2>3 DEF IsDot, Gives, Dots, Used
  <2>5. f # 0 /\ f \in DOMAIN dirBlock /\ Gives(dirBlock, f, j) /\ dirBlock[f][j].sfd_ino = d
    BY <1>1, <1>2
  <2>6. f = g
    <3>. HIDE DEF f, g
    <3>1. QED
      BY <1>1, <2>3, <2>4, <2>5, Zenon DEF LinksOnce
  <2>7. QED
    BY <1>1, <2>1, <2>3, <2>5, <2>6 DEF DirectOnce
<1>5. QED
  BY <1>3, <1>4

LEMMA TreeOK == IndInv => DirectoryTree
<1> SUFFICES ASSUME IndInv, ~Lost
             PROVE  /\ cwd # SFS_NOINO => cwd \in Dirs
                    /\ \A d \in Dirs :
                          /\ inode[d].size = Cardinality(Entries(d))
                          /\ \A s, t \in Entries(d) : At(d, s).sfd_name = At(d, t).sfd_name => s = t
                          /\ \E s \in Named(d, ".") : At(d, s).sfd_ino = d
                          /\ \E s \in Named(d, "..") :
                                {At(d, s).sfd_ino} = IF d = SFS_ROOT_LOCATION THEN {d} ELSE Parent(d)
  BY DEF DirectoryTree
<1>1. DiskOK(inode, dirBlock, indirect, data, bitmap, {}) /\ (cwd = SFS_NOINO \/ cwd \in DirsIn(inode))
  BY DEF IndInv
<1>2. DiskFacts(inode, dirBlock, indirect, data, bitmap)
  BY <1>1, OnDisk
<1>3. Dirs = DirsIn(inode)
  BY DEF Dirs, DirsIn
<1>4. ASSUME NEW d \in Dirs
      PROVE  inode[d].size = Cardinality(Entries(d))
  BY <1>1, <1>3, SlotsAre DEF DiskOK, SizesCount
<1>5. ASSUME NEW d \in Dirs, NEW s \in Entries(d), NEW t \in Entries(d), At(d, s).sfd_name = At(d, t).sfd_name
      PROVE  s = t
  <2> DEFINE k == s[1]
             j == s[2]
             l == t[1]
             i == t[2]
  <2>1. /\ k \in Rows /\ j \in Columns /\ s = <<k, j>> /\ Used(inode, dirBlock, d, k, j)
        /\ At(d, s) = dirBlock[inode[d].direct[k]][j]
        /\ l \in Rows /\ i \in Columns /\ t = <<l, i>> /\ Used(inode, dirBlock, d, l, i)
        /\ At(d, t) = dirBlock[inode[d].direct[l]][i]
    BY SlotsAre
  <2>2. NamesOf(inode, dirBlock, d)
    BY <1>1, <1>3 DEF DiskOK, NamesOnce
  <2>. HIDE DEF k, j, l, i
  <2>3. dirBlock[inode[d].direct[k]][j].sfd_name = dirBlock[inode[d].direct[l]][i].sfd_name
    BY <1>5, <2>1
  <2>4. k = l /\ j = i
    BY <2>1, <2>2, <2>3, Zenon DEF NamesOf
  <2>5. QED
    BY <2>1, <2>4
<1>6. ASSUME NEW d \in Dirs
      PROVE  /\ \E s \in Named(d, ".") : At(d, s).sfd_ino = d
             /\ \E s \in Named(d, "..") :
                   {At(d, s).sfd_ino} = IF d = SFS_ROOT_LOCATION THEN {d} ELSE Parent(d)
  <2> DEFINE first == dirBlock[inode[d].direct[1]]
             p == first[2].sfd_ino
             s1 == <<1, 1>>
             s2 == <<1, 2>>
  <2>1. DotsOf(inode, dirBlock, {}, d)
    BY <1>1, <1>3 DEF DiskOK, DotsLead
  <2>2. /\ first[1] = Entry(d, ".") /\ first[2].sfd_name = ".." /\ p \in DirsIn(inode)
        /\ d = SFS_ROOT_LOCATION => p = d
        /\ d # SFS_ROOT_LOCATION => Holds(inode, dirBlock, p, d)
    BY <2>1 DEF DotsOf
  <2>3. first[1].sfd_ino = d /\ first[1].sfd_name = "."
    BY <2>2 DEF Entry
  <2>4. d # 0 /\ p # 0
    BY <1>2, <1>3, <2>2 DEF DiskFacts, DirsIn
  <2>5. 1 \in Rows /\ 1 \in Columns /\ 2 \in Columns /\ inode[d].direct[1] # 0
    BY <1>2, <1>3 DEF DiskFacts
  <2>6. /\ s1 \in Slots(d) /\ s2 \in Slots(d)
        /\ s1[1] = 1 /\ s1[2] = 1 /\ s2[1] = 1 /\ s2[2] = 2
    BY <2>5 DEF Slots, Rows, Columns
  <2>. HIDE DEF s1, s2
  <2>7. At(d, s1) = first[1] /\ At(d, s2) = first[2]
    BY <2>6 DEF At
  <2>. HIDE DEF first, p
  <2>8. s1 \in Named(d, ".") /\ At(d, s1).sfd_ino = d
    BY <2>3, <2>4, <2>6, <2>7 DEF Named, SFS_NOINO
  <2>9. s2 \in Named(d, "..") /\ At(d, s2).sfd_ino = p
    BY <2>2, <2>4, <2>6, <2>7 DEF Named, SFS_NOINO, p
  <2>10. {p} = IF d = SFS_ROOT_LOCATION THEN {d} ELSE Parent(d)
    BY <1>1, <1>3, <2>2, ParentIs
  <2>11. QED
    BY <2>8, <2>9, <2>10
<1>7. QED
  BY <1>1, <1>3, <1>4, <1>5, <1>6

LEMMA ReadBack == IndInv => FilesReadBack
<1> SUFFICES ASSUME IndInv
             PROVE  FilesReadBack
  OBVIOUS
<1>1. output # NoFile => FromHost(output)
  BY DEF IndInv, SfsTypes, Output
<1>2. ASSUME ~Lost, NEW i \in FilesOn
      PROVE  Content(i).size = inode[i].size /\ FromHost(Content(i))
  <2>1. i \in FilesIn(inode)
    BY DEF FilesOn, FilesIn
  <2>2. Content(i) = ContentIn(inode, indirect, data, i)
    BY DEF Content, ContentIn, ContentOf, FileBlocks, BlocksIn
  <2>3. QED
    BY <1>2, <2>1, <2>2 DEF IndInv, DiskOK, FilesHold, Holding
<1>3. QED
  BY <1>1, <1>2 DEF FilesReadBack

LEMMA TypesOK == IndInv => TypeOK
<1> SUFFICES ASSUME SfsTypes
             PROVE  TypeOK
  BY DEF IndInv
<1>1. Range(inode) \subseteq InodeRecords
  BY DEF SfsTypes, Tables, Range
<1>2. QED
  BY <1>1 DEF TypeOK, SfsTypes, Tables, Output, Columns, EntryRecords, IndirectRows

----------------------------------------------------------------------------
\* The theorems.

(***************************************************************************)
(* The invariant of every command, tree Lost or not.                       *)
(***************************************************************************)
THEOREM SfsInvariant == Spec => []IndInv
BY Inductive

(***************************************************************************)
(* The blocks, tables and reports stay well formed: no command reads or    *)
(* writes a pointer outside of the image, and none fails to be total (the  *)
(* scans of the free map, the first free entry, the least hole).           *)
(***************************************************************************)
THEOREM SfsTypesCorrect == Spec => []TypeOK
<1>1. IndInv => TypeOK
  BY TypesOK
<1>2. QED
  BY <1>1, Inductive, PTL

(***************************************************************************)
(* As long as the tree is not Lost no block belongs to two files or        *)
(* directories, and none that belongs to one is free in the map, for every *)
(* size of the volume, of its blocks and of the host files: neither the    *)
(* scan of cpin, which skips blocks, nor that of touch and mkdir takes a   *)
(* block twice, and rm and rmdir clear the bits of no block that is still  *)
(* in use.                                                                 *)
(***************************************************************************)
THEOREM BlocksOwnedOnceCorrect == Spec => []BlocksOwnedOnce
<1>1. IndInv => BlocksOwnedOnce
  BY OwnedOnce
<1>2. QED
  BY <1>1, Inductive, PTL

(***************************************************************************)
(* As long as the tree is not Lost every inode, indirect block and data    *)
(* block can be reached, and the map marks what is on the disk and nothing *)
(* else.                                                                   *)
(***************************************************************************)
THEOREM NothingOrphanedCorrect == Spec => []NothingOrphaned
<1>1. IndInv => NothingOrphaned
  BY NoneOrphaned
<1>2. QED
  BY <1>1, Inductive, PTL

(***************************************************************************)
(* As long as rmdir .. has not freed the root and mv has renamed no "." or *)
(* "..", the directories form a tree that cd can walk, their sizes count   *)
(* their entries, and the working directory is on the disk.  No other      *)
(* command can end that (NameTreeImplemented).                             *)
(***************************************************************************)
THEOREM DirectoryTreeCorrect == Spec => []DirectoryTree
<1>1. IndInv => DirectoryTree
  BY TreeOK
<1>2. QED
  BY <1>1, Inductive, PTL

(***************************************************************************)
(* As long as the tree is not Lost a file holds the start of one host      *)
(* file, sfi_size bytes of it, whatever was written, renamed and removed   *)
(* since; and cpout never gives anything else.                             *)
(***************************************************************************)
THEOREM FilesReadBackCorrect == Spec => []FilesReadBack
<1>1. IndInv => FilesReadBack
  BY ReadBack
<1>2. QED
  BY <1>1, Inductive, PTL

----------------------------------------------------------------------------
\* Trees of names: L are the links, from a directory by a name to an inode, and
\* Q the paths from the root with the inodes they lead to.

Labels == Names \cup {""}

\* Append, for the provers to look into where it matters.
Longer(h, x) == Append(h, x)

LEMMA LongerIs ==
    ASSUME NEW h \in Seq(Labels), NEW x \in Labels
    PROVE  /\ Longer(h, x) \in Seq(Labels) /\ Len(Longer(h, x)) = Len(h) + 1 /\ Len(h) \in Nat
           /\ Longer(h, x) # << >>
           /\ \A k \in 1 .. Len(h) : Longer(h, x)[k] = h[k]
           /\ Longer(h, x)[Len(h) + 1] = x
BY DEF Longer

LEMMA LongerOnce ==
    ASSUME NEW h \in Seq(Labels), NEW x \in Labels, NEW g \in Seq(Labels), NEW y \in Labels,
           Longer(h, x) = Longer(g, y)
    PROVE  h = g /\ x = y
<1> DEFINE S == Labels
<1>1. h \in Seq(S) /\ g \in Seq(S) /\ x \in S /\ y \in S
  OBVIOUS
<1>2. Append(h, x) = Append(g, y)
  BY DEF Longer
<1> HIDE DEF S
<1>3. QED
  BY <1>1, <1>2, AppendInjective

\* Each inode but the root's has one link, each name in a directory is one's.
Treelike(L) ==
    /\ \A d, x, i : <<d, x, i>> \in L => x \in Labels /\ i # SFS_ROOT_LOCATION
    /\ \A d, x, e, y, i : <<d, x, i>> \in L /\ <<e, y, i>> \in L => d = e /\ x = y
    /\ \A d, x, i, j : <<d, x, i>> \in L /\ <<d, x, j>> \in L => i = j

\* Path p of inode i is the path h of d and the name x.
By(Q, L, p, i, h, d, x) ==
    /\ <<h, d>> \in Q /\ <<d, x, i>> \in L
    /\ h \in Seq(Labels) /\ p = Longer(h, x)

Comes(Q, L, p, i) == \E h, d, x : By(Q, L, p, i, h, d, x)

\* All paths come from the root.
Grown(Q, L) ==
    \A r \in Q : \E p, i : /\ r = <<p, i>> /\ p \in Seq(Labels)
                           /\ (p = << >> /\ i = SFS_ROOT_LOCATION) \/ Comes(Q, L, p, i)

\* Every link is followed.
Complete(Q, L) ==
    /\ << << >>, SFS_ROOT_LOCATION>> \in Q
    /\ \A p, d, x, i : <<p, d>> \in Q /\ <<d, x, i>> \in L => <<Longer(p, x), i>> \in Q

LEMMA ByIs ==
    ASSUME NEW Q, NEW L, Treelike(L), NEW p, NEW i, NEW h, NEW d, NEW x, By(Q, L, p, i, h, d, x)
    PROVE  /\ <<h, d>> \in Q /\ <<d, x, i>> \in L /\ i # SFS_ROOT_LOCATION
           /\ h \in Seq(Labels) /\ x \in Labels /\ p = Longer(h, x) /\ p # << >>
           /\ Len(p) = Len(h) + 1 /\ Len(h) \in Nat
<1>1. <<h, d>> \in Q /\ <<d, x, i>> \in L /\ h \in Seq(Labels) /\ p = Longer(h, x)
  BY DEF By
<1>2. x \in Labels /\ i # SFS_ROOT_LOCATION
  BY <1>1 DEF Treelike
<1>3. Len(p) = Len(h) + 1 /\ Len(h) \in Nat /\ p # << >>
  BY <1>1, <1>2, LongerIs
<1>4. QED
  BY <1>1, <1>2, <1>3

LEMMA GrownPath ==
    ASSUME NEW Q, NEW L, Treelike(L), Grown(Q, L), NEW p, NEW i, <<p, i>> \in Q
    PROVE  /\ p \in Seq(Labels) /\ Len(p) \in Nat
           /\ (p = << >> /\ i = SFS_ROOT_LOCATION) \/ Comes(Q, L, p, i)
<1>1. p \in Seq(Labels) /\ ((p = << >> /\ i = SFS_ROOT_LOCATION) \/ Comes(Q, L, p, i))
  BY DEF Grown
<1>2. QED
  BY <1>1

\* An inode has one path.
LEMMA OnePath ==
    ASSUME NEW Q, NEW L, Treelike(L), Grown(Q, L), NEW p, NEW q, NEW i, <<p, i>> \in Q, <<q, i>> \in Q
    PROVE  p = q
<1> DEFINE Two(a) == \E b, j : <<a, j>> \in Q /\ <<b, j>> \in Q /\ a # b
           S == {n \in Nat : \E a : Two(a) /\ Len(a) = n}
<1>1. SUFFICES ASSUME p # q PROVE FALSE
  OBVIOUS
<1>2. Len(p) \in S
  BY <1>1, GrownPath
<1>3. PICK n \in S : \A m \in S : n <= m
  BY <1>2, LeastNatural
<1>4. PICK a : Two(a) /\ Len(a) = n
  BY <1>3
<1>5. PICK b, j : <<a, j>> \in Q /\ <<b, j>> \in Q /\ a # b
  BY <1>4
<1>6. Comes(Q, L, a, j)
  <2>1. \/ a = << >> /\ j = SFS_ROOT_LOCATION
        \/ Comes(Q, L, a, j)
    BY <1>5, GrownPath, Zenon
  <2>2. \/ b = << >> /\ j = SFS_ROOT_LOCATION
        \/ Comes(Q, L, b, j)
    BY <1>5, GrownPath, Zenon
  <2>3. Comes(Q, L, b, j) => j # SFS_ROOT_LOCATION
    BY ByIs, Zenon DEF Comes
  <2>4. QED
    BY <1>5, <2>1, <2>2, <2>3, Zenon
<1>7. Comes(Q, L, b, j)
  <2>1. \/ b = << >> /\ j = SFS_ROOT_LOCATION
        \/ Comes(Q, L, b, j)
    BY <1>5, GrownPath, Zenon
  <2>2. j # SFS_ROOT_LOCATION
    BY <1>6, ByIs, Zenon DEF Comes
  <2>3. QED
    BY <2>1, <2>2, Zenon
<1>8. PICK h, d, x : By(Q, L, a, j, h, d, x)
  BY <1>6, Zenon DEF Comes
<1>9. PICK g, e, y : By(Q, L, b, j, g, e, y)
  BY <1>7, Zenon DEF Comes
<1>10. /\ <<h, d>> \in Q /\ <<d, x, j>> \in L /\ a = Longer(h, x)
       /\ Len(a) = Len(h) + 1 /\ Len(h) \in Nat
  BY <1>8, ByIs
<1>11. <<g, e>> \in Q /\ <<e, y, j>> \in L /\ b = Longer(g, y)
  BY <1>9, ByIs
<1>12. d = e /\ x = y
  BY <1>10, <1>11, Zenon DEF Treelike
<1>13. h # g
  BY <1>5, <1>10, <1>11, <1>12, Zenon
<1>14. Two(h)
  BY <1>10, <1>11, <1>12, <1>13, Zenon
<1> HIDE DEF Two
<1>15. Len(h) \in S
  BY <1>10, <1>14
<1>16. QED
  BY <1>3, <1>4, <1>10, <1>15

\* A path leads to one inode.
LEMMA OneInode ==
    ASSUME NEW Q, NEW L, Treelike(L), Grown(Q, L), NEW p, NEW i, NEW j, <<p, i>> \in Q, <<p, j>> \in Q
    PROVE  i = j
<1> DEFINE Two(a) == \E k, l : <<a, k>> \in Q /\ <<a, l>> \in Q /\ k # l
           S == {n \in Nat : \E a : Two(a) /\ Len(a) = n}
<1>1. SUFFICES ASSUME i # j PROVE FALSE
  OBVIOUS
<1>2. Len(p) \in S
  BY <1>1, GrownPath
<1>3. PICK n \in S : \A m \in S : n <= m
  BY <1>2, LeastNatural
<1>4. PICK a : Two(a) /\ Len(a) = n
  BY <1>3
<1>5. PICK k, l : <<a, k>> \in Q /\ <<a, l>> \in Q /\ k # l
  BY <1>4
<1>6. Comes(Q, L, a, k) /\ Comes(Q, L, a, l)
  <2>1. \/ a = << >> /\ k = SFS_ROOT_LOCATION
        \/ Comes(Q, L, a, k)
    BY <1>5, GrownPath, Zenon
  <2>2. \/ a = << >> /\ l = SFS_ROOT_LOCATION
        \/ Comes(Q, L, a, l)
    BY <1>5, GrownPath, Zenon
  <2>3. Comes(Q, L, a, k) \/ Comes(Q, L, a, l) => a # << >>
    BY ByIs, Zenon DEF Comes
  <2>4. QED
    BY <1>5, <2>1, <2>2, <2>3, Zenon
<1>7. PICK h, d, x : By(Q, L, a, k, h, d, x)
  BY <1>6, Zenon DEF Comes
<1>8. PICK g, e, y : By(Q, L, a, l, g, e, y)
  BY <1>6, Zenon DEF Comes
<1>9. /\ <<h, d>> \in Q /\ <<d, x, k>> \in L /\ h \in Seq(Labels) /\ x \in Labels /\ a = Longer(h, x)
      /\ Len(a) = Len(h) + 1 /\ Len(h) \in Nat
  BY <1>7, ByIs
<1>10. <<g, e>> \in Q /\ <<e, y, l>> \in L /\ g \in Seq(Labels) /\ y \in Labels /\ a = Longer(g, y)
  BY <1>8, ByIs
<1>11. h = g /\ x = y
  <2>1. Longer(h, x) = Longer(g, y)
    BY <1>9, <1>10
  <2>2. QED
    BY <1>9, <1>10, <2>1, LongerOnce
<1>12. d # e
  BY <1>5, <1>9, <1>10, <1>11, Zenon DEF Treelike
<1>13. Two(h)
  BY <1>9, <1>10, <1>11, <1>12, Zenon
<1> HIDE DEF Two
<1>14. Len(h) \in S
  BY <1>9, <1>13
<1>15. QED
  BY <1>3, <1>4, <1>9, <1>14

\* The first k names of a path.
Start(p, k) == SubSeq(p, 1, k)

LEMMA StartIs ==
    ASSUME NEW h \in Seq(Labels), NEW k \in 0 .. Len(h), NEW s, s = Start(h, k)
    PROVE  /\ s \in Seq(Labels) /\ Len(s) = k /\ Len(h) \in Nat
           /\ \A l \in 1 .. k : s[l] = h[l]
           /\ k = Len(h) => s = h
<1>1. k \in Nat /\ k <= Len(h) /\ Len(h) \in Nat
  OBVIOUS
<1>2. \A l \in 1 .. k : h[l] \in Labels
  BY <1>1
<1>3. s \in Seq(Labels) /\ Len(s) = k /\ \A l \in 1 .. k : s[l] = h[l]
  BY <1>1, <1>2 DEF Start
<1>4. k = Len(h) => s = h
  BY <1>1, <1>3, SeqEqual
<1>5. QED
  BY <1>1, <1>3, <1>4

LEMMA StartLonger ==
    ASSUME NEW h \in Seq(Labels), NEW x \in Labels, NEW k \in 0 .. Len(h), NEW p, p = Longer(h, x)
    PROVE  Start(p, k) = Start(h, k)
<1> DEFINE s == Start(p, k)
           r == Start(h, k)
<1> HIDE DEF s, r
<1>1. p \in Seq(Labels) /\ Len(p) = Len(h) + 1 /\ Len(h) \in Nat /\ \A l \in 1 .. Len(h) : p[l] = h[l]
  <2>1. p \in Seq(Labels) /\ Len(p) = Len(h) + 1 /\ Len(h) \in Nat
    BY LongerIs
  <2>2. \A l \in 1 .. Len(h) : p[l] = h[l]
    BY DEF Longer
  <2>3. QED
    BY <2>1, <2>2
<1>2. k \in 0 .. Len(p)
  BY <1>1
<1>3. s \in Seq(Labels) /\ Len(s) = k /\ \A l \in 1 .. k : s[l] = p[l]
  <2>1. p \in Seq(Labels) /\ k \in Nat /\ k <= Len(p) /\ \A l \in 1 .. k : p[l] \in Labels
    BY <1>1, <1>2
  <2>2. QED
    BY <2>1 DEF s, Start
<1>4. r \in Seq(Labels) /\ Len(r) = k /\ \A l \in 1 .. k : r[l] = h[l]
  BY StartIs DEF r
<1>5. ASSUME NEW l \in 1 .. k
      PROVE  s[l] = r[l]
  <2>1. l \in 1 .. Len(h)
    BY <1>1
  <2>2. QED
    BY <1>1, <1>3, <1>4, <2>1
<1>6. s = r
  BY <1>3, <1>4, <1>5, SeqEqual
<1>7. QED
  BY <1>6 DEF s, r

\* Every path's beginnings are paths, to inodes that have links.
LinkFrom(L, d) == \E x, i : <<d, x, i>> \in L

LEMMA StartLeads ==
    ASSUME NEW Q, NEW L, Treelike(L), Grown(Q, L), NEW p, NEW i, <<p, i>> \in Q, NEW k \in 0 .. Len(p)
    PROVE  \E j : <<Start(p, k), j>> \in Q /\ (k < Len(p) => LinkFrom(L, j))
<1> DEFINE Begins(a, l) == \E j : <<Start(a, l), j>> \in Q /\ (l < Len(a) => LinkFrom(L, j))
           Bad(a) == \E b, l : <<a, b>> \in Q /\ l \in 0 .. Len(a) /\ ~Begins(a, l)
           S == {n \in Nat : \E a : Bad(a) /\ Len(a) = n}
<1>1. SUFFICES ASSUME ~Begins(p, k) PROVE FALSE
  OBVIOUS
<1> HIDE DEF Begins
<1>2. Len(p) \in S
  BY <1>1, GrownPath
<1>3. PICK n \in S : \A m \in S : n <= m
  BY <1>2, LeastNatural
<1>4. PICK a, b, l : Len(a) = n /\ <<a, b>> \in Q /\ l \in 0 .. Len(a) /\ ~Begins(a, l)
  BY <1>3
<1>5. a \in Seq(Labels) /\ Len(a) \in Nat
  BY <1>4, GrownPath
<1>6. l # Len(a)
  <2>1. SUFFICES ASSUME l = Len(a) PROVE Begins(a, l)
    BY <1>4
  <2>2. Start(a, l) = a
    BY <1>4, <1>5, <2>1, StartIs
  <2>3. ~(l < Len(a))
    BY <1>5, <2>1
  <2>4. QED
    BY <1>4, <2>2, <2>3 DEF Begins
<1>7. Comes(Q, L, a, b)
  <2>1. a # << >>
    BY <1>4, <1>5, <1>6
  <2>2. QED
    BY <1>4, <2>1, GrownPath
<1>8. PICK h, d, x : By(Q, L, a, b, h, d, x)
  BY <1>7, Zenon DEF Comes
<1>9. /\ <<h, d>> \in Q /\ <<d, x, b>> \in L /\ h \in Seq(Labels) /\ x \in Labels /\ a = Longer(h, x)
      /\ Len(a) = Len(h) + 1 /\ Len(h) \in Nat
  BY <1>8, ByIs
<1>10. l \in 0 .. Len(h)
  BY <1>4, <1>6, <1>9
<1>11. Begins(h, l)
  <2> HIDE DEF S
  <2>1. Len(h) \notin S
    <3>1. Len(h) + 1 = n /\ Len(h) \in Nat
      BY <1>4, <1>9
    <3>2. ~(n <= Len(h))
      BY <3>1
    <3>3. QED
      BY <1>3, <3>2
  <2> USE DEF S
  <2>2. ~Bad(h)
    BY <1>9, <2>1
  <2>3. QED
    BY <1>9, <1>10, <2>2
<1>12. PICK j : <<Start(h, l), j>> \in Q /\ (l < Len(h) => LinkFrom(L, j))
  BY <1>11 DEF Begins
<1>13. <<Start(a, l), j>> \in Q
  BY <1>9, <1>10, <1>12, StartLonger
<1>14. LinkFrom(L, j)
  <2>1. CASE l < Len(h)
    BY <1>12, <2>1
  <2>2. CASE l = Len(h)
    <3>1. Start(h, l) = h
      BY <1>9, <1>10, <2>2, StartIs
    <3>2. j = d
      BY <1>9, <1>12, <3>1, OneInode
    <3>3. QED
      BY <1>9, <3>2 DEF LinkFrom
  <2>3. QED
    BY <1>9, <1>10, <2>1, <2>2
<1>15. QED
  BY <1>4, <1>13, <1>14 DEF Begins

\* So a path to an inode with links is shorter than there are such inodes.
LEMMA DepthBound ==
    ASSUME NEW Q, NEW L, Treelike(L), Grown(Q, L), NEW p, NEW d, <<p, d>> \in Q, LinkFrom(L, d),
           NEW D, IsFiniteSet(D), \A e : LinkFrom(L, e) => e \in D
    PROVE  Len(p) + 1 <= Cardinality(D)
<1> DEFINE To(k, j) == <<Start(p, k), j>> \in Q /\ LinkFrom(L, j)
           w == [k \in 0 .. Len(p) |-> CHOOSE j : To(k, j)]
<1>1. p \in Seq(Labels) /\ Len(p) \in Nat
  BY GrownPath
<1>2. ASSUME NEW k \in 0 .. Len(p)
      PROVE  \E j : To(k, j)
  <2>1. PICK j : <<Start(p, k), j>> \in Q /\ (k < Len(p) => LinkFrom(L, j))
    BY StartLeads
  <2>2. CASE k = Len(p)
    <3>1. Start(p, k) = p
      BY <1>1, <2>2, StartIs
    <3>2. QED
      BY <3>1
  <2>3. CASE k < Len(p)
    BY <2>1, <2>3
  <2>4. k = Len(p) \/ k < Len(p)
    BY <1>1
  <2>5. QED
    BY <2>2, <2>3, <2>4
<1> HIDE DEF To
<1>3. \A k \in 0 .. Len(p) : To(k, w[k])
  BY <1>2
<1> HIDE DEF w
<1>4. \A k \in 0 .. Len(p) : w[k] \in D
  BY <1>3 DEF To
<1>5. ASSUME NEW k \in 0 .. Len(p), NEW l \in 0 .. Len(p), w[k] = w[l]
      PROVE  k = l
  <2>1. Start(p, k) = Start(p, l)
    BY <1>3, <1>5, OnePath DEF To
  <2>2. Len(Start(p, k)) = k /\ Len(Start(p, l)) = l
    BY <1>1, StartIs
  <2>3. QED
    BY <2>1, <2>2
<1>6. w \in Injection(0 .. Len(p), D)
  <2>1. w \in [0 .. Len(p) -> D]
    BY <1>4 DEF w
  <2>2. QED
    BY <1>5, <2>1 DEF Injection, IsInjective
<1>7. IsFiniteSet(0 .. Len(p)) /\ Cardinality(0 .. Len(p)) = Len(p) + 1
  <2>1. 0 \in Int /\ Len(p) \in Int /\ ~(0 > Len(p)) /\ Len(p) - 0 + 1 = Len(p) + 1
    BY <1>1
  <2>2. QED
    BY <2>1, FS_Interval
<1>8. QED
  BY <1>6, <1>7, FS_Injection

\* The levels of a tree of names.
Levels(f, n, L) ==
    /\ f[0] = {<< << >>, SFS_ROOT_LOCATION>>}
    /\ \A k \in 1 .. n : f[k] = Deeper(f[k - 1], L)

Triples(L) == \A l \in L : \E d, x, i : l = <<d, x, i>>

\* The next path: that of d, and the name x.
FollowsBy(S, L, r, p, d, x, i) == <<p, d>> \in S /\ <<d, x, i>> \in L /\ r = <<Longer(p, x), i>>

Follows(S, L, r) == \E p, d, x, i : FollowsBy(S, L, r, p, d, x, i)

LEMMA DeeperIs ==
    ASSUME NEW S, NEW L, Grown(S, L), Triples(L), NEW r
    PROVE  r \in Deeper(S, L) <=> r \in S \/ Follows(S, L, r)
<1> DEFINE F(s) == {<<Append(s[1], l[2]), l[3]>> : l \in {k \in L : k[1] = s[2]}}
<1>1. ASSUME NEW s \in S, r \in F(s)
      PROVE  Follows(S, L, r)
  <2>1. PICK l \in L : l[1] = s[2] /\ r = <<Append(s[1], l[2]), l[3]>>
    BY <1>1
  <2>2. PICK p, d : s = <<p, d>>
    BY DEF Grown
  <2>3. PICK e, x, i : l = <<e, x, i>>
    BY DEF Triples
  <2>4. s[1] = p /\ s[2] = d /\ l[1] = e /\ l[2] = x /\ l[3] = i
    BY <2>2, <2>3
  <2>5. r = <<Longer(p, x), i>> /\ d = e
    BY <2>1, <2>4 DEF Longer
  <2>6. FollowsBy(S, L, r, p, d, x, i)
    BY <2>1, <2>2, <2>3, <2>5 DEF FollowsBy
  <2>7. QED
    BY <2>6, Zenon DEF Follows
<1>2. ASSUME NEW p, NEW d, NEW x, NEW i, FollowsBy(S, L, r, p, d, x, i)
      PROVE  \E s \in S : r \in F(s)
  <2> DEFINE s == <<p, d>>
             l == <<d, x, i>>
  <2>1. s[1] = p /\ s[2] = d /\ l[1] = d /\ l[2] = x /\ l[3] = i /\ s \in S /\ l \in L
    BY <1>2 DEF FollowsBy
  <2>2. r = <<Longer(p, x), i>>
    BY <1>2 DEF FollowsBy
  <2> HIDE DEF s, l
  <2>3. l \in {k \in L : k[1] = s[2]} /\ r = <<Append(s[1], l[2]), l[3]>>
    BY <2>1, <2>2 DEF Longer
  <2>4. r \in F(s)
    BY <2>3
  <2>5. QED
    BY <2>1, <2>4
<1>3. Deeper(S, L) = S \cup UNION {F(s) : s \in S}
  BY DEF Deeper
<1> HIDE DEF F
<1>4. r \in Deeper(S, L) <=> r \in S \/ \E s \in S : r \in F(s)
  BY <1>3
<1>5. Follows(S, L, r) => \E s \in S : r \in F(s)
  BY <1>2, Zenon DEF Follows
<1>6. QED
  BY <1>1, <1>4, <1>5, Zenon

\* Level k: the paths of up to k names.
Level(S, k, L) ==
    /\ Grown(S, L)
    /\ << << >>, SFS_ROOT_LOCATION>> \in S
    /\ \A p, i : <<p, i>> \in S => Len(p) <= k

LEMMA NextLevel ==
    ASSUME NEW S, NEW L, NEW k \in Nat, Treelike(L), Triples(L), Level(S, k, L), NEW T, T = Deeper(S, L)
    PROVE  Level(T, k + 1, L) /\ S \subseteq T
<1>1. Grown(S, L) /\ << << >>, SFS_ROOT_LOCATION>> \in S /\ \A p, i : <<p, i>> \in S => Len(p) <= k
  BY DEF Level
<1>2. S \subseteq T
  BY <1>1, DeeperIs
<1>3. ASSUME NEW p, NEW i, <<p, i>> \in T
      PROVE  /\ p \in Seq(Labels) /\ ((p = << >> /\ i = SFS_ROOT_LOCATION) \/ Comes(T, L, p, i))
             /\ Len(p) <= k + 1
  <2>1. CASE <<p, i>> \in S
    <3>1. p \in Seq(Labels) /\ ((p = << >> /\ i = SFS_ROOT_LOCATION) \/ Comes(S, L, p, i))
      BY <1>1, <2>1, GrownPath
    <3>2. Comes(S, L, p, i) => Comes(T, L, p, i)
      BY <1>2 DEF Comes, By
    <3>3. Len(p) <= k /\ Len(p) \in Nat
      BY <1>1, <2>1, <3>1
    <3>4. QED
      BY <3>1, <3>2, <3>3
  <2>2. CASE <<p, i>> \notin S
    <3>0. Follows(S, L, <<p, i>>)
      BY <1>1, <1>3, <2>2, DeeperIs, Zenon
    <3>1. PICK h, d, x, j : <<h, d>> \in S /\ <<d, x, j>> \in L /\ <<p, i>> = <<Longer(h, x), j>>
      BY <3>0, Zenon DEF Follows, FollowsBy
    <3>2. p = Longer(h, x) /\ i = j
      BY <3>1
    <3>3. h \in Seq(Labels) /\ Len(h) <= k
      BY <1>1, <3>1, GrownPath
    <3>4. x \in Labels
      BY <3>1 DEF Treelike
    <3>5. p \in Seq(Labels) /\ Len(p) = Len(h) + 1 /\ Len(h) \in Nat
      BY <3>2, <3>3, <3>4, LongerIs
    <3>6. Comes(T, L, p, i)
      BY <1>2, <3>1, <3>2, <3>3, Zenon DEF Comes, By
    <3>7. QED
      BY <3>3, <3>5, <3>6
  <2>3. QED
    BY <2>1, <2>2
<1>4. ASSUME NEW r \in T
      PROVE  \E p, i : r = <<p, i>>
  <2>1. CASE r \in S
    BY <1>1, <2>1 DEF Grown
  <2>2. CASE r \notin S
    <3>1. Follows(S, L, r)
      BY <1>1, <1>4, <2>2, DeeperIs, Zenon
    <3>2. QED
      BY <3>1, Zenon DEF Follows, FollowsBy
  <2>3. QED
    BY <2>1, <2>2
<1>5. Grown(T, L)
  BY <1>3, <1>4 DEF Grown
<1>6. QED
  BY <1>1, <1>2, <1>3, <1>5 DEF Level

LEMMA LevelAt ==
    ASSUME NEW n \in Nat, NEW L, Treelike(L), Triples(L), NEW f, Levels(f, n, L), NEW k \in 0 .. n
    PROVE  Level(f[k], k, L)
<1> DEFINE S == {m \in 0 .. n : ~Level(f[m], m, L)}
<1>1. SUFFICES ASSUME S # {} PROVE FALSE
  OBVIOUS
<1>2. S \in SUBSET Nat
  OBVIOUS
<1> HIDE DEF S
<1>3. PICK m \in S : \A l \in S : m <= l
  BY <1>1, <1>2, LeastNatural
<1>4. m \in 0 .. n /\ ~Level(f[m], m, L)
  BY <1>3 DEF S
<1>5. CASE m = 0
  <2> DEFINE r == << << >>, SFS_ROOT_LOCATION>>
  <2>1. f[0] = {r} /\ << >> \in Seq(Labels) /\ Len(<< >>) = 0
    BY DEF Levels
  <2>2. Grown({r}, L)
    BY <2>1 DEF Grown
  <2>3. \A p, i : <<p, i>> = r => p = << >>
    OBVIOUS
  <2>4. \A p, i : <<p, i>> \in {r} => Len(p) <= 0
    BY <2>1, <2>3
  <2>5. Level({r}, 0, L)
    BY <2>2, <2>4 DEF Level
  <2>6. QED
    BY <1>4, <1>5, <2>1, <2>5
<1>6. CASE m # 0
  <2>1. m - 1 \in 0 .. n /\ m - 1 \in Nat /\ (m - 1) + 1 = m /\ m \in 1 .. n /\ ~(m <= m - 1)
    BY <1>4, <1>6
  <2>2. Level(f[m - 1], m - 1, L)
    BY <1>3, <2>1 DEF S
  <2>3. f[m] = Deeper(f[m - 1], L)
    BY <2>1 DEF Levels
  <2>4. Level(f[m], (m - 1) + 1, L)
    BY <2>1, <2>2, <2>3, NextLevel
  <2>5. QED
    BY <1>4, <2>1, <2>4
<1>7. QED
  BY <1>5, <1>6

LEMMA LevelsGrow ==
    ASSUME NEW n \in Nat, NEW L, Treelike(L), Triples(L), NEW f, Levels(f, n, L),
           NEW k \in 0 .. n, NEW m \in 0 .. n, k <= m
    PROVE  f[k] \subseteq f[m]
<1> DEFINE S == {l \in 0 .. n : k <= l /\ ~(f[k] \subseteq f[l])}
<1>1. SUFFICES ASSUME S # {} PROVE FALSE
  OBVIOUS
<1>2. S \in SUBSET Nat
  OBVIOUS
<1> HIDE DEF S
<1>3. PICK l \in S : \A j \in S : l <= j
  BY <1>1, <1>2, LeastNatural
<1>4. l \in 0 .. n /\ k <= l /\ ~(f[k] \subseteq f[l])
  BY <1>3 DEF S
<1>5. l # k
  BY <1>4
<1>6. l - 1 \in 0 .. n /\ l - 1 \in Nat /\ l \in 1 .. n /\ k <= l - 1 /\ ~(l <= l - 1)
  BY <1>4, <1>5
<1>7. f[k] \subseteq f[l - 1]
  BY <1>3, <1>6 DEF S
<1>8. f[l] = Deeper(f[l - 1], L)
  BY <1>6 DEF Levels
<1>9. f[l - 1] \subseteq f[l]
  <2>1. Level(f[l - 1], l - 1, L)
    BY <1>6, LevelAt
  <2>2. QED
    BY <1>6, <1>8, <2>1, NextLevel
<1>10. QED
  BY <1>4, <1>7, <1>9

\* A path of k names is in level k already.
LEMMA InItsLevel ==
    ASSUME NEW n \in Nat, NEW L, Treelike(L), Triples(L), NEW f, Levels(f, n, L),
           NEW k \in 0 .. n, NEW p, NEW i, <<p, i>> \in f[n], Len(p) <= k
    PROVE  <<p, i>> \in f[k]
<1> DEFINE Late(m) == \E q, j : <<q, j>> \in f[n] /\ Len(q) <= m /\ <<q, j>> \notin f[m]
           S == {m \in 0 .. n : Late(m)}
<1>1. SUFFICES ASSUME <<p, i>> \notin f[k] PROVE FALSE
  OBVIOUS
<1>2. Late(k)
  BY <1>1
<1> HIDE DEF Late
<1>3. S # {} /\ S \in SUBSET Nat
  BY <1>2
<1>4. PICK m \in S : \A l \in S : m <= l
  BY <1>3, LeastNatural
<1>5. m \in 0 .. n /\ Late(m)
  BY <1>4
<1>6. PICK q, j : <<q, j>> \in f[n] /\ Len(q) <= m /\ <<q, j>> \notin f[m]
  BY <1>5 DEF Late
<1>7. Level(f[n], n, L)
  <2>1. n \in 0 .. n
    OBVIOUS
  <2>2. QED
    BY <2>1, LevelAt
<1>8. Grown(f[n], L)
  BY <1>7 DEF Level
<1>9. Level(f[m], m, L)
  BY <1>5, LevelAt
<1>10. Comes(f[n], L, q, j) /\ Len(q) \in Nat
  <2>1. << << >>, SFS_ROOT_LOCATION>> \in f[m]
    BY <1>9 DEF Level
  <2>2. Len(q) \in Nat /\ ((q = << >> /\ j = SFS_ROOT_LOCATION) \/ Comes(f[n], L, q, j))
    BY <1>6, <1>8, GrownPath
  <2>3. QED
    BY <1>6, <2>1, <2>2
<1>11. PICK h, d, x : By(f[n], L, q, j, h, d, x)
  BY <1>10, Zenon DEF Comes
<1>12. /\ <<h, d>> \in f[n] /\ <<d, x, j>> \in L /\ q = Longer(h, x)
       /\ Len(q) = Len(h) + 1 /\ Len(h) \in Nat
  BY <1>11, ByIs
<1>13. m - 1 \in 0 .. n /\ m \in 1 .. n /\ Len(h) <= m - 1 /\ ~(m <= m - 1)
  BY <1>5, <1>6, <1>12
<1>14. <<h, d>> \in f[m - 1]
  <2>1. m - 1 \notin S
    BY <1>4, <1>13
  <2>2. ~Late(m - 1)
    BY <1>13, <2>1
  <2>3. QED
    BY <1>12, <1>13, <2>2 DEF Late
<1>15. Grown(f[m - 1], L)
  BY <1>13, LevelAt DEF Level
<1>16. FollowsBy(f[m - 1], L, <<q, j>>, h, d, x, j)
  BY <1>12, <1>14 DEF FollowsBy
<1>17. Follows(f[m - 1], L, <<q, j>>)
  BY <1>16, Zenon DEF Follows
<1>18. f[m] = Deeper(f[m - 1], L)
  BY <1>13 DEF Levels
<1>19. <<q, j>> \in Deeper(f[m - 1], L)
  BY <1>15, <1>17, DeeperIs
<1>20. QED
  BY <1>6, <1>18, <1>19

\* As many levels as there are inodes with links are all.
LEMMA LevelsComplete ==
    ASSUME NEW L, Treelike(L), Triples(L), NEW D, D = {l[1] : l \in L}, IsFiniteSet(D),
           NEW n, n = Cardinality(D), NEW f, Levels(f, n, L)
    PROVE  Grown(f[n], L) /\ Complete(f[n], L)
<1>1. n \in Nat /\ n \in 0 .. n
  BY FS_CardinalityType
<1>2. Level(f[n], n, L)
  BY <1>1, LevelAt
<1>3. Grown(f[n], L) /\ << << >>, SFS_ROOT_LOCATION>> \in f[n]
  BY <1>2 DEF Level
<1>4. ASSUME NEW p, NEW d, NEW x, NEW i, <<p, d>> \in f[n], <<d, x, i>> \in L
      PROVE  <<Longer(p, x), i>> \in f[n]
  <2>1. ASSUME NEW e, LinkFrom(L, e)
        PROVE  e \in D
    <3>1. PICK y, j : <<e, y, j>> \in L
      BY <2>1 DEF LinkFrom
    <3>2. <<e, y, j>>[1] = e
      OBVIOUS
    <3>3. QED
      BY <3>1, <3>2
  <2>2. LinkFrom(L, d)
    BY <1>4, Zenon DEF LinkFrom
  <2>3. Len(p) + 1 <= n
    BY <1>3, <1>4, <2>1, <2>2, DepthBound
  <2>4. Len(p) \in Nat
    BY <1>3, <1>4, GrownPath
  <2>5. n - 1 \in 0 .. n /\ n \in 1 .. n /\ Len(p) <= n - 1
    BY <1>1, <2>3, <2>4
  <2>6. <<p, d>> \in f[n - 1]
    BY <1>1, <1>4, <2>5, InItsLevel
  <2>7. Grown(f[n - 1], L)
    BY <1>1, <2>5, LevelAt DEF Level
  <2>8. FollowsBy(f[n - 1], L, <<Longer(p, x), i>>, p, d, x, i)
    BY <1>4, <2>6 DEF FollowsBy
  <2>9. Follows(f[n - 1], L, <<Longer(p, x), i>>)
    BY <2>8, Zenon DEF Follows
  <2>10. <<Longer(p, x), i>> \in Deeper(f[n - 1], L)
    BY <2>7, <2>9, DeeperIs
  <2>11. f[n] = Deeper(f[n - 1], L)
    BY <2>5 DEF Levels
  <2>12. QED
    BY <2>10, <2>11
<1>5. QED
  BY <1>3, <1>4, Zenon DEF Complete

\* The recursive function is defined.
LEMMA LevelsExist ==
    ASSUME NEW n \in Nat, NEW L
    PROVE  \E f : f = [k \in 0 .. n |-> IF k = 0 THEN {<< << >>, SFS_ROOT_LOCATION>>} ELSE Deeper(f[k - 1], L)]
<1> DEFINE follows(f, k) == IF k = 0 THEN {<< << >>, SFS_ROOT_LOCATION>>} ELSE Deeper(f[k - 1], L)
           defined(g, m) == g = [k \in 0 .. m |-> follows(g, k)]
           undefined == {m \in 0 .. n : ~\E g : defined(g, m)}
<1>2. \E g : defined(g, 0)
  <2> DEFINE r == {<< << >>, SFS_ROOT_LOCATION>>}
             g == [k \in 0 .. 0 |-> r]
  <2>1. \A k \in 0 .. 0 : follows(g, k) = r
    OBVIOUS
  <2> HIDE DEF follows, r
  <2>2. g = [k \in 0 .. 0 |-> follows(g, k)]
    BY <2>1
  <2>3. QED
    BY <2>2
<1>3. ASSUME NEW m \in Nat, NEW g, defined(g, m)
      PROVE  \E h : defined(h, m + 1)
  <2> DEFINE h == [k \in 0 .. m + 1 |-> IF k = m + 1 THEN Deeper(g[m], L) ELSE g[k]]
  <2>1. \A k \in 0 .. m : g[k] = follows(g, k)
    <3> HIDE DEF follows
    <3>1. QED
      BY <1>3
  <2>2. ASSUME NEW k \in 0 .. m + 1
        PROVE  h[k] = follows(h, k)
    <3>1. CASE k = m + 1
      <4>1. k # 0 /\ k - 1 = m /\ m \in 0 .. m + 1 /\ m # m + 1
        BY <3>1
      <4>2. h[m] = g[m] /\ h[k] = Deeper(g[m], L)
        BY <3>1, <4>1
      <4> HIDE DEF h
      <4>3. QED
        BY <4>1, <4>2
    <3>2. CASE k # m + 1
      <4>1. h[k] = g[k] /\ g[k] = follows(g, k)
        <5> HIDE DEF follows
        <5>1. QED
          BY <2>1, <3>2
      <4>2. k # 0 => k - 1 \in 0 .. m + 1 /\ k - 1 # m + 1
        BY <3>2
      <4>3. k # 0 => h[k - 1] = g[k - 1]
        BY <4>2
      <4> HIDE DEF h
      <4>4. QED
        BY <4>1, <4>3
    <3>3. QED
      BY <3>1, <3>2
  <2>3. h = [k \in 0 .. m + 1 |-> h[k]]
    OBVIOUS
  <2>. HIDE DEF h, follows
  <2>4. h = [k \in 0 .. m + 1 |-> follows(h, k)]
    BY <2>2, <2>3
  <2>5. QED
    BY <2>4
<1>4. undefined = {}
  <2>1. SUFFICES ASSUME undefined # {}
                 PROVE  FALSE
    OBVIOUS
  <2>. HIDE DEF defined
  <2>2. undefined \in SUBSET Nat
    OBVIOUS
  <2>3. PICK m \in undefined : \A l \in undefined : m <= l
    BY <2>1, <2>2, LeastNatural
  <2>4. m \in 0 .. n /\ m # 0
    BY <1>2, <2>3
  <2>5. m - 1 \in 0 .. n /\ m - 1 \notin undefined
    <3>1. m - 1 \in 0 .. n /\ ~(m <= m - 1)
      BY <2>4
    <3>2. QED
      BY <2>3, <3>1
  <2>6. PICK g : defined(g, m - 1)
    BY <2>5
  <2>7. \E h : defined(h, (m - 1) + 1)
    <3>1. m - 1 \in Nat
      BY <2>5
    <3>2. QED
      BY <1>3, <2>6, <3>1
  <2>8. (m - 1) + 1 = m
    BY <2>4
  <2>9. QED
    BY <2>3, <2>7, <2>8
<1>5. \E g : defined(g, n)
  <2>. HIDE DEF defined
  <2>1. n \in 0 .. n /\ n \notin undefined
    BY <1>4
  <2>2. QED
    BY <2>1
<1>6. QED
  BY <1>5

\* The paths along the links are all that can be followed, and no others.
LEMMA PathsAre ==
    ASSUME NEW L, Treelike(L), Triples(L), NEW D, D = {l[1] : l \in L}, IsFiniteSet(D),
           NEW Q, Q = PathsAlong(L)
    PROVE  Grown(Q, L) /\ Complete(Q, L)
<1> DEFINE n == Cardinality(D)
           follows(f, k) == IF k = 0 THEN {<< << >>, SFS_ROOT_LOCATION>>} ELSE Deeper(f[k - 1], L)
           upTo == CHOOSE f : f = [k \in 0 .. n |-> follows(f, k)]
<1>1. n \in Nat
  BY FS_CardinalityType
<1>2. Q = upTo[n]
  BY Zenon DEF PathsAlong
<1>3. upTo = [k \in 0 .. n |-> follows(upTo, k)]
  <2>1. \E f : f = [k \in 0 .. n |-> follows(f, k)]
    BY <1>1, LevelsExist
  <2> HIDE DEF follows, n
  <2>2. QED
    BY <2>1
<1> HIDE DEF upTo, n
<1>4. \A k \in 0 .. n : upTo[k] = follows(upTo, k)
  <2> HIDE DEF follows
  <2>1. QED
    BY <1>3
<1>5. Levels(upTo, n, L)
  <2>1. 0 \in 0 .. n /\ \A k \in 1 .. n : k \in 0 .. n /\ k # 0
    BY <1>1
  <2>2. QED
    BY <1>4, <2>1 DEF Levels
<1>6. Grown(upTo[n], L) /\ Complete(upTo[n], L)
  BY <1>5, LevelsComplete DEF n
<1>7. QED
  BY <1>2, <1>6

\* Two such sets are the same.
LEMMA PathsWithin ==
    ASSUME NEW L, Treelike(L), NEW Q, Grown(Q, L), NEW R, Complete(R, L)
    PROVE  Q \subseteq R
<1> DEFINE Out(p) == \E i : <<p, i>> \in Q /\ <<p, i>> \notin R
           S == {n \in Nat : \E p : Out(p) /\ Len(p) = n}
<1>1. SUFFICES ASSUME NEW r \in Q, r \notin R PROVE FALSE
  OBVIOUS
<1>2. PICK q, k : r = <<q, k>>
  BY DEF Grown
<1>3. Len(q) \in Nat
  BY <1>2, GrownPath
<1>4. Len(q) \in S
  BY <1>1, <1>2, <1>3
<1>5. PICK n \in S : \A m \in S : n <= m
  BY <1>4, LeastNatural
<1>6. PICK p, i : Len(p) = n /\ <<p, i>> \in Q /\ <<p, i>> \notin R
  BY <1>5
<1>7. Comes(Q, L, p, i)
  <2>1. (p = << >> /\ i = SFS_ROOT_LOCATION) \/ Comes(Q, L, p, i)
    BY <1>6, GrownPath, Zenon
  <2>2. QED
    BY <1>6, <2>1 DEF Complete
<1>8. PICK h, d, x : By(Q, L, p, i, h, d, x)
  BY <1>7, Zenon DEF Comes
<1>9. /\ <<h, d>> \in Q /\ <<d, x, i>> \in L /\ p = Longer(h, x)
      /\ Len(p) = Len(h) + 1 /\ Len(h) \in Nat
  BY <1>8, ByIs
<1>10. <<h, d>> \notin R
  BY <1>6, <1>9, Zenon DEF Complete
<1>11. Out(h)
  BY <1>9, <1>10
<1> HIDE DEF Out
<1>12. Len(h) \in S
  BY <1>9, <1>11
<1>13. QED
  BY <1>5, <1>6, <1>9, <1>12

LEMMA SamePaths ==
    ASSUME NEW L, Treelike(L), NEW Q, Grown(Q, L), Complete(Q, L), NEW R, Grown(R, L), Complete(R, L)
    PROVE  Q = R
BY PathsWithin

\* What is reached has one path.
LEMMA RootPath ==
    ASSUME NEW L, Treelike(L), NEW Q, Grown(Q, L), NEW i
    PROVE  << << >>, i>> \in Q => i = SFS_ROOT_LOCATION
<1>1. SUFFICES ASSUME << << >>, i>> \in Q, i # SFS_ROOT_LOCATION PROVE FALSE
  OBVIOUS
<1>2. Comes(Q, L, << >>, i)
  BY <1>1, GrownPath, Zenon
<1>3. PICK h, d, x : By(Q, L, << >>, i, h, d, x)
  BY <1>2, Zenon DEF Comes
<1>4. QED
  BY <1>3, ByIs, Zenon

\* A link to a new inode adds its path.
LEMMA LinkAdded ==
    ASSUME NEW L, Treelike(L), NEW Q, Grown(Q, L), Complete(Q, L),
           NEW h, NEW d, <<h, d>> \in Q, NEW x, NEW i, i # d, ~LinkFrom(L, i),
           NEW L2, Treelike(L2), L2 = L \cup {<<d, x, i>>},
           NEW Q2, Q2 = Q \cup {<<Longer(h, x), i>>}
    PROVE  Grown(Q2, L2) /\ Complete(Q2, L2)
<1>1. x \in Labels /\ h \in Seq(Labels)
  BY GrownPath DEF Treelike
<1>2. Longer(h, x) \in Seq(Labels)
  BY <1>1, LongerIs
<1>3. By(Q2, L2, Longer(h, x), i, h, d, x)
  BY <1>1 DEF By
<1>4. Comes(Q2, L2, Longer(h, x), i)
  BY <1>3, Zenon DEF Comes
<1>5. ASSUME NEW p, NEW j, Comes(Q, L, p, j)
      PROVE  Comes(Q2, L2, p, j)
  <2>1. PICK g, e, y : By(Q, L, p, j, g, e, y)
    BY <1>5, Zenon DEF Comes
  <2>2. By(Q2, L2, p, j, g, e, y)
    BY <2>1 DEF By
  <2>3. QED
    BY <2>2, Zenon DEF Comes
<1>6. ASSUME NEW r \in Q2
      PROVE  \E p, j : /\ r = <<p, j>> /\ p \in Seq(Labels)
                       /\ (p = << >> /\ j = SFS_ROOT_LOCATION) \/ Comes(Q2, L2, p, j)
  <2>1. CASE r \in Q
    <3>1. PICK p, j : /\ r = <<p, j>> /\ p \in Seq(Labels)
                      /\ (p = << >> /\ j = SFS_ROOT_LOCATION) \/ Comes(Q, L, p, j)
      BY <2>1 DEF Grown
    <3>2. QED
      BY <1>5, <3>1
  <2>2. CASE r = <<Longer(h, x), i>>
    BY <1>2, <1>4, <2>2
  <2>3. QED
    BY <2>1, <2>2
<1>7. Grown(Q2, L2)
  BY <1>6 DEF Grown
<1>8. ASSUME NEW p, NEW e, NEW y, NEW j, <<p, e>> \in Q2, <<e, y, j>> \in L2
      PROVE  <<Longer(p, y), j>> \in Q2
  <2>1. CASE <<p, e>> \in Q /\ <<e, y, j>> \in L
    BY <2>1, Zenon DEF Complete
  <2>2. CASE <<p, e>> \in Q /\ <<e, y, j>> = <<d, x, i>>
    <3>1. e = d /\ y = x /\ j = i
      BY <2>2
    <3>2. p = h
      BY <2>2, <3>1, OnePath
    <3>3. QED
      BY <3>1, <3>2
  <2>3. CASE <<p, e>> = <<Longer(h, x), i>>
    <3>1. e = i
      BY <2>3
    <3>2. <<e, y, j>> \in L => LinkFrom(L, i)
      BY <3>1, Zenon DEF LinkFrom
    <3>3. <<e, y, j>> # <<d, x, i>>
      BY <3>1
    <3>4. QED
      BY <1>8, <3>2, <3>3
  <2>4. QED
    BY <1>8, <2>1, <2>2, <2>3
<1>9. QED
  BY <1>7, <1>8, Zenon DEF Complete

\* A link to an inode without links takes its path away.
LEMMA LinkRemoved ==
    ASSUME NEW L, Treelike(L), NEW Q, Grown(Q, L), Complete(Q, L),
           NEW h, NEW d, <<h, d>> \in Q, NEW x, NEW i, <<d, x, i>> \in L, ~LinkFrom(L, i),
           NEW L2, L2 = L \ {<<d, x, i>>},
           NEW Q2, Q2 = Q \ {<<Longer(h, x), i>>}
    PROVE  Treelike(L2) /\ Grown(Q2, L2) /\ Complete(Q2, L2)
<1>1. Treelike(L2)
  BY DEF Treelike
<1>2. ASSUME NEW p, NEW j, <<p, j>> \in Q2, Comes(Q, L, p, j)
      PROVE  Comes(Q2, L2, p, j)
  <2>1. PICK g, e, y : By(Q, L, p, j, g, e, y)
    BY <1>2, Zenon DEF Comes
  <2>2. <<g, e>> \in Q /\ <<e, y, j>> \in L /\ p = Longer(g, y) /\ g \in Seq(Labels)
    BY <2>1 DEF By
  <2>3. <<e, y, j>> # <<d, x, i>>
    <3>1. SUFFICES ASSUME e = d, y = x, j = i PROVE FALSE
      OBVIOUS
    <3>2. g = h
      BY <2>2, <3>1, OnePath
    <3>3. QED
      BY <1>2, <2>2, <3>1, <3>2
  <2>4. <<g, e>> # <<Longer(h, x), i>>
    <3>1. SUFFICES ASSUME e = i PROVE FALSE
      OBVIOUS
    <3>2. LinkFrom(L, i)
      BY <2>2, <3>1, Zenon DEF LinkFrom
    <3>3. QED
      BY <3>2
  <2>5. By(Q2, L2, p, j, g, e, y)
    BY <2>2, <2>3, <2>4 DEF By
  <2>6. QED
    BY <2>5, Zenon DEF Comes
<1>3. ASSUME NEW r \in Q2
      PROVE  \E p, j : /\ r = <<p, j>> /\ p \in Seq(Labels)
                       /\ (p = << >> /\ j = SFS_ROOT_LOCATION) \/ Comes(Q2, L2, p, j)
  <2>1. PICK p, j : /\ r = <<p, j>> /\ p \in Seq(Labels)
                    /\ (p = << >> /\ j = SFS_ROOT_LOCATION) \/ Comes(Q, L, p, j)
    BY DEF Grown
  <2>2. QED
    BY <1>2, <2>1
<1>4. Grown(Q2, L2)
  BY <1>3 DEF Grown
<1>5. i # SFS_ROOT_LOCATION /\ << << >>, SFS_ROOT_LOCATION>> \in Q2
  <2>1. i # SFS_ROOT_LOCATION
    BY DEF Treelike
  <2>2. QED
    BY <2>1 DEF Complete
<1>6. ASSUME NEW p, NEW e, NEW y, NEW j, <<p, e>> \in Q2, <<e, y, j>> \in L2
      PROVE  <<Longer(p, y), j>> \in Q2
  <2>1. <<p, e>> \in Q /\ <<e, y, j>> \in L /\ <<e, y, j>> # <<d, x, i>>
    BY <1>6
  <2>2. <<Longer(p, y), j>> \in Q
    BY <2>1, Zenon DEF Complete
  <2>3. j # i
    BY <2>1 DEF Treelike
  <2>4. QED
    BY <2>2, <2>3
<1>7. QED
  BY <1>1, <1>4, <1>5, <1>6, Zenon DEF Complete

\* The path p is s or below it.
Under(p, s) == Len(s) <= Len(p) /\ SubSeq(p, 1, Len(s)) = s

\* The path p after the name x in the directory at h has become y.
MovedPath(p, h, x, y) ==
    IF Under(p, Longer(h, x))
      THEN Longer(h, y) \o SubSeq(p, Len(Longer(h, x)) + 1, Len(p))
      ELSE p

Begins(s, p) == Len(s) <= Len(p) /\ \A k \in 1 .. Len(s) : s[k] = p[k]

LEMMA UnderIs ==
    ASSUME NEW s \in Seq(Labels), NEW p \in Seq(Labels)
    PROVE  Under(p, s) <=> Begins(s, p)
<1>1. Len(s) \in Nat /\ Len(p) \in Nat
  OBVIOUS
<1>2. CASE Len(s) <= Len(p)
  <2> DEFINE u == Start(p, Len(s))
  <2>2. Len(s) \in 0 .. Len(p)
    BY <1>1, <1>2
  <2>3. u \in Seq(Labels) /\ Len(u) = Len(s) /\ \A k \in 1 .. Len(s) : u[k] = p[k]
    BY <2>2, StartIs
  <2>4. Under(p, s) <=> s = u
    BY <1>2 DEF Under, Start
  <2> HIDE DEF u
  <2>5. s = u <=> \A k \in 1 .. Len(s) : s[k] = u[k]
    BY <2>3, SeqEqual
  <2>6. (\A k \in 1 .. Len(s) : s[k] = u[k]) <=> \A k \in 1 .. Len(s) : s[k] = p[k]
    BY <2>3
  <2>7. QED
    BY <1>2, <2>4, <2>5, <2>6 DEF Begins
<1>3. CASE ~(Len(s) <= Len(p))
  BY <1>1, <1>3 DEF Under, Begins
<1>4. QED
  BY <1>2, <1>3

\* m is p with y in place of x.
Moves(p, h, x, y, m) ==
    /\ m \in Seq(Labels) /\ Len(m) = Len(p) /\ Len(p) \in Nat /\ Len(h) \in Nat
    /\ \A k \in 1 .. Len(p) :
          m[k] = IF Begins(Longer(h, x), p) /\ k = Len(h) + 1 THEN y ELSE p[k]
    /\ ~Begins(Longer(h, x), p) => m = p

LEMMA MovedIs ==
    ASSUME NEW p \in Seq(Labels), NEW h \in Seq(Labels), NEW x \in Labels, NEW y \in Labels
    PROVE  Moves(p, h, x, y, MovedPath(p, h, x, y))
<1>8. PICK m : m = MovedPath(p, h, x, y)
  OBVIOUS
<1> DEFINE f == Longer(h, x)
           g == Longer(h, y)
<1>1. /\ f \in Seq(Labels) /\ Len(f) = Len(h) + 1 /\ Len(h) \in Nat
      /\ \A k \in 1 .. Len(h) : f[k] = h[k]
  BY LongerIs
<1>2. /\ g \in Seq(Labels) /\ Len(g) = Len(h) + 1 /\ g[Len(h) + 1] = y
      /\ \A k \in 1 .. Len(h) : g[k] = h[k]
  BY LongerIs
<1>3. m = IF Under(p, f) THEN g \o SubSeq(p, Len(f) + 1, Len(p)) ELSE p
  BY <1>8 DEF MovedPath
<1> HIDE DEF f, g
<1>4. Len(p) \in Nat /\ (Under(p, f) <=> Begins(f, p))
  BY <1>1, UnderIs
<1>5. CASE ~Begins(f, p)
  BY <1>1, <1>3, <1>4, <1>5, <1>8 DEF f, Moves
<1>6. CASE Begins(f, p)
  <2> DEFINE n == Len(h) + 1
             u == SubSeq(p, n + 1, Len(p))
  <2>1. n \in Nat /\ n >= 1 /\ n <= Len(p) /\ \A k \in 1 .. n : f[k] = p[k]
    BY <1>1, <1>4, <1>6 DEF Begins
  <2>2. m = g \o u
    BY <1>1, <1>3, <1>4, <1>6
  <2>3. u \in Seq(Labels) /\ Len(u) = Len(p) - n /\ \A k \in 1 .. Len(p) - n : u[k] = p[k + n]
    BY <1>4, <2>1
  <2>9. Len(g) = n /\ g[n] = y /\ \A k \in 1 .. n - 1 : g[k] = p[k]
    BY <1>1, <1>2, <2>1
  <2> HIDE DEF u, n
  <2>4. m \in Seq(Labels) /\ Len(m) = Len(p)
    <3>1. (g \o u) \in Seq(Labels) /\ Len(g \o u) = Len(g) + Len(u)
      BY <1>2, <2>3, ConcatProperties
    <3>2. QED
      BY <1>4, <2>1, <2>2, <2>3, <2>9, <3>1
  <2>5. ASSUME NEW k \in 1 .. Len(p)
        PROVE  m[k] = IF k = n THEN y ELSE p[k]
    <3>1. CASE k <= n
      <4>1. m[k] = g[k]
        BY <1>2, <2>1, <2>2, <2>3, <2>9, <3>1
      <4>2. k = n \/ k \in 1 .. n - 1
        BY <2>1, <3>1
      <4>3. QED
        BY <2>9, <4>1, <4>2
    <3>2. CASE ~(k <= n)
      <4>1. k - n \in 1 .. Len(p) - n /\ (k - n) + n = k /\ k # n
        BY <1>4, <2>1, <3>2
      <4>2. m[k] = u[k - n]
        BY <1>2, <2>1, <2>2, <2>3, <2>9, <3>2
      <4>3. QED
        BY <2>3, <4>1, <4>2
    <3>3. QED
      BY <3>1, <3>2
  <2>6. QED
    BY <1>1, <1>4, <1>6, <1>8, <2>4, <2>5 DEF f, n, Moves
<1>7. QED
  BY <1>5, <1>6

LEMMA MovedAt ==
    ASSUME NEW h \in Seq(Labels), NEW x \in Labels, NEW y \in Labels, NEW f, f = Longer(h, x)
    PROVE  /\ MovedPath(<< >>, h, x, y) = << >>
           /\ MovedPath(h, h, x, y) = h
           /\ MovedPath(f, h, x, y) = Longer(h, y)
<1>1. /\ f \in Seq(Labels) /\ Len(f) = Len(h) + 1 /\ Len(h) \in Nat
      /\ \A k \in 1 .. Len(h) : f[k] = h[k]
  BY LongerIs
<1>11. PICK g : g = Longer(h, y)
  OBVIOUS
<1>12. PICK m : m = MovedPath(f, h, x, y)
  OBVIOUS
<1>2. /\ g \in Seq(Labels) /\ Len(g) = Len(h) + 1 /\ g[Len(h) + 1] = y
      /\ \A k \in 1 .. Len(h) : g[k] = h[k]
  BY <1>11, LongerIs
<1>3. << >> \in Seq(Labels) /\ Len(<< >>) = 0
  OBVIOUS
<1>4. ~Begins(f, << >>) /\ ~Begins(f, h) /\ Begins(f, f)
  BY <1>1, <1>3 DEF Begins
<1>5. MovedPath(<< >>, h, x, y) = << >>
  BY <1>3, <1>4, MovedIs DEF Moves
<1>6. MovedPath(h, h, x, y) = h
  BY <1>4, MovedIs DEF Moves
<1>7. /\ m \in Seq(Labels) /\ Len(m) = Len(f)
      /\ \A k \in 1 .. Len(f) : m[k] = IF Begins(f, f) /\ k = Len(h) + 1 THEN y ELSE f[k]
  <2>1. Moves(f, h, x, y, MovedPath(f, h, x, y))
    BY <1>1, MovedIs
  <2>2. QED
    BY <1>12, <2>1 DEF Moves
<1>8. \A k \in 1 .. Len(f) : m[k] = g[k]
  BY <1>1, <1>2, <1>4, <1>7
<1>9. m = g
  BY <1>1, <1>2, <1>7, <1>8, SeqEqual
<1>10. QED
  BY <1>5, <1>6, <1>9, <1>11, <1>12

\* Every other path moves with the one it continues.
LEMMA MovedLonger ==
    ASSUME NEW h \in Seq(Labels), NEW x \in Labels, NEW y \in Labels, NEW f, f = Longer(h, x),
           NEW p \in Seq(Labels), NEW z \in Labels, NEW q, q = Longer(p, z), q # f,
           NEW m, m = MovedPath(p, h, x, y)
    PROVE  MovedPath(q, h, x, y) = Longer(m, z)
<1>1. f \in Seq(Labels) /\ Len(f) = Len(h) + 1 /\ Len(h) \in Nat
  BY LongerIs
<1>2. /\ q \in Seq(Labels) /\ Len(q) = Len(p) + 1 /\ Len(p) \in Nat
      /\ \A k \in 1 .. Len(p) : q[k] = p[k]
      /\ q[Len(p) + 1] = z
  BY LongerIs
<1>3. q # f
  OBVIOUS
<1>4. Begins(f, q) <=> Begins(f, p)
  <2>1. ASSUME Begins(f, q)
        PROVE  Begins(f, p)
    <3>1. Len(f) # Len(q)
      BY <1>1, <1>2, <1>3, <2>1, SeqEqual DEF Begins
    <3>2. Len(f) <= Len(p)
      BY <1>1, <1>2, <2>1, <3>1 DEF Begins
    <3>3. QED
      BY <1>1, <1>2, <2>1, <3>2 DEF Begins
  <2>2. ASSUME Begins(f, p)
        PROVE  Begins(f, q)
    BY <1>1, <1>2, <2>2 DEF Begins
  <2>3. QED
    BY <2>1, <2>2
<1>5. /\ m \in Seq(Labels) /\ Len(m) = Len(p)
      /\ \A k \in 1 .. Len(p) : m[k] = IF Begins(f, p) /\ k = Len(h) + 1 THEN y ELSE p[k]
  <2>1. Moves(p, h, x, y, MovedPath(p, h, x, y))
    BY MovedIs
  <2>2. QED
    BY <2>1 DEF Moves
<1>12. PICK a : a = MovedPath(q, h, x, y)
  OBVIOUS
<1>13. PICK c : c = Longer(m, z)
  OBVIOUS
<1>6. /\ a \in Seq(Labels) /\ Len(a) = Len(q)
      /\ \A k \in 1 .. Len(q) : a[k] = IF Begins(f, q) /\ k = Len(h) + 1 THEN y ELSE q[k]
  <2>1. Moves(q, h, x, y, MovedPath(q, h, x, y))
    BY <1>2, MovedIs
  <2>2. QED
    BY <1>12, <2>1 DEF Moves
<1>7. /\ c \in Seq(Labels) /\ Len(c) = Len(m) + 1
      /\ \A k \in 1 .. Len(m) : c[k] = m[k]
      /\ c[Len(m) + 1] = z
  BY <1>5, <1>13, LongerIs
<1>8. ASSUME NEW k \in 1 .. Len(q)
      PROVE  a[k] = c[k]
  <2>1. CASE k \in 1 .. Len(p)
    BY <1>2, <1>4, <1>5, <1>6, <1>7, <2>1
  <2>2. CASE k = Len(p) + 1
    <3>1. Begins(f, q) => k # Len(h) + 1
      BY <1>1, <1>2, <1>4, <2>2 DEF Begins
    <3>2. QED
      BY <1>2, <1>5, <1>6, <1>7, <2>2, <3>1
  <2>3. QED
    BY <1>2, <2>1, <2>2
<1>9. a = c
  BY <1>2, <1>5, <1>6, <1>7, <1>8, SeqEqual
<1>10. QED
  BY <1>9, <1>12, <1>13

\* A link that is renamed takes along the paths through it.
LEMMA LinkRenamed ==
    ASSUME NEW L, Treelike(L), NEW Q, Grown(Q, L), Complete(Q, L),
           NEW h, NEW d, <<h, d>> \in Q, NEW x, NEW i, <<d, x, i>> \in L, NEW y \in Labels,
           NEW L2, Treelike(L2), L2 = (L \ {<<d, x, i>>}) \cup {<<d, y, i>>},
           NEW Q2, Q2 = {<<MovedPath(r[1], h, x, y), r[2]>> : r \in Q}
    PROVE  Grown(Q2, L2) /\ Complete(Q2, L2)
<1>1. h \in Seq(Labels) /\ x \in Labels
  BY GrownPath DEF Treelike
<1>2. PICK f : f = Longer(h, x)
  OBVIOUS
<1>3. ASSUME NEW p, NEW j, <<p, j>> \in Q
      PROVE  <<MovedPath(p, h, x, y), j>> \in Q2
  BY <1>3
<1>4. ASSUME NEW r \in Q2
      PROVE  \E p, j : <<p, j>> \in Q /\ r = <<MovedPath(p, h, x, y), j>>
  <2>1. PICK s \in Q : r = <<MovedPath(s[1], h, x, y), s[2]>>
    OBVIOUS
  <2>2. PICK p, j : s = <<p, j>>
    BY DEF Grown
  <2>3. QED
    BY <2>1, <2>2
<1>5. /\ MovedPath(<< >>, h, x, y) = << >>
      /\ MovedPath(h, h, x, y) = h
      /\ MovedPath(f, h, x, y) = Longer(h, y)
  BY <1>1, <1>2, MovedAt
<1>6. ASSUME NEW p, NEW e, <<p, e>> \in Q, NEW z, NEW j, <<e, z, j>> \in L, <<e, z, j>> # <<d, x, i>>
      PROVE  MovedPath(Longer(p, z), h, x, y) = Longer(MovedPath(p, h, x, y), z)
  <2>1. p \in Seq(Labels) /\ z \in Labels
    BY <1>6, GrownPath DEF Treelike
  <2>2. Longer(p, z) # f
    <3>1. ASSUME Longer(p, z) = f
          PROVE  FALSE
      <4>1. p = h /\ z = x
        BY <1>1, <1>2, <2>1, <3>1, LongerOnce
      <4>2. e = d
        BY <1>6, <4>1, OneInode
      <4>3. QED
        BY <1>6, <4>1, <4>2 DEF Treelike
    <3>2. QED
      BY <3>1
  <2>3. QED
    BY <1>1, <1>2, <2>1, <2>2, MovedLonger
<1>7. ASSUME NEW r \in Q2
      PROVE  \E m, j : /\ r = <<m, j>> /\ m \in Seq(Labels)
                       /\ (m = << >> /\ j = SFS_ROOT_LOCATION) \/ Comes(Q2, L2, m, j)
  <2>1. PICK p, j : <<p, j>> \in Q /\ r = <<MovedPath(p, h, x, y), j>>
    BY <1>4
  <2>2. PICK m : m = MovedPath(p, h, x, y)
    OBVIOUS
  <2>3. p \in Seq(Labels) /\ ((p = << >> /\ j = SFS_ROOT_LOCATION) \/ Comes(Q, L, p, j))
    BY <2>1, GrownPath
  <2>4. m \in Seq(Labels)
    <3>1. Moves(p, h, x, y, MovedPath(p, h, x, y))
      BY <1>1, <2>3, MovedIs
    <3>2. QED
      BY <2>2, <3>1 DEF Moves
  <2>5. CASE Comes(Q, L, p, j)
    <3>1. PICK g, e, z : By(Q, L, p, j, g, e, z)
      BY <2>5 DEF Comes
    <3>2. /\ <<g, e>> \in Q /\ <<e, z, j>> \in L
          /\ g \in Seq(Labels) /\ z \in Labels /\ p = Longer(g, z)
      BY <3>1, ByIs
    <3>3. CASE <<e, z, j>> = <<d, x, i>>
      <4>1. e = d /\ z = x /\ j = i
        BY <3>3
      <4>2. g = h
        BY <3>2, <4>1, OnePath
      <4>3. m = Longer(h, y)
        BY <1>2, <1>5, <2>2, <3>2, <4>1, <4>2
      <4>4. <<h, d>> \in Q2 /\ <<d, y, j>> \in L2
        BY <1>3, <1>5, <4>1
      <4>5. By(Q2, L2, m, j, h, d, y)
        BY <1>1, <4>3, <4>4 DEF By
      <4>6. QED
        BY <2>1, <2>2, <2>4, <4>5 DEF Comes
    <3>4. CASE <<e, z, j>> # <<d, x, i>>
      <4>1. PICK q : q = MovedPath(g, h, x, y)
        OBVIOUS
      <4>2. m = Longer(q, z)
        BY <1>6, <2>2, <3>2, <3>4, <4>1
      <4>3. <<q, e>> \in Q2 /\ <<e, z, j>> \in L2
        BY <1>3, <3>2, <3>4, <4>1
      <4>4. q \in Seq(Labels)
        <5>1. Moves(g, h, x, y, MovedPath(g, h, x, y))
          BY <1>1, <3>2, MovedIs
        <5>2. QED
          BY <4>1, <5>1 DEF Moves
      <4>5. By(Q2, L2, m, j, q, e, z)
        BY <4>2, <4>3, <4>4 DEF By
      <4>6. QED
        BY <2>1, <2>2, <2>4, <4>5 DEF Comes
    <3>5. QED
      BY <3>3, <3>4
  <2>6. QED
    BY <1>5, <2>1, <2>2, <2>3, <2>4, <2>5
<1>8. Grown(Q2, L2)
  BY <1>7 DEF Grown
<1>9. << << >>, SFS_ROOT_LOCATION>> \in Q2
  BY <1>3, <1>5 DEF Complete
<1>10. ASSUME NEW q, NEW e, NEW z, NEW j, <<q, e>> \in Q2, <<e, z, j>> \in L2
       PROVE  <<Longer(q, z), j>> \in Q2
  <2>1. PICK p : <<p, e>> \in Q /\ q = MovedPath(p, h, x, y)
    <3>1. PICK p, k : <<p, k>> \in Q /\ <<q, e>> = <<MovedPath(p, h, x, y), k>>
      BY <1>4, <1>10
    <3>2. QED
      BY <3>1
  <2>2. CASE <<e, z, j>> \in L /\ <<e, z, j>> # <<d, x, i>>
    <3>1. <<Longer(p, z), j>> \in Q
      BY <2>1, <2>2 DEF Complete
    <3>2. QED
      BY <1>3, <1>6, <2>1, <2>2, <3>1
  <2>3. CASE <<e, z, j>> = <<d, y, i>>
    <3>1. e = d /\ z = y /\ j = i
      BY <2>3
    <3>2. p = h
      BY <2>1, <3>1, OnePath
    <3>3. <<f, i>> \in Q
      BY <1>2 DEF Complete
    <3>4. <<Longer(h, y), i>> \in Q2
      BY <1>3, <1>5, <3>3
    <3>5. QED
      BY <1>5, <2>1, <3>1, <3>2, <3>4
  <2>4. QED
    BY <1>10, <2>2, <2>3
<1>11. QED
  BY <1>8, <1>9, <1>10 DEF Complete

----------------------------------------------------------------------------
\* The links of a disk, and the paths along them.

\* The entry in row k, column j of directory d gives inode i the name x.
Gave(n, b, d, k, j, x, i) ==
    /\ Used(n, b, d, k, j) /\ x \notin Dots
    /\ b[n[d].direct[k]][j].sfd_name = x /\ b[n[d].direct[k]][j].sfd_ino = i

IsLink(n, b, d, x, i) == d \in DirsIn(n) /\ \E k \in Rows, j \in Columns : Gave(n, b, d, k, j, x, i)

\* Links of Sfs, of any disk.
LinksIn(n, b) == {l \in DirsIn(n) \X Labels \X Blocks : IsLink(n, b, l[1], l[2], l[3])}

LinksOf(n, b, L) ==
    /\ Triples(L)
    /\ \A d, x, i : <<d, x, i>> \in L <=> IsLink(n, b, d, x, i)

LEMMA GaveIs ==
    ASSUME NEW n, NEW b, NEW x, NEW t, NEW m, NEW O, DiskOK(n, b, x, t, m, O),
           NEW d \in DirsIn(n), NEW k \in Rows, NEW j \in Columns, NEW y, NEW i, Gave(n, b, d, k, j, y, i),
           NEW c, c = n[d].direct[k]
    PROVE  /\ c \in DOMAIN b /\ Gives(b, c, j) /\ b[c][j].sfd_ino = i /\ b[c][j].sfd_name = y
           /\ y \in Labels /\ i \in Blocks /\ i \in DOMAIN n /\ i # SFS_ROOT_LOCATION /\ i \notin O
<1>1. c # 0 /\ b[c][j].sfd_ino = i /\ i # 0 /\ b[c][j].sfd_name = y /\ y \notin Dots
  BY DEF Gave, Used
<1>2. c \in DOMAIN b
  BY <1>1 DEF DiskOK, DirectKinds
<1>3. b[c][j] \in EntryRecords
  BY <1>2 DEF DiskOK, Tables
<1>4. Gives(b, c, j)
  BY <1>1 DEF Gives
<1>5. i \in DOMAIN n /\ i \notin O \cup {SFS_ROOT_LOCATION}
  BY <1>1, <1>2, <1>4 DEF DiskOK, EntriesLead
<1>6. y \in Labels /\ i \in Blocks
  BY <1>1, <1>3 DEF EntryRecords, Paths, Dots, Labels
<1>7. QED
  BY <1>1, <1>2, <1>4, <1>5, <1>6

LEMMA LinksInAre ==
    ASSUME NEW n, NEW b, NEW x, NEW t, NEW m, NEW O, DiskOK(n, b, x, t, m, O)
    PROVE  LinksOf(n, b, LinksIn(n, b))
<1>1. ASSUME NEW d, NEW y, NEW i, IsLink(n, b, d, y, i)
      PROVE  <<d, y, i>> \in LinksIn(n, b)
  <2>1. PICK k \in Rows, j \in Columns : Gave(n, b, d, k, j, y, i)
    BY <1>1 DEF IsLink
  <2>2. d \in DirsIn(n) /\ y \in Labels /\ i \in Blocks
    BY <1>1, <2>1, GaveIs DEF IsLink
  <2>3. QED
    BY <1>1, <2>2 DEF LinksIn
<1>2. ASSUME NEW d, NEW y, NEW i, <<d, y, i>> \in LinksIn(n, b)
      PROVE  IsLink(n, b, d, y, i)
  BY <1>2 DEF LinksIn
<1>3. Triples(LinksIn(n, b))
  BY DEF LinksIn, Triples
<1>4. QED
  BY <1>1, <1>2, <1>3 DEF LinksOf

\* Two sets of links that tell the same are the same.
LEMMA SameTriples ==
    ASSUME NEW L, NEW M, Triples(L), Triples(M), \A d, x, i : <<d, x, i>> \in L <=> <<d, x, i>> \in M
    PROVE  L = M
BY DEF Triples

LEMMA LinksTreelike ==
    ASSUME NEW n, NEW b, NEW x, NEW t, NEW m, NEW O, DiskOK(n, b, x, t, m, O),
           NEW L, LinksOf(n, b, L)
    PROVE  Treelike(L)
<1>1. ASSUME NEW d, NEW y, NEW i, <<d, y, i>> \in L
      PROVE  d \in DirsIn(n) /\ \E k \in Rows, j \in Columns : Gave(n, b, d, k, j, y, i)
  BY <1>1 DEF LinksOf, IsLink
<1>2. ASSUME NEW d, NEW y, NEW i, <<d, y, i>> \in L
      PROVE  y \in Labels /\ i # SFS_ROOT_LOCATION
  BY <1>1, <1>2, GaveIs
<1>3. ASSUME NEW d, NEW y, NEW i, <<d, y, i>> \in L, NEW e, NEW z, <<e, z, i>> \in L
      PROVE  d = e /\ y = z
  <2>1. d \in DirsIn(n) /\ e \in DirsIn(n) /\ d \in DOMAIN n /\ e \in DOMAIN n
    BY <1>1, <1>3 DEF DirsIn
  <2>2. PICK k \in Rows, j \in Columns : Gave(n, b, d, k, j, y, i)
    BY <1>1, <1>3
  <2>3. PICK l \in Rows, h \in Columns : Gave(n, b, e, l, h, z, i)
    BY <1>1, <1>3
  <2> DEFINE c == n[d].direct[k]
             f == n[e].direct[l]
  <2>4. c \in DOMAIN b /\ Gives(b, c, j) /\ b[c][j].sfd_ino = i /\ b[c][j].sfd_name = y
    BY <2>1, <2>2, GaveIs
  <2>5. f \in DOMAIN b /\ Gives(b, f, h) /\ b[f][h].sfd_ino = i /\ b[f][h].sfd_name = z
    BY <2>1, <2>3, GaveIs
  <2>6. c = f /\ j = h
    BY <2>4, <2>5 DEF DiskOK, LinksOnce
  <2>7. d = e
    BY <2>1, <2>2, <2>6 DEF DiskOK, DirectOnce, Gave, Used
  <2>8. QED
    BY <2>4, <2>5, <2>6, <2>7
<1>4. ASSUME NEW d, NEW y, NEW i, <<d, y, i>> \in L, NEW j, <<d, y, j>> \in L
      PROVE  i = j
  <2>1. d \in DirsIn(n)
    BY <1>1, <1>4
  <2>2. PICK k \in Rows, g \in Columns : Gave(n, b, d, k, g, y, i)
    BY <1>1, <1>4
  <2>3. PICK l \in Rows, h \in Columns : Gave(n, b, d, l, h, y, j)
    BY <1>1, <1>4
  <2>4. NamesOf(n, b, d)
    BY <2>1 DEF DiskOK, NamesOnce
  <2>5. k = l /\ g = h
    BY <2>2, <2>3, <2>4 DEF NamesOf, Gave
  <2>6. QED
    BY <2>2, <2>3, <2>5 DEF Gave
<1>5. QED
  BY <1>2, <1>3, <1>4 DEF Treelike

LEMMA LinksFinite ==
    ASSUME NEW n, NEW b, NEW x, NEW t, NEW m, NEW O, DiskOK(n, b, x, t, m, O),
           NEW L, LinksOf(n, b, L), NEW D, D = {l[1] : l \in L}
    PROVE  IsFiniteSet(D)
<1>1. D \subseteq Blocks
  <2>1. ASSUME NEW l \in L
        PROVE  l[1] \in Blocks
    <3>1. PICK d, y, i : l = <<d, y, i>>
      BY DEF LinksOf, Triples
    <3>2. d \in DOMAIN n
      BY <3>1 DEF LinksOf, IsLink, DirsIn
    <3>3. DOMAIN n \subseteq Blocks
      BY DEF DiskOK, Kinds
    <3>4. QED
      BY <3>1, <3>2, <3>3
  <2>2. QED
    BY <2>1
<1>2. IsFiniteSet(Blocks)
  BY VolumeFacts, FS_Interval DEF Blocks
<1>3. QED
  BY <1>1, <1>2, FS_Subset

\* The paths of a disk, and what the user sees at them.
PathsOn(n, b) == PathsAlong(LinksIn(n, b))

Shown(n, x, t, i) == IF n[i].type = "file" THEN ContentIn(n, x, t, i) ELSE ADirectory

TreeOn(n, b, x, t) == {<<r[1], Shown(n, x, t, r[2])>> : r \in PathsOn(n, b)}

Walked(n, b, L, Q) == LinksOf(n, b, L) /\ Treelike(L) /\ Grown(Q, L) /\ Complete(Q, L)

LEMMA DiskWalked ==
    ASSUME NEW n, NEW b, NEW x, NEW t, NEW m, NEW O, DiskOK(n, b, x, t, m, O)
    PROVE  Walked(n, b, LinksIn(n, b), PathsOn(n, b))
<1>1. PICK L : L = LinksIn(n, b)
  OBVIOUS
<1>2. PICK Q : Q = PathsAlong(L)
  OBVIOUS
<1>3. PICK D : D = {l[1] : l \in L}
  OBVIOUS
<1>4. LinksOf(n, b, L)
  BY <1>1, LinksInAre
<1>5. Treelike(L) /\ Triples(L)
  BY <1>4, LinksTreelike DEF LinksOf
<1>6. IsFiniteSet(D)
  BY <1>3, <1>4, LinksFinite
<1>7. Grown(Q, L) /\ Complete(Q, L)
  BY <1>2, <1>3, <1>5, <1>6, PathsAre
<1>8. QED
  BY <1>1, <1>2, <1>4, <1>5, <1>7 DEF Walked, PathsOn

\* These are the only ones.
LEMMA WalkedOnce ==
    ASSUME NEW n, NEW b, NEW x, NEW t, NEW m, NEW O, DiskOK(n, b, x, t, m, O),
           NEW L, LinksOf(n, b, L), NEW Q, Grown(Q, L), Complete(Q, L)
    PROVE  L = LinksIn(n, b) /\ Q = PathsOn(n, b)
<1>1. PICK M : M = LinksIn(n, b)
  OBVIOUS
<1>2. Walked(n, b, M, PathsOn(n, b))
  BY <1>1, DiskWalked
<1>3. L = M
  <2>1. Triples(L) /\ Triples(M) /\ \A d, y, i : <<d, y, i>> \in L <=> <<d, y, i>> \in M
    BY <1>2 DEF Walked, LinksOf
  <2>2. QED
    BY <2>1, SameTriples
<1>4. Q = PathsOn(n, b)
  BY <1>2, <1>3, SamePaths DEF Walked
<1>5. QED
  BY <1>1, <1>3, <1>4

LEMMA ReachedInode ==
    ASSUME NEW n, NEW b, NEW x, NEW t, NEW m, NEW O, DiskOK(n, b, x, t, m, O),
           NEW p, NEW i, <<p, i>> \in PathsOn(n, b)
    PROVE  i \in DOMAIN n /\ p \in Seq(Labels) /\ (i # SFS_ROOT_LOCATION => i \notin O)
<1>1. PICK L, Q : L = LinksIn(n, b) /\ Q = PathsOn(n, b)
  OBVIOUS
<1>2. Walked(n, b, L, Q)
  BY <1>1, DiskWalked
<1>3. p \in Seq(Labels) /\ ((p = << >> /\ i = SFS_ROOT_LOCATION) \/ Comes(Q, L, p, i))
  BY <1>1, <1>2, GrownPath DEF Walked
<1>4. CASE Comes(Q, L, p, i)
  <2>1. PICK h, d, y : <<d, y, i>> \in L
    BY <1>4 DEF Comes, By
  <2>2. PICK k \in Rows, j \in Columns : Gave(n, b, d, k, j, y, i)
    BY <1>2, <2>1 DEF Walked, LinksOf, IsLink
  <2>3. d \in DirsIn(n)
    BY <1>2, <2>1 DEF Walked, LinksOf, IsLink
  <2>4. QED
    BY <1>3, <2>2, <2>3, GaveIs
<1>5. SFS_ROOT_LOCATION \in DOMAIN n
  BY DEF DiskOK, Kinds, DirsIn
<1>6. QED
  BY <1>3, <1>4, <1>5

SeenAt(n, b, x, t, e) == \E p, i : <<p, i>> \in PathsOn(n, b) /\ e = <<p, Shown(n, x, t, i)>>

LEMMA InTree ==
    ASSUME NEW n, NEW b, NEW x, NEW t, NEW m, NEW O, DiskOK(n, b, x, t, m, O), NEW e
    PROVE  e \in TreeOn(n, b, x, t) <=> SeenAt(n, b, x, t, e)
<1>1. PICK Q : Q = PathsOn(n, b)
  OBVIOUS
<1>2. \A r \in Q : \E p, i : r = <<p, i>>
  BY <1>1, DiskWalked DEF Walked, Grown
<1>3. e \in TreeOn(n, b, x, t) <=> \E r \in Q : e = <<r[1], Shown(n, x, t, r[2])>>
  BY <1>1 DEF TreeOn
<1>4. ASSUME NEW r \in Q, e = <<r[1], Shown(n, x, t, r[2])>>
      PROVE  \E p, i : <<p, i>> \in Q /\ e = <<p, Shown(n, x, t, i)>>
  <2>1. PICK p, i : r = <<p, i>>
    BY <1>2
  <2>2. <<p, i>> \in Q /\ r[1] = p /\ r[2] = i
    BY <2>1
  <2>3. QED
    BY <1>4, <2>2
<1>5. ASSUME NEW p, NEW i, <<p, i>> \in Q, e = <<p, Shown(n, x, t, i)>>
      PROVE  \E r \in Q : e = <<r[1], Shown(n, x, t, r[2])>>
  <2>1. <<p, i>>[1] = p /\ <<p, i>>[2] = i
    OBVIOUS
  <2>2. QED
    BY <1>5, <2>1
<1>6. QED
  BY <1>1, <1>3, <1>4, <1>5 DEF SeenAt

LEMMA TreeHas ==
    ASSUME NEW n, NEW b, NEW x, NEW t, NEW m, NEW O, DiskOK(n, b, x, t, m, O),
           NEW p, NEW i, <<p, i>> \in PathsOn(n, b)
    PROVE  <<p, Shown(n, x, t, i)>> \in TreeOn(n, b, x, t)
BY InTree DEF SeenAt

\* The names in the directory at h, and the paths one longer than h.
LEMMA PathHere ==
    ASSUME NEW n, NEW b, NEW x, NEW t, NEW m, NEW O, DiskOK(n, b, x, t, m, O),
           NEW h, NEW d, <<h, d>> \in PathsOn(n, b), NEW y \in Labels, NEW i
    PROVE  <<Longer(h, y), i>> \in PathsOn(n, b) <=> IsLink(n, b, d, y, i)
<1>1. PICK L, Q : L = LinksIn(n, b) /\ Q = PathsOn(n, b)
  OBVIOUS
<1>2. Walked(n, b, L, Q)
  BY <1>1, DiskWalked
<1>3. <<d, y, i>> \in L <=> IsLink(n, b, d, y, i)
  BY <1>2 DEF Walked, LinksOf
<1>4. h \in Seq(Labels)
  BY ReachedInode
<1>5. ASSUME <<d, y, i>> \in L
      PROVE  <<Longer(h, y), i>> \in Q
  BY <1>1, <1>2, <1>5 DEF Walked, Complete
<1>6. ASSUME <<Longer(h, y), i>> \in Q
      PROVE  <<d, y, i>> \in L
  <2>1. PICK p : p = Longer(h, y)
    OBVIOUS
  <2>2. p # << >>
    BY <1>4, <2>1, LongerIs
  <2>3. Comes(Q, L, p, i)
    BY <1>2, <1>6, <2>1, <2>2, GrownPath DEF Walked
  <2>4. PICK g, e, z : By(Q, L, p, i, g, e, z)
    BY <2>3 DEF Comes
  <2>5. <<g, e>> \in Q /\ <<e, z, i>> \in L /\ g \in Seq(Labels) /\ z \in Labels /\ p = Longer(g, z)
    BY <1>2, <2>4, ByIs DEF Walked
  <2>6. g = h /\ z = y
    <3>1. Longer(g, z) = Longer(h, y)
      BY <2>1, <2>5
    <3>2. QED
      BY <1>4, <2>5, <3>1, LongerOnce
  <2>7. e = d
    BY <1>1, <1>2, <2>5, <2>6, OneInode DEF Walked
  <2>8. QED
    BY <2>5, <2>6, <2>7
<1>7. QED
  BY <1>1, <1>3, <1>5, <1>6

----------------------------------------------------------------------------
\* A link is added, taken away or renamed.

AddsLink(n, b, n2, b2, d, y, i) ==
    \A e, z, j : IsLink(n2, b2, e, z, j) <=> IsLink(n, b, e, z, j) \/ <<e, z, j>> = <<d, y, i>>

DropsLink(n, b, n2, b2, d, y, i) ==
    /\ IsLink(n, b, d, y, i)
    /\ \A e, z, j : IsLink(n2, b2, e, z, j) <=> IsLink(n, b, e, z, j) /\ <<e, z, j>> # <<d, y, i>>

RenamesLink(n, b, n2, b2, d, y, z, i) ==
    /\ IsLink(n, b, d, y, i)
    /\ \A e, w, j : IsLink(n2, b2, e, w, j) <=> \/ IsLink(n, b, e, w, j) /\ <<e, w, j>> # <<d, y, i>>
                                                \/ <<e, w, j>> = <<d, z, i>>

\* Links are from and to where there were links, or to what has none itself.
Apart(n, b, n2, b2) ==
    \A d, y, i : IsLink(n2, b2, d, y, i) =>
        (\E z : IsLink(n, b, d, z, i)) \/ (i # d /\ \A z, j : ~IsLink(n2, b2, i, z, j))

LEMMA AddedApart ==
    ASSUME NEW n, NEW b, NEW n2, NEW b2, NEW d \in DirsIn(n), NEW x, NEW ino, ino \notin DOMAIN n,
           AddsLink(n, b, n2, b2, d, x, ino)
    PROVE  Apart(n, b, n2, b2)
<1>1. ino # d /\ ino \notin DirsIn(n)
  BY DEF DirsIn
<1>2. ASSUME NEW z, NEW j, IsLink(n2, b2, ino, z, j)
      PROVE  FALSE
  BY <1>1, <1>2 DEF AddsLink, IsLink
<1>3. ASSUME NEW e, NEW y, NEW i, IsLink(n2, b2, e, y, i)
      PROVE  (\E z : IsLink(n, b, e, z, i)) \/ (i # e /\ \A z, j : ~IsLink(n2, b2, i, z, j))
  <2>1. CASE IsLink(n, b, e, y, i)
    BY <2>1
  <2>2. CASE <<e, y, i>> = <<d, x, ino>>
    <3>1. e = d /\ i = ino
      BY <2>2
    <3>2. QED
      BY <1>1, <1>2, <3>1
  <2>3. QED
    BY <1>3, <2>1, <2>2 DEF AddsLink
<1>4. QED
  BY <1>3 DEF Apart

LEMMA DroppedApart ==
    ASSUME NEW n, NEW b, NEW n2, NEW b2, NEW d, NEW x, NEW ino, DropsLink(n, b, n2, b2, d, x, ino)
    PROVE  Apart(n, b, n2, b2)
BY Zenon DEF DropsLink, Apart

LEMMA RenamedApart ==
    ASSUME NEW n, NEW b, NEW n2, NEW b2, NEW d, NEW x, NEW y, NEW ino, RenamesLink(n, b, n2, b2, d, x, y, ino)
    PROVE  Apart(n, b, n2, b2)
<1>1. ASSUME NEW e, NEW w, NEW i, IsLink(n2, b2, e, w, i)
      PROVE  \E z : IsLink(n, b, e, z, i)
  <2>1. CASE IsLink(n, b, e, w, i)
    BY <2>1
  <2>2. CASE <<e, w, i>> = <<d, y, ino>>
    <3>1. e = d /\ i = ino
      BY <2>2
    <3>2. QED
      BY <3>1 DEF RenamesLink
  <2>3. QED
    BY <1>1, <2>1, <2>2 DEF RenamesLink
<1>2. QED
  BY <1>1 DEF Apart

\* What the user sees of the inodes in S is the same.
ShownAlike(n, x, t, n2, x2, t2, S) == \A i \in S : Shown(n2, x2, t2, i) = Shown(n, x, t, i)

LEMMA PathAdded ==
    ASSUME NEW n, NEW b, NEW x, NEW t, NEW m, DiskOK(n, b, x, t, m, {}),
           NEW n2, NEW b2, NEW x2, NEW t2, NEW m2, DiskOK(n2, b2, x2, t2, m2, {}),
           NEW h, NEW d, <<h, d>> \in PathsOn(n, b), NEW y, NEW i, i \notin DOMAIN n,
           AddsLink(n, b, n2, b2, d, y, i)
    PROVE  PathsOn(n2, b2) = PathsOn(n, b) \cup {<<Longer(h, y), i>>}
<1>1. PICK L, Q : L = LinksIn(n, b) /\ Q = PathsOn(n, b)
  OBVIOUS
<1>2. Walked(n, b, L, Q)
  BY <1>1, DiskWalked
<1>3. LinksOf(n, b, L) /\ Treelike(L) /\ Grown(Q, L) /\ Complete(Q, L) /\ Triples(L)
  BY <1>2 DEF Walked, LinksOf
<1>4. PICK L2 : L2 = L \cup {<<d, y, i>>}
  OBVIOUS
<1>5. LinksOf(n2, b2, L2)
  <2>1. Triples(L2)
    BY <1>3, <1>4 DEF Triples
  <2>2. ASSUME NEW e, NEW z, NEW j
        PROVE  <<e, z, j>> \in L2 <=> IsLink(n2, b2, e, z, j)
    BY <1>3, <1>4 DEF LinksOf, AddsLink
  <2>3. QED
    BY <2>1, <2>2 DEF LinksOf
<1>6. Treelike(L2)
  BY <1>5, LinksTreelike
<1>7. d \in DOMAIN n
  BY ReachedInode
<1>8. ~LinkFrom(L, i)
  BY <1>3 DEF LinksOf, LinkFrom, IsLink, DirsIn
<1>9. PICK Q2 : Q2 = Q \cup {<<Longer(h, y), i>>}
  OBVIOUS
<1>10. Grown(Q2, L2) /\ Complete(Q2, L2)
  <2>1. <<h, d>> \in Q /\ i # d
    BY <1>1, <1>7
  <2>2. QED
    BY <1>3, <1>4, <1>6, <1>8, <1>9, <2>1, LinkAdded
<1>11. Q2 = PathsOn(n2, b2)
  BY <1>5, <1>10, WalkedOnce
<1>12. QED
  BY <1>1, <1>9, <1>11

LEMMA TreeGrows ==
    ASSUME NEW n, NEW b, NEW x, NEW t, NEW m, DiskOK(n, b, x, t, m, {}),
           NEW n2, NEW b2, NEW x2, NEW t2, NEW m2, DiskOK(n2, b2, x2, t2, m2, {}),
           NEW h, NEW d, <<h, d>> \in PathsOn(n, b), NEW y, NEW i, i \notin DOMAIN n,
           AddsLink(n, b, n2, b2, d, y, i),
           ShownAlike(n, x, t, n2, x2, t2, DOMAIN n)
    PROVE  TreeOn(n2, b2, x2, t2) = TreeOn(n, b, x, t) \cup {<<Longer(h, y), Shown(n2, x2, t2, i)>>}
<1>1. PICK f : f = Longer(h, y)
  OBVIOUS
<1>2. PathsOn(n2, b2) = PathsOn(n, b) \cup {<<f, i>>}
  BY <1>1, PathAdded
<1>3. ASSUME NEW e \in TreeOn(n2, b2, x2, t2)
      PROVE  e \in TreeOn(n, b, x, t) \/ e = <<f, Shown(n2, x2, t2, i)>>
  <2>1. PICK p, j : <<p, j>> \in PathsOn(n2, b2) /\ e = <<p, Shown(n2, x2, t2, j)>>
    <3>1. SeenAt(n2, b2, x2, t2, e)
      BY InTree
    <3>2. QED
      BY <3>1 DEF SeenAt
  <2>2. CASE <<p, j>> \in PathsOn(n, b)
    <3>1. j \in DOMAIN n
      BY <2>2, ReachedInode
    <3>2. e = <<p, Shown(n, x, t, j)>>
      BY <2>1, <3>1 DEF ShownAlike
    <3>3. QED
      BY <2>2, <3>2, TreeHas
  <2>3. CASE <<p, j>> = <<f, i>>
    BY <2>1, <2>3
  <2>4. QED
    BY <1>2, <2>1, <2>2, <2>3
<1>4. ASSUME NEW e \in TreeOn(n, b, x, t)
      PROVE  e \in TreeOn(n2, b2, x2, t2)
  <2>1. PICK p, j : <<p, j>> \in PathsOn(n, b) /\ e = <<p, Shown(n, x, t, j)>>
    <3>1. SeenAt(n, b, x, t, e)
      BY InTree
    <3>2. QED
      BY <3>1 DEF SeenAt
  <2>2. j \in DOMAIN n
    BY <2>1, ReachedInode
  <2>3. e = <<p, Shown(n2, x2, t2, j)>> /\ <<p, j>> \in PathsOn(n2, b2)
    BY <1>2, <2>1, <2>2 DEF ShownAlike
  <2>4. QED
    BY <2>3, TreeHas
<1>5. <<f, Shown(n2, x2, t2, i)>> \in TreeOn(n2, b2, x2, t2)
  <2>1. <<f, i>> \in PathsOn(n2, b2)
    BY <1>2
  <2>2. QED
    BY <2>1, TreeHas
<1>6. QED
  BY <1>1, <1>3, <1>4, <1>5

LEMMA PathDropped ==
    ASSUME NEW n, NEW b, NEW x, NEW t, NEW m, DiskOK(n, b, x, t, m, {}),
           NEW n2, NEW b2, NEW x2, NEW t2, NEW m2, DiskOK(n2, b2, x2, t2, m2, {}),
           NEW h, NEW d, <<h, d>> \in PathsOn(n, b), NEW y, NEW i,
           DropsLink(n, b, n2, b2, d, y, i), \A z, j : ~IsLink(n, b, i, z, j)
    PROVE  PathsOn(n2, b2) = PathsOn(n, b) \ {<<Longer(h, y), i>>}
<1>1. PICK L, Q : L = LinksIn(n, b) /\ Q = PathsOn(n, b)
  OBVIOUS
<1>2. Walked(n, b, L, Q)
  BY <1>1, DiskWalked
<1>3. LinksOf(n, b, L) /\ Treelike(L) /\ Grown(Q, L) /\ Complete(Q, L) /\ Triples(L)
  BY <1>2 DEF Walked, LinksOf
<1>4. PICK L2 : L2 = L \ {<<d, y, i>>}
  OBVIOUS
<1>5. LinksOf(n2, b2, L2)
  <2>1. Triples(L2)
    BY <1>3, <1>4 DEF Triples
  <2>2. ASSUME NEW e, NEW z, NEW j
        PROVE  <<e, z, j>> \in L2 <=> IsLink(n2, b2, e, z, j)
    BY <1>3, <1>4 DEF LinksOf, DropsLink
  <2>3. QED
    BY <2>1, <2>2 DEF LinksOf
<1>6. <<d, y, i>> \in L /\ ~LinkFrom(L, i)
  BY <1>3 DEF LinksOf, LinkFrom, DropsLink
<1>7. PICK Q2 : Q2 = Q \ {<<Longer(h, y), i>>}
  OBVIOUS
<1>8. Grown(Q2, L2) /\ Complete(Q2, L2)
  <2>1. <<h, d>> \in Q
    BY <1>1
  <2>2. QED
    BY <1>3, <1>4, <1>6, <1>7, <2>1, LinkRemoved
<1>9. Q2 = PathsOn(n2, b2)
  BY <1>5, <1>8, WalkedOnce
<1>10. QED
  BY <1>1, <1>7, <1>9

LEMMA TreeShrinks ==
    ASSUME NEW n, NEW b, NEW x, NEW t, NEW m, DiskOK(n, b, x, t, m, {}),
           NEW n2, NEW b2, NEW x2, NEW t2, NEW m2, DiskOK(n2, b2, x2, t2, m2, {}),
           NEW h, NEW d, <<h, d>> \in PathsOn(n, b), NEW y, NEW i,
           DropsLink(n, b, n2, b2, d, y, i), \A z, j : ~IsLink(n, b, i, z, j),
           ShownAlike(n, x, t, n2, x2, t2, DOMAIN n \ {i})
    PROVE  TreeOn(n2, b2, x2, t2) = TreeOn(n, b, x, t) \ {<<Longer(h, y), Shown(n, x, t, i)>>}
<1>1. PICK f, c : f = Longer(h, y) /\ c = Shown(n, x, t, i)
  OBVIOUS
<1>2. PathsOn(n2, b2) = PathsOn(n, b) \ {<<f, i>>}
  BY <1>1, PathDropped
<1>3. PICK L, Q : L = LinksIn(n, b) /\ Q = PathsOn(n, b)
  OBVIOUS
<1>4. Walked(n, b, L, Q)
  BY <1>3, DiskWalked
<1>5. <<f, i>> \in Q
  <2>1. <<d, y, i>> \in L /\ <<h, d>> \in Q
    BY <1>3, <1>4 DEF Walked, LinksOf, DropsLink
  <2>2. QED
    BY <1>1, <1>4, <2>1 DEF Walked, Complete
<1>6. ASSUME NEW p, NEW j, <<p, j>> \in Q, p = f \/ j = i
      PROVE  p = f /\ j = i
  BY <1>4, <1>5, <1>6, OnePath, OneInode DEF Walked
<1>7. ASSUME NEW p, NEW j, <<p, j>> \in Q, <<p, j>> # <<f, i>>
      PROVE  /\ p # f /\ j # i /\ <<p, j>> \in PathsOn(n2, b2)
             /\ Shown(n2, x2, t2, j) = Shown(n, x, t, j)
  <2>1. p # f /\ j # i
    BY <1>6, <1>7
  <2>2. j \in DOMAIN n
    BY <1>3, <1>7, ReachedInode
  <2>3. QED
    BY <1>2, <1>3, <1>7, <2>1, <2>2 DEF ShownAlike
<1>8. ASSUME NEW e, e \in TreeOn(n2, b2, x2, t2)
      PROVE  e \in TreeOn(n, b, x, t) /\ e # <<f, c>>
  <2>1. SeenAt(n2, b2, x2, t2, e)
    BY <1>8, InTree
  <2>2. PICK p, j : <<p, j>> \in PathsOn(n2, b2) /\ e = <<p, Shown(n2, x2, t2, j)>>
    BY <2>1 DEF SeenAt
  <2>3. <<p, j>> \in Q /\ <<p, j>> # <<f, i>>
    BY <1>2, <1>3, <2>2
  <2>4. p # f /\ e = <<p, Shown(n, x, t, j)>>
    BY <1>7, <2>2, <2>3
  <2>5. <<p, Shown(n, x, t, j)>> \in TreeOn(n, b, x, t)
    BY <1>3, <2>3, TreeHas
  <2>6. QED
    BY <2>4, <2>5
<1>9. ASSUME NEW e, e \in TreeOn(n, b, x, t), e # <<f, c>>
      PROVE  e \in TreeOn(n2, b2, x2, t2)
  <2>1. SeenAt(n, b, x, t, e)
    BY <1>9, InTree
  <2>2. PICK p, j : <<p, j>> \in PathsOn(n, b) /\ e = <<p, Shown(n, x, t, j)>>
    BY <2>1 DEF SeenAt
  <2>3. <<p, j>> \in Q /\ <<p, j>> # <<f, i>>
    BY <1>1, <1>3, <1>9, <2>2
  <2>4. <<p, j>> \in PathsOn(n2, b2) /\ e = <<p, Shown(n2, x2, t2, j)>>
    BY <1>7, <2>2, <2>3
  <2>5. QED
    BY <2>4, TreeHas
<1>10. QED
  BY <1>1, <1>8, <1>9

\* Nothing is below a name that has nothing in it.
LEMMA NothingBelow ==
    ASSUME NEW n, NEW b, NEW x, NEW t, NEW m, DiskOK(n, b, x, t, m, {}),
           NEW p, NEW i, <<p, i>> \in PathsOn(n, b), \A z, j : ~IsLink(n, b, i, z, j),
           NEW e, e \in TreeOn(n, b, x, t), Begins(p, e[1])
    PROVE  e = <<p, Shown(n, x, t, i)>>
<1>1. PICK L, Q : L = LinksIn(n, b) /\ Q = PathsOn(n, b)
  OBVIOUS
<1>2. Walked(n, b, L, Q)
  BY <1>1, DiskWalked
<1>3. Treelike(L) /\ Grown(Q, L)
  BY <1>2 DEF Walked
<1>4. SeenAt(n, b, x, t, e)
  BY InTree
<1>5. PICK q, j : <<q, j>> \in PathsOn(n, b) /\ e = <<q, Shown(n, x, t, j)>>
  BY <1>4 DEF SeenAt
<1>6. <<q, j>> \in Q /\ <<p, i>> \in Q /\ e[1] = q /\ Begins(p, q)
  BY <1>1, <1>5
<1>7. p \in Seq(Labels) /\ q \in Seq(Labels) /\ Len(p) \in Nat /\ Len(q) \in Nat
  BY <1>3, <1>6, GrownPath
<1>8. PICK k : k = Len(p)
  OBVIOUS
<1>9. k \in 0 .. Len(q)
  BY <1>6, <1>7, <1>8 DEF Begins
<1>10. PICK s : s = Start(q, k)
  OBVIOUS
<1>11. s = p
  <2>1. s \in Seq(Labels) /\ Len(s) = k /\ \A l \in 1 .. k : s[l] = q[l]
    BY <1>7, <1>9, <1>10, StartIs
  <2>2. \A l \in 1 .. k : s[l] = p[l]
    BY <1>6, <1>8, <2>1 DEF Begins
  <2>3. QED
    BY <1>7, <1>8, <2>1, <2>2, SeqEqual
<1>12. PICK l : <<Start(q, k), l>> \in Q /\ (k < Len(q) => LinkFrom(L, l))
  BY <1>3, <1>6, <1>9, StartLeads
<1>13. l = i
  BY <1>3, <1>6, <1>10, <1>11, <1>12, OneInode
<1>14. ~LinkFrom(L, i)
  BY <1>2 DEF LinkFrom, Walked, LinksOf
<1>15. k = Len(q)
  BY <1>7, <1>9, <1>12, <1>13, <1>14
<1>16. p = q
  BY <1>7, <1>9, <1>10, <1>11, <1>15, StartIs
<1>17. QED
  BY <1>3, <1>5, <1>6, <1>16, OneInode

LEMMA PathMoved ==
    ASSUME NEW n, NEW b, NEW x, NEW t, NEW m, DiskOK(n, b, x, t, m, {}),
           NEW n2, NEW b2, NEW x2, NEW t2, NEW m2, DiskOK(n2, b2, x2, t2, m2, {}),
           NEW h, NEW d, <<h, d>> \in PathsOn(n, b), NEW y, NEW z \in Labels, NEW i,
           RenamesLink(n, b, n2, b2, d, y, z, i)
    PROVE  PathsOn(n2, b2) = {<<MovedPath(r[1], h, y, z), r[2]>> : r \in PathsOn(n, b)}
<1>1. PICK L, Q : L = LinksIn(n, b) /\ Q = PathsOn(n, b)
  OBVIOUS
<1>2. Walked(n, b, L, Q)
  BY <1>1, DiskWalked
<1>3. LinksOf(n, b, L) /\ Treelike(L) /\ Grown(Q, L) /\ Complete(Q, L) /\ Triples(L)
  BY <1>2 DEF Walked, LinksOf
<1>4. PICK L2 : L2 = (L \ {<<d, y, i>>}) \cup {<<d, z, i>>}
  OBVIOUS
<1>5. LinksOf(n2, b2, L2)
  <2>1. Triples(L2)
    BY <1>3, <1>4 DEF Triples
  <2>2. ASSUME NEW e, NEW w, NEW j
        PROVE  <<e, w, j>> \in L2 <=> IsLink(n2, b2, e, w, j)
    BY <1>3, <1>4 DEF LinksOf, RenamesLink
  <2>3. QED
    BY <2>1, <2>2 DEF LinksOf
<1>6. Treelike(L2)
  BY <1>5, LinksTreelike
<1>7. <<d, y, i>> \in L /\ <<h, d>> \in Q
  BY <1>1, <1>3 DEF LinksOf, RenamesLink
<1>8. PICK Q2 : Q2 = {<<MovedPath(r[1], h, y, z), r[2]>> : r \in Q}
  OBVIOUS
<1>9. Grown(Q2, L2) /\ Complete(Q2, L2)
  BY <1>3, <1>4, <1>6, <1>7, <1>8, LinkRenamed
<1>10. Q2 = PathsOn(n2, b2)
  BY <1>5, <1>9, WalkedOnce
<1>11. QED
  BY <1>1, <1>8, <1>10

LEMMA TreeMoves ==
    ASSUME NEW n, NEW b, NEW x, NEW t, NEW m, DiskOK(n, b, x, t, m, {}),
           NEW b2, DiskOK(n, b2, x, t, m, {}),
           NEW h, NEW d, <<h, d>> \in PathsOn(n, b), NEW y, NEW z \in Labels, NEW i,
           RenamesLink(n, b, n, b2, d, y, z, i)
    PROVE  TreeOn(n, b2, x, t) = {<<MovedPath(e[1], h, y, z), e[2]>> : e \in TreeOn(n, b, x, t)}
<1>1. PICK Q, Q2 : Q = PathsOn(n, b) /\ Q2 = PathsOn(n, b2)
  OBVIOUS
<1>2. Q2 = {<<MovedPath(r[1], h, y, z), r[2]>> : r \in Q}
  BY <1>1, PathMoved
<1>3. \A r \in Q : \E p, j : r = <<p, j>>
  BY <1>1, DiskWalked DEF Walked, Grown
<1>4. PICK T : T = {<<MovedPath(e[1], h, y, z), e[2]>> : e \in TreeOn(n, b, x, t)}
  OBVIOUS
<1>5. ASSUME NEW e, e \in TreeOn(n, b2, x, t)
      PROVE  e \in T
  <2>1. SeenAt(n, b2, x, t, e)
    BY <1>5, InTree
  <2>2. PICK q, j : <<q, j>> \in PathsOn(n, b2) /\ e = <<q, Shown(n, x, t, j)>>
    BY <2>1 DEF SeenAt
  <2>3. PICK r \in Q : <<q, j>> = <<MovedPath(r[1], h, y, z), r[2]>>
    BY <1>1, <1>2, <2>2
  <2>4. PICK p, k : r = <<p, k>>
    BY <1>3
  <2>5. <<p, j>> \in Q /\ q = MovedPath(p, h, y, z)
    BY <2>3, <2>4
  <2>6. <<p, Shown(n, x, t, j)>> \in TreeOn(n, b, x, t)
    BY <1>1, <2>5, TreeHas
  <2>7. QED
    BY <1>4, <2>2, <2>5, <2>6
<1>6. ASSUME NEW e, e \in TreeOn(n, b, x, t)
      PROVE  <<MovedPath(e[1], h, y, z), e[2]>> \in TreeOn(n, b2, x, t)
  <2>1. SeenAt(n, b, x, t, e)
    BY <1>6, InTree
  <2>2. PICK p, j : <<p, j>> \in PathsOn(n, b) /\ e = <<p, Shown(n, x, t, j)>>
    BY <2>1 DEF SeenAt
  <2>3. <<MovedPath(p, h, y, z), j>> \in Q2
    BY <1>1, <1>2, <2>2
  <2>4. <<MovedPath(p, h, y, z), Shown(n, x, t, j)>> \in TreeOn(n, b2, x, t)
    BY <1>1, <2>3, TreeHas
  <2>5. QED
    BY <2>2, <2>4
<1>7. TreeOn(n, b2, x, t) = T
  BY <1>4, <1>5, <1>6
<1>8. QED
  BY <1>4, <1>7

\* The working directory's path.
PlaceOn(n, b, d) ==
    IF d \in {SFS_NOINO, SFS_ROOT_LOCATION} THEN << >> ELSE (CHOOSE r \in PathsOn(n, b) : r[2] = d)[1]

LEMMA PlaceIs ==
    ASSUME NEW n, NEW b, NEW x, NEW t, NEW m, DiskOK(n, b, x, t, m, {}),
           NEW h, NEW d, <<h, d>> \in PathsOn(n, b)
    PROVE  PlaceOn(n, b, d) = h
<1>1. PICK L, Q : L = LinksIn(n, b) /\ Q = PathsOn(n, b)
  OBVIOUS
<1>2. Treelike(L) /\ Grown(Q, L) /\ Complete(Q, L)
  BY <1>1, DiskWalked DEF Walked
<1>3. CASE d = SFS_ROOT_LOCATION
  <2>1. << << >>, d>> \in Q
    BY <1>2, <1>3 DEF Complete
  <2>2. h = << >>
    BY <1>1, <1>2, <2>1, OnePath
  <2>3. QED
    BY <1>3, <2>2 DEF PlaceOn
<1>4. CASE d # SFS_ROOT_LOCATION
  <2>1. d # SFS_NOINO
    <3>1. d \in DOMAIN n
      BY ReachedInode
    <3>2. 0 \notin DOMAIN n
      BY OnDisk DEF DiskFacts
    <3>3. QED
      BY <3>1, <3>2 DEF SFS_NOINO
  <2>2. PICK r : r = CHOOSE s \in Q : s[2] = d
    OBVIOUS
  <2>3. r \in Q /\ r[2] = d
    <3>1. <<h, d>> \in Q /\ <<h, d>>[2] = d
      BY <1>1
    <3>2. QED
      BY <2>2, <3>1
  <2>4. PICK p, i : r = <<p, i>>
    BY <1>2, <2>3 DEF Grown
  <2>5. <<p, d>> \in Q /\ r[1] = p
    BY <2>3, <2>4
  <2>6. p = h
    BY <1>1, <1>2, <2>5, OnePath
  <2>7. PlaceOn(n, b, d) = r[1]
    BY <1>1, <1>4, <2>1, <2>2 DEF PlaceOn
  <2>8. QED
    BY <2>5, <2>6, <2>7
<1>5. QED
  BY <1>3, <1>4

----------------------------------------------------------------------------
\* The links of the disks a command goes through.

SameLinks(n, b, n2, b2) == \A d, y, i : IsLink(n2, b2, d, y, i) <=> IsLink(n, b, d, y, i)

\* Other directories, if any, hold "." and ".." only.
NoNames(n2, b2, S) ==
    \A d \in DirsIn(n2) \ S, k \in Rows, j \in Columns :
        Used(n2, b2, d, k, j) => b2[n2[d].direct[k]][j].sfd_name \in Dots

LEMMA LinksKept ==
    ASSUME NEW n, NEW b, NEW n2, NEW b2, SlotsKept(n, b, n2, b2), DirsIn(n) \subseteq DirsIn(n2),
           NoNames(n2, b2, DirsIn(n))
    PROVE  SameLinks(n, b, n2, b2)
<1>1. ASSUME NEW d \in DirsIn(n), NEW k \in Rows, NEW j \in Columns, NEW y, NEW i
      PROVE  Gave(n2, b2, d, k, j, y, i) <=> Gave(n, b, d, k, j, y, i)
  <2>1. /\ Used(n2, b2, d, k, j) <=> Used(n, b, d, k, j)
        /\ Used(n, b, d, k, j) => b2[n2[d].direct[k]][j] = b[n[d].direct[k]][j]
    BY DEF SlotsKept
  <2>2. QED
    BY <2>1 DEF Gave
<1>2. ASSUME NEW d \in DirsIn(n2) \ DirsIn(n), NEW k \in Rows, NEW j \in Columns, NEW y, NEW i
      PROVE  ~Gave(n2, b2, d, k, j, y, i)
  BY DEF NoNames, Gave
<1>3. ASSUME NEW d, NEW y, NEW i
      PROVE  IsLink(n2, b2, d, y, i) <=> IsLink(n, b, d, y, i)
  <2>1. CASE d \in DirsIn(n)
    BY <1>1, <2>1 DEF IsLink
  <2>2. CASE d \notin DirsIn(n)
    BY <1>2, <2>2 DEF IsLink
  <2>3. QED
    BY <2>1, <2>2
<1>4. QED
  BY <1>3 DEF SameLinks

\* An entry that is set is the only one that changes.
LEMMA GaveNow ==
    ASSUME NEW n, NEW b, NEW n2, NEW b2, NEW d \in DirsIn(n), NEW k \in Rows, NEW j \in Columns, NEW e,
           EntriesEdited(n, b, n2, b2, d, k, j, e),
           NEW f \in DirsIn(n), NEW l \in Rows, NEW h \in Columns, NEW y, NEW i
    PROVE  Gave(n2, b2, f, l, h, y, i) <=>
               IF f = d /\ l = k /\ h = j
                 THEN e.sfd_ino # 0 /\ y \notin Dots /\ e.sfd_name = y /\ e.sfd_ino = i
                 ELSE Gave(n, b, f, l, h, y, i)
<1>1. /\ Used(n2, b2, f, l, h) <=> IF f = d /\ l = k /\ h = j THEN e.sfd_ino # 0 ELSE Used(n, b, f, l, h)
      /\ Used(n2, b2, f, l, h) =>
            b2[n2[f].direct[l]][h] = IF f = d /\ l = k /\ h = j THEN e ELSE b[n[f].direct[l]][h]
  BY DEF EntriesEdited
<1>2. QED
  BY <1>1 DEF Gave

\* An entry other than that one.
Elsewhere(n, b, d, k, j, f, y, i) ==
    \E l \in Rows, h \in Columns : ~(f = d /\ l = k /\ h = j) /\ Gave(n, b, f, l, h, y, i)

LEMMA LinkNow ==
    ASSUME NEW n, NEW b, NEW n2, NEW b2, NEW d \in DirsIn(n), NEW k \in Rows, NEW j \in Columns, NEW e,
           EntriesEdited(n, b, n2, b2, d, k, j, e), DirsIn(n2) = DirsIn(n),
           NEW f, NEW y, NEW i
    PROVE  IsLink(n2, b2, f, y, i) <=>
               \/ f \in DirsIn(n) /\ Elsewhere(n, b, d, k, j, f, y, i)
               \/ f = d /\ e.sfd_ino # 0 /\ y \notin Dots /\ e.sfd_name = y /\ e.sfd_ino = i
<1>1. CASE f \in DirsIn(n)
  <2>1. ASSUME NEW l \in Rows, NEW h \in Columns, Gave(n2, b2, f, l, h, y, i)
        PROVE  \/ Elsewhere(n, b, d, k, j, f, y, i)
               \/ f = d /\ e.sfd_ino # 0 /\ y \notin Dots /\ e.sfd_name = y /\ e.sfd_ino = i
    <3>1. CASE f = d /\ l = k /\ h = j
      BY <1>1, <2>1, <3>1, GaveNow
    <3>2. CASE ~(f = d /\ l = k /\ h = j)
      BY <1>1, <2>1, <3>2, GaveNow DEF Elsewhere
    <3>3. QED
      BY <3>1, <3>2
  <2>2. ASSUME NEW l \in Rows, NEW h \in Columns, ~(f = d /\ l = k /\ h = j), Gave(n, b, f, l, h, y, i)
        PROVE  Gave(n2, b2, f, l, h, y, i)
    BY <1>1, <2>2, GaveNow
  <2>3. ASSUME f = d, e.sfd_ino # 0, y \notin Dots, e.sfd_name = y, e.sfd_ino = i
        PROVE  Gave(n2, b2, f, k, j, y, i)
    BY <1>1, <2>3, GaveNow
  <2>4. QED
    BY <1>1, <2>1, <2>2, <2>3 DEF IsLink, Elsewhere
<1>2. CASE f \notin DirsIn(n)
  BY <1>2 DEF IsLink
<1>3. QED
  BY <1>1, <1>2

LEMMA LinkEntered ==
    ASSUME NEW n, NEW b, NEW n2, NEW b2, NEW d \in DirsIn(n), NEW k \in Rows, NEW j \in Columns, NEW e,
           EntriesEdited(n, b, n2, b2, d, k, j, e), DirsIn(n2) = DirsIn(n),
           ~Used(n, b, d, k, j), NEW y, NEW i, e = Entry(i, y), i # 0, y \notin Dots
    PROVE  AddsLink(n, b, n2, b2, d, y, i)
<1>1. e.sfd_ino = i /\ e.sfd_name = y
  BY DEF Entry
<1>2. ASSUME NEW f, NEW z, NEW h, f \in DirsIn(n)
      PROVE  Elsewhere(n, b, d, k, j, f, z, h) <=> IsLink(n, b, f, z, h)
  BY <1>2 DEF Elsewhere, IsLink, Gave
<1>3. ASSUME NEW f, NEW z, NEW h
      PROVE  IsLink(n2, b2, f, z, h) <=> IsLink(n, b, f, z, h) \/ <<f, z, h>> = <<d, y, i>>
  <2>1. IsLink(n2, b2, f, z, h) <=>
               \/ f \in DirsIn(n) /\ Elsewhere(n, b, d, k, j, f, z, h)
               \/ f = d /\ e.sfd_ino # 0 /\ z \notin Dots /\ e.sfd_name = z /\ e.sfd_ino = h
    BY LinkNow
  <2>2. IsLink(n, b, f, z, h) => f \in DirsIn(n)
    BY DEF IsLink
  <2>3. QED
    BY <1>1, <1>2, <2>1, <2>2
<1>4. QED
  BY <1>3 DEF AddsLink

LEMMA OneSlot ==
    ASSUME NEW n, NEW b, NEW x, NEW t, NEW m, NEW O, DiskOK(n, b, x, t, m, O),
           NEW d \in DirsIn(n), NEW k \in Rows, NEW j \in Columns, NEW y, NEW i, Gave(n, b, d, k, j, y, i),
           NEW f \in DirsIn(n), NEW z, NEW h
    PROVE  Elsewhere(n, b, d, k, j, f, z, h) <=> IsLink(n, b, f, z, h) /\ <<f, z, h>> # <<d, y, i>>
<1>1. ASSUME <<f, z, h>> = <<d, y, i>>
      PROVE  ~Elsewhere(n, b, d, k, j, f, z, h)
  <2>1. NamesOf(n, b, d)
    BY DEF DiskOK, NamesOnce
  <2>2. ASSUME NEW l \in Rows, NEW g \in Columns, Gave(n, b, d, l, g, y, i)
        PROVE  l = k /\ g = j
    BY <2>1, <2>2 DEF NamesOf, Gave
  <2>3. QED
    BY <1>1, <2>2 DEF Elsewhere
<1>2. ASSUME IsLink(n, b, f, z, h), <<f, z, h>> # <<d, y, i>>
      PROVE  Elsewhere(n, b, d, k, j, f, z, h)
  <2>1. PICK l \in Rows, g \in Columns : Gave(n, b, f, l, g, z, h)
    BY <1>2 DEF IsLink
  <2>2. ~(f = d /\ l = k /\ g = j)
    <3>1. ASSUME f = d, l = k, g = j
          PROVE  FALSE
      <4>1. z = y /\ h = i
        BY <2>1, <3>1 DEF Gave
      <4>2. QED
        BY <1>2, <3>1, <4>1
    <3>2. QED
      BY <3>1
  <2>3. QED
    BY <2>1, <2>2 DEF Elsewhere
<1>3. Elsewhere(n, b, d, k, j, f, z, h) => IsLink(n, b, f, z, h)
  BY DEF Elsewhere, IsLink
<1>4. QED
  BY <1>1, <1>2, <1>3

LEMMA LinkLeft ==
    ASSUME NEW n, NEW b, NEW x, NEW t, NEW m, NEW O, DiskOK(n, b, x, t, m, O), NEW n2, NEW b2,
           NEW d \in DirsIn(n), NEW k \in Rows, NEW j \in Columns, NEW y, NEW i, Gave(n, b, d, k, j, y, i),
           EntriesEdited(n, b, n2, b2, d, k, j, FreeEntry), DirsIn(n2) = DirsIn(n)
    PROVE  DropsLink(n, b, n2, b2, d, y, i)
<1>1. PICK e : e = FreeEntry
  OBVIOUS
<1>2. e.sfd_ino = 0
  BY <1>1, EmptyBlock
<1>3. ASSUME NEW f, NEW z, NEW h
      PROVE  IsLink(n2, b2, f, z, h) <=> IsLink(n, b, f, z, h) /\ <<f, z, h>> # <<d, y, i>>
  <2>1. IsLink(n2, b2, f, z, h) <=>
               \/ f \in DirsIn(n) /\ Elsewhere(n, b, d, k, j, f, z, h)
               \/ f = d /\ e.sfd_ino # 0 /\ z \notin Dots /\ e.sfd_name = z /\ e.sfd_ino = h
    BY <1>1, LinkNow
  <2>2. IsLink(n, b, f, z, h) => f \in DirsIn(n)
    BY DEF IsLink
  <2>3. f \in DirsIn(n) => (Elsewhere(n, b, d, k, j, f, z, h) <=>
                               IsLink(n, b, f, z, h) /\ <<f, z, h>> # <<d, y, i>>)
    BY OneSlot
  <2>4. QED
    BY <1>2, <2>1, <2>2, <2>3
<1>4. IsLink(n, b, d, y, i)
  BY DEF IsLink
<1>5. QED
  BY <1>3, <1>4 DEF DropsLink

LEMMA LinkChanged ==
    ASSUME NEW n, NEW b, NEW x, NEW t, NEW m, NEW O, DiskOK(n, b, x, t, m, O), NEW n2, NEW b2,
           NEW d \in DirsIn(n), NEW k \in Rows, NEW j \in Columns, NEW y, NEW i, Gave(n, b, d, k, j, y, i),
           NEW e, NEW w, e = Entry(i, w), i # 0, w \notin Dots,
           EntriesEdited(n, b, n2, b2, d, k, j, e), DirsIn(n2) = DirsIn(n)
    PROVE  RenamesLink(n, b, n2, b2, d, y, w, i)
<1>1. e.sfd_ino = i /\ e.sfd_name = w
  BY DEF Entry
<1>2. ASSUME NEW f, NEW z, NEW h
      PROVE  IsLink(n2, b2, f, z, h) <=> \/ IsLink(n, b, f, z, h) /\ <<f, z, h>> # <<d, y, i>>
                                         \/ <<f, z, h>> = <<d, w, i>>
  <2>1. IsLink(n2, b2, f, z, h) <=>
               \/ f \in DirsIn(n) /\ Elsewhere(n, b, d, k, j, f, z, h)
               \/ f = d /\ e.sfd_ino # 0 /\ z \notin Dots /\ e.sfd_name = z /\ e.sfd_ino = h
    BY LinkNow
  <2>2. IsLink(n, b, f, z, h) => f \in DirsIn(n)
    BY DEF IsLink
  <2>3. f \in DirsIn(n) => (Elsewhere(n, b, d, k, j, f, z, h) <=>
                               IsLink(n, b, f, z, h) /\ <<f, z, h>> # <<d, y, i>>)
    BY OneSlot
  <2>4. QED
    BY <1>1, <2>1, <2>2, <2>3
<1>3. IsLink(n, b, d, y, i)
  BY DEF IsLink
<1>4. QED
  BY <1>2, <1>3 DEF RenamesLink

LEMMA FileHasNoNames ==
    ASSUME NEW n, NEW b, NEW n2, NEW ino, ino \notin DOMAIN n, NEW r, r.type = "file", n2 = Put(n, ino, r)
    PROVE  SameLinks(n, b, n2, b) /\ DirsIn(n2) = DirsIn(n)
<1>1. DOMAIN n2 = DOMAIN n \cup {ino} /\ n2[ino] = r /\ \A i \in DOMAIN n : n2[i] = n[i]
  BY DEF Put
<1>2. DirsIn(n2) = DirsIn(n)
  BY <1>1 DEF DirsIn
<1>3. \A d \in DirsIn(n) : n2[d] = n[d]
  BY <1>1 DEF DirsIn
<1>4. SlotsKept(n, b, n2, b)
  BY <1>3 DEF SlotsKept, Used
<1>5. NoNames(n2, b, DirsIn(n))
  BY <1>2 DEF NoNames
<1>6. QED
  BY <1>2, <1>4, <1>5, LinksKept

DirBlocksIn(n, b) == \A d \in DirsIn(n), k \in Rows : n[d].direct[k] # 0 => n[d].direct[k] \in DOMAIN b

LEMMA DirHasNoNames ==
    ASSUME NEW n, NEW b, NEW n2, NEW b2, DirBlocksIn(n, b),
           NEW ino \in Blocks, ino \notin DOMAIN n, NEW first \in Blocks, first \notin DOMAIN b, NEW p \in Blocks,
           NEW r, r = NewDir(first), NEW block, block = DotBlock(ino, p),
           n2 = Put(n, ino, r), b2 = Put(b, first, block)
    PROVE  SameLinks(n, b, n2, b2)
<1>1. /\ r.type = "dir" /\ (\A k \in Rows : r.direct[k] = IF k = 1 THEN first ELSE 0)
      /\ block[1] = Entry(ino, ".") /\ block[2] = Entry(p, "..")
      /\ \A j \in Columns : j \notin {1, 2} => block[j] = FreeEntry
  BY NewDirIs
<1>2. /\ DOMAIN n2 = DOMAIN n \cup {ino} /\ n2[ino] = r /\ \A i \in DOMAIN n : n2[i] = n[i]
      /\ b2[first] = block /\ \A c \in DOMAIN b : b2[c] = b[c]
  BY DEF Put
<1>3. DirsIn(n2) = DirsIn(n) \cup {ino}
  BY <1>1, <1>2 DEF DirsIn
<1>4. \A d \in DirsIn(n) : n2[d] = n[d]
  BY <1>2 DEF DirsIn
<1>5. SlotsKept(n, b, n2, b2)
  BY <1>2, <1>4 DEF SlotsKept, Used, DirBlocksIn
<1>6. \A j \in Columns : block[j].sfd_ino # 0 => block[j].sfd_name \in Dots
  <2>1. Entry(ino, ".").sfd_name = "." /\ Entry(p, "..").sfd_name = ".." /\ FreeEntry.sfd_ino = 0
    BY EmptyBlock DEF Entry
  <2>2. QED
    BY <1>1, <2>1 DEF Dots
<1>7. NoNames(n2, b2, DirsIn(n))
  BY <1>1, <1>2, <1>3, <1>6 DEF NoNames, Used
<1>8. QED
  BY <1>3, <1>5, <1>7, LinksKept

\* File i and the blocks it is made of are as they were.
Untouched(n, x, t, n2, x2, t2, i) ==
    /\ n2[i] = n[i]
    /\ \A l \in Rows : n[i].direct[l] # 0 => t2[n[i].direct[l]] = t[n[i].direct[l]]
    /\ n[i].indirect # 0 =>
          /\ x2[n[i].indirect] = x[n[i].indirect]
          /\ \A l \in IndirectRows :
                x[n[i].indirect][l] # 0 => t2[x[n[i].indirect][l]] = t[x[n[i].indirect][l]]

LEMMA ShownStays ==
    ASSUME NEW n, NEW b, NEW x, NEW t, NEW m, NEW O, DiskOK(n, b, x, t, m, O), NEW n2, NEW x2, NEW t2,
           NEW i \in DOMAIN n, n2[i].type = n[i].type,
           n[i].type = "file" => Untouched(n, x, t, n2, x2, t2, i)
    PROVE  Shown(n2, x2, t2, i) = Shown(n, x, t, i)
<1>1. CASE n[i].type = "file"
  <2>1. Untouched(n, x, t, n2, x2, t2, i)
    BY <1>1
  <2>2. Tables(n, b, x) /\ (n[i].indirect # 0 => n[i].indirect \in DOMAIN x)
    BY <1>1 DEF DiskOK, IndirectKinds, FilesIn
  <2>3. ContentIn(n2, x2, t2, i) = ContentIn(n, x, t, i)
    <3>1. /\ n2[i] = n[i]
          /\ n[i].indirect # 0 => n[i].indirect \in DOMAIN x /\ x2[n[i].indirect] = x[n[i].indirect]
          /\ \A l \in Rows : n[i].direct[l] # 0 => t2[n[i].direct[l]] = t[n[i].direct[l]]
          /\ n[i].indirect # 0 =>
                \A l \in IndirectRows :
                    x[n[i].indirect][l] # 0 => t2[x[n[i].indirect][l]] = t[x[n[i].indirect][l]]
      BY <2>1, <2>2 DEF Untouched
    <3>2. QED
      BY <2>2, <3>1, SameContent
  <2>4. QED
    BY <1>1, <2>3 DEF Shown
<1>2. CASE n[i].type # "file"
  BY <1>2 DEF Shown
<1>3. QED
  BY <1>1, <1>2

\* Nothing is taken from the tables.
LEMMA UntouchedStored ==
    ASSUME NEW n, NEW b, NEW x, NEW t, NEW m, NEW O, DiskOK(n, b, x, t, m, O), NEW n2, NEW x2, NEW t2,
           NEW i \in FilesIn(n), n2[i] = n[i],
           \A c \in DOMAIN x : x2[c] = x[c], \A c \in DOMAIN t : t2[c] = t[c]
    PROVE  Untouched(n, x, t, n2, x2, t2, i)
<1>1. \A l \in Rows : n[i].direct[l] # 0 => n[i].direct[l] \in DOMAIN t
  BY DEF DiskOK, DirectKinds
<1>2. n[i].indirect # 0 => n[i].indirect \in DOMAIN x
  BY DEF DiskOK, IndirectKinds
<1>3. \A c \in DOMAIN x, l \in IndirectRows : x[c][l] # 0 => x[c][l] \in DOMAIN t
  BY DEF DiskOK, IndirectKinds
<1>4. QED
  BY <1>1, <1>2, <1>3 DEF Untouched

LEMMA ForgetAt ==
    ASSUME NEW f, NEW G
    PROVE  DOMAIN Forget(f, G) = DOMAIN f \ G /\ \A c \in DOMAIN f \ G : Forget(f, G)[c] = f[c]
BY DEF Forget, Restrict

LEMMA UntouchedDropped ==
    ASSUME NEW n, NEW b, NEW x, NEW t, NEW m, NEW ino, DiskOK(n, b, x, t, m, {ino}),
           NEW G, Droppable(n, b, x, t, ino, G),
           NEW n2, n2 = Forget(n, G), NEW x2, x2 = Forget(x, G), NEW t2, t2 = Forget(t, G),
           NEW i \in DOMAIN n \ {ino}
    PROVE  /\ n2[i] = n[i]
           /\ n[i].type = "file" => Untouched(n, x, t, n2, x2, t2, i)
<1>1. /\ \A c \in DOMAIN n \ G : n2[c] = n[c]
      /\ \A c \in DOMAIN x \ G : x2[c] = x[c]
      /\ \A c \in DOMAIN t \ G : t2[c] = t[c]
  BY ForgetAt
<1>2. /\ i \notin G /\ n[i].indirect \notin G /\ \A k \in Rows : n[i].direct[k] \notin G
      /\ \A c \in DOMAIN x \ G, k \in IndirectRows : x[c][k] \notin G
  BY DEF Droppable
<1>3. CASE i \in FilesIn(n)
  <2>1. \A l \in Rows : n[i].direct[l] # 0 => n[i].direct[l] \in DOMAIN t
    BY <1>3 DEF DiskOK, DirectKinds
  <2>2. n[i].indirect # 0 => n[i].indirect \in DOMAIN x
    BY <1>3 DEF DiskOK, IndirectKinds
  <2>3. \A c \in DOMAIN x, l \in IndirectRows : x[c][l] # 0 => x[c][l] \in DOMAIN t
    BY DEF DiskOK, IndirectKinds
  <2>4. QED
    BY <1>1, <1>2, <2>1, <2>2, <2>3 DEF Untouched
<1>4. QED
  BY <1>1, <1>2, <1>3 DEF FilesIn

LEMMA DroppedLinks ==
    ASSUME NEW n, NEW b, NEW x, NEW t, NEW m, NEW ino, DiskOK(n, b, x, t, m, {ino}),
           NEW G, Droppable(n, b, x, t, ino, G),
           NEW n2, n2 = Forget(n, G), NEW b2, b2 = Forget(b, G)
    PROVE  SameLinks(n, b, n2, b2)
<1>1. /\ DOMAIN n2 = DOMAIN n \ G /\ \A c \in DOMAIN n \ G : n2[c] = n[c]
      /\ \A c \in DOMAIN b \ G : b2[c] = b[c]
  BY ForgetAt
<1>2. DirsIn(n2) = DirsIn(n) \ {ino}
  <2>1. DOMAIN n \cap G = {ino}
    BY DEF Droppable
  <2>2. QED
    BY <1>1, <2>1 DEF DirsIn
<1>3. \A d \in DirsIn(n), k \in Rows : n[d].direct[k] # 0 => n[d].direct[k] \in DOMAIN b
  BY DEF DiskOK, DirectKinds
<1>4. SlotsKept(n2, b2, n, b)
  <2>1. ASSUME NEW d \in DirsIn(n2), NEW k \in Rows
        PROVE  n2[d] = n[d] /\ (n[d].direct[k] # 0 => b2[n[d].direct[k]] = b[n[d].direct[k]])
    <3>1. d \in DirsIn(n) /\ d \in DOMAIN n \ {ino} /\ d \in DOMAIN n \ G
      BY <1>1, <1>2 DEF DirsIn
    <3>2. n[d].direct[k] \notin G
      BY <3>1 DEF Droppable
    <3>3. QED
      BY <1>1, <1>3, <3>1, <3>2
  <2>2. QED
    BY <2>1 DEF SlotsKept, Used
<1>5. NoNames(n, b, DirsIn(n2))
  <2>1. ASSUME NEW k \in Rows, NEW j \in Columns, Used(n, b, ino, k, j), ino \in DirsIn(n)
        PROVE  b[n[ino].direct[k]][j].sfd_name \in Dots
    <3>1. PICK c : c = n[ino].direct[k]
      OBVIOUS
    <3>2. c \in DOMAIN b /\ b[c][j].sfd_ino # 0
      BY <1>3, <2>1, <3>1 DEF Used
    <3>3. c \in G
      <4>1. b[c] # NewDirBlock(<< >>)
        BY <3>2, EmptyBlock
      <4>2. QED
        BY <3>1, <3>2, <4>1 DEF Droppable
    <3>4. ~Gives(b, c, j)
      BY <3>2, <3>3 DEF Droppable
    <3>5. QED
      BY <3>1, <3>2, <3>4 DEF Gives
  <2>2. QED
    BY <1>2, <2>1 DEF NoNames
<1>6. SameLinks(n2, b2, n, b)
  BY <1>2, <1>4, <1>5, LinksKept
<1>7. QED
  BY <1>6 DEF SameLinks

----------------------------------------------------------------------------
\* What each command does to the tree.

\* A name entered in the working directory, before there is an inode at ino.
Named2(n, b, path, ino) ==
    /\ AddsLink(inode, dirBlock, n, b, cwd, path, ino)
    /\ DOMAIN n = DOMAIN inode /\ DirBlocksIn(n, b)
    /\ \A i \in DOMAIN inode : n[i].type = inode[i].type /\ (i # cwd => n[i] = inode[i])

LEMMA NameAdded ==
    ASSUME Sound, NEW path \in Names, ~DirectoryFull, NEW ino \in Blocks \ bitmap,
           NEW c, NeedsBlock => c \in Blocks \ bitmap,
           NEW n3, n3 = InodesEntered(c), NEW b3, b3 = DirBlocksEntered(Entry(ino, path), c)
    PROVE  Named2(n3, b3, path, ino) /\ DOMAIN b3 \subseteq GrownMap(c)
<1> DEFINE e == Entry(ino, path)
           m == GrownMap(c)
<1>1. e \in EntryRecords
  BY DEF Entry, EntryRecords, Paths
<1>2. PICK n, b, k, j : PlacedAt(n, b, m, k, j, e, c)
  <2>1. CASE NeedsBlock
    BY <1>1, <2>1, PlacedInNewBlock DEF GrownMap
  <2>2. CASE ~NeedsBlock
    BY <1>1, <2>2, PlacedInFreeSlot DEF GrownMap
  <2>3. QED
    BY <2>1, <2>2
<1>3. /\ DiskOK(n, b, indirect, data, m, {})
      /\ DirsIn(n) = DirsIn(inode) /\ DOMAIN n = DOMAIN inode
      /\ k \in Rows /\ j \in Columns /\ n[cwd].direct[k] # 0
      /\ b[n[cwd].direct[k]][j].sfd_ino = 0
      /\ SizeRaised(n, n3, cwd)
      /\ EntrySet(b, b3, n[cwd].direct[k], j, e)
      /\ Widened(n, b)
  BY <1>2 DEF PlacedAt
<1>. HIDE DEF m
<1>4. cwd \in DirsIn(n) /\ cwd \in DirsIn(inode)
  BY <1>3 DEF Sound
<1>5. Edited(n, b, n3, b3, cwd, k, j, e)
  BY <1>3, <1>4, EditedWhen
<1>6. EntriesEdited(n, b, n3, b3, cwd, k, j, e) /\ DirsIn(n3) = DirsIn(n)
  BY <1>3, <1>5, EditFrame
<1>7. ino # 0 /\ path \notin Dots
  <2>1. DiskFacts(inode, dirBlock, indirect, data, bitmap)
    BY OnDisk DEF Sound
  <2>2. QED
    BY <2>1, SfsAssumption DEF DiskFacts, Dots
<1>8. ~Used(n, b, cwd, k, j)
  BY <1>3 DEF Used
<1>9. AddsLink(n, b, n3, b3, cwd, path, ino)
  BY <1>3, <1>4, <1>6, <1>7, <1>8, LinkEntered
<1>10. SameLinks(inode, dirBlock, n, b)
  <2>1. NoNames(n, b, DirsIn(inode))
    BY <1>3 DEF NoNames
  <2>2. SlotsKept(inode, dirBlock, n, b) /\ DirsIn(inode) \subseteq DirsIn(n)
    BY <1>3 DEF Widened
  <2>3. QED
    BY <2>1, <2>2, LinksKept
<1>11. AddsLink(inode, dirBlock, n3, b3, cwd, path, ino)
  BY <1>9, <1>10 DEF AddsLink, SameLinks
<1>12. DOMAIN n3 = DOMAIN inode /\ \A i \in DOMAIN inode : n3[i].type = inode[i].type /\ (i # cwd => n3[i] = inode[i])
  <2>1. \A i \in DOMAIN inode : i # cwd => n[i] = inode[i]
    BY <1>3 DEF Widened
  <2>2. n[cwd].type = inode[cwd].type
    BY <1>4 DEF DirsIn
  <2>3. QED
    BY <1>3, <2>1, <2>2 DEF SizeRaised
<1>13. DOMAIN b3 = DOMAIN b /\ DOMAIN b \subseteq m
  BY <1>3 DEF EntrySet, DiskOK, Kinds
<1>14. DirBlocksIn(n3, b3)
  <2>1. ASSUME NEW d \in DirsIn(n3), NEW l \in Rows, n3[d].direct[l] # 0
        PROVE  n3[d].direct[l] \in DOMAIN b3
    <3>1. d \in DirsIn(n) /\ d \in DOMAIN n
      BY <1>6 DEF DirsIn
    <3>2. n3[d].direct = n[d].direct
      BY <1>3, <3>1 DEF SizeRaised
    <3>3. QED
      BY <1>3, <1>13, <2>1, <3>1, <3>2 DEF DiskOK, DirectKinds
  <2>2. QED
    BY <2>1 DEF DirBlocksIn
<1>15. QED
  BY <1>11, <1>12, <1>13, <1>14 DEF Named2, m

\* What the new disk shows: the tree and one more name.
Shows(n2, b2, x2, t2, h, path, ino) ==
    /\ Apart(inode, dirBlock, n2, b2)
    /\ PathsOn(n2, b2) = PathsOn(inode, dirBlock) \cup {<<Longer(h, path), ino>>}
    /\ TreeOn(n2, b2, x2, t2) =
          TreeOn(inode, dirBlock, indirect, data) \cup {<<Longer(h, path), Shown(n2, x2, t2, ino)>>}

LEMMA FileShows ==
    ASSUME Sound, NEW path \in Names, ~DirectoryFull, NEW ino \in Blocks \ bitmap,
           NEW c, NeedsBlock => c \in Blocks \ bitmap,
           NEW r, r.type = "file", NEW n2, n2 = Put(InodesEntered(c), ino, r),
           NEW b2, b2 = DirBlocksEntered(Entry(ino, path), c), NEW x2, NEW t2,
           \A f \in DOMAIN indirect : x2[f] = indirect[f], \A f \in DOMAIN data : t2[f] = data[f],
           NEW m2, DiskOK(n2, b2, x2, t2, m2, {}),
           NEW h, <<h, cwd>> \in PathsOn(inode, dirBlock)
    PROVE  Shows(n2, b2, x2, t2, h, path, ino)
<1>1. PICK n3 : n3 = InodesEntered(c)
  OBVIOUS
<1>2. Named2(n3, b2, path, ino)
  BY <1>1, NameAdded
<1>3. /\ AddsLink(inode, dirBlock, n3, b2, cwd, path, ino)
      /\ DOMAIN n3 = DOMAIN inode
      /\ \A i \in DOMAIN inode : n3[i].type = inode[i].type /\ (i # cwd => n3[i] = inode[i])
  BY <1>2 DEF Named2
<1>4. DiskOK(inode, dirBlock, indirect, data, bitmap, {}) /\ cwd \in DirsIn(inode)
  BY DEF Sound
<1>5. ino \notin DOMAIN inode
  <2>1. DiskFacts(inode, dirBlock, indirect, data, bitmap)
    BY <1>4, OnDisk
  <2>2. QED
    BY <2>1 DEF DiskFacts
<1>6. SameLinks(n3, b2, n2, b2)
  BY <1>1, <1>3, <1>5, FileHasNoNames
<1>7. AddsLink(inode, dirBlock, n2, b2, cwd, path, ino)
  BY <1>3, <1>6 DEF AddsLink, SameLinks
<1>8. \A i \in DOMAIN inode : n2[i] = n3[i]
  BY <1>1, <1>3, <1>5 DEF Put
<1>9. ShownAlike(inode, indirect, data, n2, x2, t2, DOMAIN inode)
  <2>1. ASSUME NEW i \in DOMAIN inode
        PROVE  Shown(n2, x2, t2, i) = Shown(inode, indirect, data, i)
    <3>1. n2[i].type = inode[i].type
      BY <1>3, <1>8
    <3>2. CASE inode[i].type = "file"
      <4>1. i \in FilesIn(inode) /\ i # cwd
        BY <1>4, <3>2 DEF FilesIn, DirsIn
      <4>2. n2[i] = inode[i]
        BY <1>3, <1>8, <4>1
      <4>3. Untouched(inode, indirect, data, n2, x2, t2, i)
        BY <1>4, <4>1, <4>2, UntouchedStored
      <4>4. QED
        BY <1>4, <3>1, <4>3, ShownStays
    <3>3. CASE inode[i].type # "file"
      BY <1>4, <3>1, <3>3, ShownStays
    <3>4. QED
      BY <3>2, <3>3
  <2>2. QED
    BY <2>1 DEF ShownAlike
<1>10. PathsOn(n2, b2) = PathsOn(inode, dirBlock) \cup {<<Longer(h, path), ino>>}
  BY <1>4, <1>5, <1>7, PathAdded
<1>11. TreeOn(n2, b2, x2, t2) =
          TreeOn(inode, dirBlock, indirect, data) \cup {<<Longer(h, path), Shown(n2, x2, t2, ino)>>}
  BY <1>4, <1>5, <1>7, <1>9, TreeGrows
<1>12. Apart(inode, dirBlock, n2, b2)
  BY <1>4, <1>5, <1>7, AddedApart
<1>13. QED
  BY <1>10, <1>11, <1>12 DEF Shows

LEMMA DirShows ==
    ASSUME Sound, NEW path \in Names, ~DirectoryFull, NEW ino \in Blocks \ bitmap,
           NEW c, NeedsBlock => c \in Blocks \ bitmap, NEW first \in Blocks \ GrownMap(c),
           NEW n2, n2 = Put(InodesEntered(c), ino, NewDir(first)),
           NEW b2, b2 = Put(DirBlocksEntered(Entry(ino, path), c), first, DotBlock(ino, cwd)),
           NEW m2, DiskOK(n2, b2, indirect, data, m2, {}),
           NEW h, <<h, cwd>> \in PathsOn(inode, dirBlock)
    PROVE  Shows(n2, b2, indirect, data, h, path, ino)
<1>1. PICK n3, b3 : n3 = InodesEntered(c) /\ b3 = DirBlocksEntered(Entry(ino, path), c)
  OBVIOUS
<1>2. Named2(n3, b3, path, ino) /\ DOMAIN b3 \subseteq GrownMap(c)
  BY <1>1, NameAdded
<1>3. /\ AddsLink(inode, dirBlock, n3, b3, cwd, path, ino)
      /\ DOMAIN n3 = DOMAIN inode /\ DirBlocksIn(n3, b3)
      /\ \A i \in DOMAIN inode : n3[i].type = inode[i].type /\ (i # cwd => n3[i] = inode[i])
  BY <1>2 DEF Named2
<1>4. DiskOK(inode, dirBlock, indirect, data, bitmap, {}) /\ cwd \in DirsIn(inode) /\ cwd \in Blocks
  BY DEF Sound, DirsIn, DiskOK, Kinds
<1>5. ino \notin DOMAIN inode
  <2>1. DiskFacts(inode, dirBlock, indirect, data, bitmap)
    BY <1>4, OnDisk
  <2>2. QED
    BY <2>1 DEF DiskFacts
<1>6. SameLinks(n3, b3, n2, b2)
  <2>1. first \notin DOMAIN b3 /\ first \in Blocks /\ ino \notin DOMAIN n3 /\ ino \in Blocks
    BY <1>2, <1>3, <1>5
  <2>2. PICK r, block : r = NewDir(first) /\ block = DotBlock(ino, cwd)
    OBVIOUS
  <2>3. n2 = Put(n3, ino, r) /\ b2 = Put(b3, first, block)
    BY <1>1, <2>2
  <2>4. QED
    BY <1>3, <1>4, <2>1, <2>2, <2>3, DirHasNoNames
<1>7. AddsLink(inode, dirBlock, n2, b2, cwd, path, ino)
  BY <1>3, <1>6 DEF AddsLink, SameLinks
<1>8. \A i \in DOMAIN inode : n2[i] = n3[i]
  BY <1>1, <1>3, <1>5 DEF Put
<1>9. ShownAlike(inode, indirect, data, n2, indirect, data, DOMAIN inode)
  <2>1. ASSUME NEW i \in DOMAIN inode
        PROVE  Shown(n2, indirect, data, i) = Shown(inode, indirect, data, i)
    <3>1. n2[i].type = inode[i].type
      BY <1>3, <1>8
    <3>2. CASE inode[i].type = "file"
      <4>1. i # cwd
        BY <1>4, <3>2 DEF DirsIn
      <4>2. n2[i] = inode[i]
        BY <1>3, <1>8, <4>1
      <4>3. Untouched(inode, indirect, data, n2, indirect, data, i)
        BY <4>2 DEF Untouched
      <4>4. QED
        BY <1>4, <3>1, <4>3, ShownStays
    <3>3. CASE inode[i].type # "file"
      BY <1>4, <3>1, <3>3, ShownStays
    <3>4. QED
      BY <3>2, <3>3
  <2>2. QED
    BY <2>1 DEF ShownAlike
<1>10. PathsOn(n2, b2) = PathsOn(inode, dirBlock) \cup {<<Longer(h, path), ino>>}
  BY <1>4, <1>5, <1>7, PathAdded
<1>11. TreeOn(n2, b2, indirect, data) =
          TreeOn(inode, dirBlock, indirect, data) \cup {<<Longer(h, path), Shown(n2, indirect, data, ino)>>}
  BY <1>4, <1>5, <1>7, <1>9, TreeGrows
<1>12. Apart(inode, dirBlock, n2, b2)
  BY <1>4, <1>5, <1>7, AddedApart
<1>13. QED
  BY <1>10, <1>11, <1>12 DEF Shows

\* What the new disk no longer shows: a name, with nothing below it.
Loses(n2, b2, x2, t2, h, path, ino) ==
    /\ Apart(inode, dirBlock, n2, b2)
    /\ <<Longer(h, path), ino>> \in PathsOn(inode, dirBlock)
    /\ PathsOn(n2, b2) = PathsOn(inode, dirBlock) \ {<<Longer(h, path), ino>>}
    /\ TreeOn(n2, b2, x2, t2) =
          TreeOn(inode, dirBlock, indirect, data) \ {<<Longer(h, path), Shown(inode, indirect, data, ino)>>}
    /\ \A e \in TreeOn(inode, dirBlock, indirect, data) :
          Begins(Longer(h, path), e[1]) => e = <<Longer(h, path), Shown(inode, indirect, data, ino)>>

LEMMA StillShown ==
    ASSUME NEW n1, NEW b1, NEW ino, NEW G, NEW n2, NEW b2, NEW x2, NEW t2,
           Drops(n1, b1, ino, G, n2, b2, x2, t2), NEW i \in DOMAIN n1 \ {ino}
    PROVE  /\ n2[i] = n1[i]
           /\ n1[i].type = "file" => Untouched(n1, indirect, data, n2, x2, t2, i)
<1>1. PICK n, x, t : n = Forget(n1, G) /\ x = Forget(indirect, G) /\ t = Forget(data, G)
  OBVIOUS
<1>2. DiskOK(n1, b1, indirect, data, bitmap, {ino}) /\ Droppable(n1, b1, indirect, data, ino, G)
  BY DEF Drops
<1>3. /\ n[i] = n1[i]
      /\ n1[i].type = "file" => Untouched(n1, indirect, data, n, x, t, i)
  BY <1>1, <1>2, UntouchedDropped
<1>4. n2 = n /\ x2 = x /\ t2 = t
  BY <1>1 DEF Drops
<1>5. QED
  BY <1>3, <1>4

LEMMA NameLost ==
    ASSUME Sound, NEW path \in Names, Exists(path), NEW ino, ino = Ino(path), ino # cwd,
           NEW n1, n1 = Resized(inode, cwd, inode[cwd].size - 1), NEW b1, b1 = DirBlocksWithout(Slot(path)),
           NEW G, NEW n2, NEW b2, NEW x2, NEW t2, Drops(n1, b1, ino, G, n2, b2, x2, t2),
           \A z, i : ~IsLink(inode, dirBlock, ino, z, i),
           NEW h, <<h, cwd>> \in PathsOn(inode, dirBlock)
    PROVE  Loses(n2, b2, x2, t2, h, path, ino)
<1> DEFINE k == Slot(path)[1]
           j == Slot(path)[2]
           p == Longer(h, path)
<1>1. Edited(inode, dirBlock, n1, b1, cwd, k, j, FreeEntry)
  BY EntryFreed
<1>2. /\ k \in Rows /\ j \in Columns /\ Used(inode, dirBlock, cwd, k, j)
      /\ dirBlock[inode[cwd].direct[k]][j].sfd_name = path
      /\ dirBlock[inode[cwd].direct[k]][j].sfd_ino = ino
  BY FoundName DEF FoundAt
<1>. HIDE DEF k, j
<1>3. path \notin Dots /\ path \in Labels
  BY SfsAssumption DEF Dots, Labels
<1>4. DiskOK(inode, dirBlock, indirect, data, bitmap, {}) /\ cwd \in DirsIn(inode)
  BY DEF Sound
<1>5. EntriesEdited(inode, dirBlock, n1, b1, cwd, k, j, FreeEntry) /\ DirsIn(n1) = DirsIn(inode)
  BY <1>1, <1>4, EditFrame
<1>6. Gave(inode, dirBlock, cwd, k, j, path, ino)
  BY <1>2, <1>3 DEF Gave
<1>7. DropsLink(inode, dirBlock, n1, b1, cwd, path, ino)
  BY <1>2, <1>4, <1>5, <1>6, LinkLeft
<1>8. /\ DiskOK(n1, b1, indirect, data, bitmap, {ino})
      /\ Droppable(n1, b1, indirect, data, ino, G)
      /\ n2 = Forget(n1, G) /\ b2 = Forget(b1, G) /\ x2 = Forget(indirect, G) /\ t2 = Forget(data, G)
  BY DEF Drops
<1>9. SameLinks(n1, b1, n2, b2)
  BY <1>8, DroppedLinks
<1>10. DropsLink(inode, dirBlock, n2, b2, cwd, path, ino)
  BY <1>7, <1>9 DEF DropsLink, SameLinks
<1>11. DiskOK(n2, b2, x2, t2, bitmap \ G, {})
  BY <1>8, DropOK
<1>12. DOMAIN n1 = DOMAIN inode /\ \A i \in DOMAIN inode : n1[i].type = inode[i].type /\ (i # cwd => n1[i] = inode[i])
  BY <1>1 DEF Edited
<1>13. ShownAlike(inode, indirect, data, n2, x2, t2, DOMAIN inode \ {ino})
  <2>1. ASSUME NEW i \in DOMAIN inode \ {ino}
        PROVE  Shown(n2, x2, t2, i) = Shown(inode, indirect, data, i)
    <3>1. n2[i] = n1[i] /\ (n1[i].type = "file" => Untouched(n1, indirect, data, n2, x2, t2, i))
      <4>1. i \in DOMAIN n1 \ {ino}
        BY <1>12
      <4>2. QED
        BY <4>1, StillShown
    <3>2. n2[i].type = inode[i].type
      BY <1>12, <3>1
    <3>3. CASE inode[i].type = "file"
      <4>1. i # cwd
        BY <1>4, <3>3 DEF DirsIn
      <4>2. n1[i] = inode[i] /\ Untouched(n1, indirect, data, n2, x2, t2, i)
        BY <1>12, <3>1, <3>3, <4>1
      <4>3. Untouched(inode, indirect, data, n2, x2, t2, i)
        BY <4>2 DEF Untouched
      <4>4. QED
        BY <1>4, <3>2, <4>3, ShownStays
    <3>4. CASE inode[i].type # "file"
      BY <1>4, <3>2, <3>4, ShownStays
    <3>5. QED
      BY <3>3, <3>4
  <2>2. QED
    BY <2>1 DEF ShownAlike
<1>14. PathsOn(n2, b2) = PathsOn(inode, dirBlock) \ {<<p, ino>>}
  BY <1>4, <1>10, <1>11, PathDropped
<1>15. TreeOn(n2, b2, x2, t2) =
          TreeOn(inode, dirBlock, indirect, data) \ {<<p, Shown(inode, indirect, data, ino)>>}
  BY <1>4, <1>10, <1>11, <1>13, TreeShrinks
<1>16. <<p, ino>> \in PathsOn(inode, dirBlock)
  <2>1. IsLink(inode, dirBlock, cwd, path, ino)
    BY <1>2, <1>4, <1>6 DEF IsLink
  <2>2. QED
    BY <1>3, <1>4, <2>1, PathHere
<1>17. ASSUME NEW e \in TreeOn(inode, dirBlock, indirect, data), Begins(p, e[1])
       PROVE  e = <<p, Shown(inode, indirect, data, ino)>>
  BY <1>4, <1>16, <1>17, NothingBelow
<1>18. Apart(inode, dirBlock, n2, b2)
  BY <1>10, DroppedApart
<1>19. QED
  BY <1>14, <1>15, <1>16, <1>17, <1>18 DEF Loses

LEMMA RmShows ==
    ASSUME Sound, NEW path, Exists(path), IsFile(path), Release(path, RmBlocks(Ino(path))),
           NEW h, <<h, cwd>> \in PathsOn(inode, dirBlock), path \in Paths
    PROVE  path \in Names /\ Ino(path) # cwd /\ Loses(inode', dirBlock', indirect', data', h, path, Ino(path))
<1> DEFINE k == Slot(path)[1]
           j == Slot(path)[2]
           ino == Ino(path)
           G == RmBlocks(Ino(path))
           n1 == Resized(inode, cwd, inode[cwd].size - 1)
           b1 == DirBlocksWithout(Slot(path))
<1>1. /\ inode' = Forget(n1, G) /\ dirBlock' = Forget(b1, G)
      /\ indirect' = Forget(indirect, G) /\ data' = Forget(data, G) /\ bitmap' = bitmap \ G
  BY DEF Release, Resized
<1>2. Edited(inode, dirBlock, n1, b1, cwd, k, j, FreeEntry) /\ n1[cwd].size = inode[cwd].size - 1
  BY EntryFreed
<1>3. Gives(dirBlock, inode[cwd].direct[k], j)
  BY GivenName
<1>4. ino = dirBlock[inode[cwd].direct[k]][j].sfd_ino /\ path = dirBlock[inode[cwd].direct[k]][j].sfd_name
  BY FoundName DEF FoundAt
<1>5. DiskOK(inode, dirBlock, indirect, data, bitmap, {}) /\ cwd \in DirsIn(inode)
  BY DEF Sound
<1>6. ino \in FilesIn(inode) /\ ino \in DOMAIN inode
  BY NamedInode
<1>7. path \in Names
  BY <1>3, <1>4, Zenon DEF Gives, Paths, Dots
<1>. HIDE DEF k, j, ino, n1, b1
<1>8. DiskOK(n1, b1, indirect, data, bitmap, {ino})
  BY <1>2, <1>3, <1>4, <1>5, LeaveOK, Zenon
<1>9. ino # cwd /\ ino \notin DirsIn(inode)
  BY <1>5, <1>6 DEF FilesIn, DirsIn
<1>10. n1[ino] = inode[ino] /\ ino \in FilesIn(n1)
  BY <1>2, <1>6, <1>9 DEF Edited, FilesIn
<1>11. G = ({ino, n1[ino].indirect} \cup Range(n1[ino].direct)
              \cup (IF n1[ino].indirect # 0 THEN Range(indirect[n1[ino].indirect]) ELSE {})) \ {0}
  <2>1. G = ({ino, inode[ino].indirect} \cup Range(inode[ino].direct)
                \cup (IF inode[ino].indirect # 0 THEN Range(indirect[inode[ino].indirect]) ELSE {})) \ {0}
    BY DEF RmBlocks, ino
  <2>2. QED
    BY <1>10, <2>1
<1>. HIDE DEF G
<1>12. Droppable(n1, b1, indirect, data, ino, G)
  BY <1>8, <1>10, <1>11, DropFileOK
<1>13. Drops(n1, b1, ino, G, inode', dirBlock', indirect', data')
  BY <1>1, <1>8, <1>12 DEF Drops
<1>14. \A z, i : ~IsLink(inode, dirBlock, ino, z, i)
  BY <1>9 DEF IsLink
<1>15. Loses(inode', dirBlock', indirect', data', h, path, ino)
  BY <1>7, <1>9, <1>13, <1>14, NameLost DEF ino, n1, b1
<1>16. QED
  BY <1>7, <1>9, <1>15 DEF ino

\* rmdir frees the root's inode only by ".." (or ".").
LEMMA RootReleased ==
    ASSUME Sound, NEW path, Exists(path), ~IsFile(path), Release(path, RmdirBlocks(Ino(path))),
           SFS_ROOT_LOCATION \notin bitmap'
    PROVE  path \in Dots
<1>1. PICK k, j : k = Slot(path)[1] /\ j = Slot(path)[2]
  OBVIOUS
<1>2. /\ DiskOK(inode, dirBlock, indirect, data, bitmap, {})
      /\ FoundAt(path, k, j) /\ Ino(path) \in DirsIn(inode)
  BY <1>1, FoundName, NamedInode DEF Sound
<1>3. SFS_ROOT_LOCATION \in DOMAIN inode /\ SFS_ROOT_LOCATION \in bitmap
  BY <1>2 DEF DiskOK, Kinds, DirsIn
<1>4. SFS_ROOT_LOCATION \in {Ino(path), inode[Ino(path)].direct[1]}
  BY <1>3 DEF Release, RmdirBlocks
<1>5. inode[Ino(path)].direct[1] \in DOMAIN dirBlock
  <2>1. 1 \in Rows
    BY SfsAssumption DEF Rows
  <2>2. QED
    BY <1>2, <2>1 DEF DiskOK, DirectKinds
<1>6. Ino(path) = SFS_ROOT_LOCATION
  BY <1>2, <1>3, <1>4, <1>5 DEF DiskOK, Kinds
<1>7. inode[cwd].direct[k] \in DOMAIN dirBlock
  BY <1>2 DEF FoundAt, Used, Sound, DiskOK, DirectKinds
<1>8. ~Gives(dirBlock, inode[cwd].direct[k], j)
  BY <1>2, <1>6, <1>7 DEF FoundAt, DiskOK, EntriesLead
<1>9. QED
  BY <1>1, <1>8, GivenName

LEMMA RmdirShows ==
    ASSUME Sound, NEW path, path # ".", Exists(path), ~IsFile(path), ~HasEntries(Ino(path)),
           Release(path, RmdirBlocks(Ino(path))), SFS_ROOT_LOCATION \in bitmap',
           NEW h, <<h, cwd>> \in PathsOn(inode, dirBlock), path \in Paths
    PROVE  path \in Names /\ Ino(path) # cwd /\ Loses(inode', dirBlock', indirect', data', h, path, Ino(path))
<1> DEFINE k == Slot(path)[1]
           j == Slot(path)[2]
           ino == Ino(path)
           G == RmdirBlocks(Ino(path))
           n1 == Resized(inode, cwd, inode[cwd].size - 1)
           b1 == DirBlocksWithout(Slot(path))
<1>1. /\ inode' = Forget(n1, G) /\ dirBlock' = Forget(b1, G)
      /\ indirect' = Forget(indirect, G) /\ data' = Forget(data, G) /\ bitmap' = bitmap \ G
  BY DEF Release, Resized
<1>2. Edited(inode, dirBlock, n1, b1, cwd, k, j, FreeEntry) /\ n1[cwd].size = inode[cwd].size - 1
  BY EntryFreed
<1>3. ino = dirBlock[inode[cwd].direct[k]][j].sfd_ino
  BY FoundName DEF FoundAt
<1>4. DiskOK(inode, dirBlock, indirect, data, bitmap, {}) /\ cwd \in DirsIn(inode)
  BY DEF Sound
<1>5. G = {ino, inode[ino].direct[1]}
  BY DEF RmdirBlocks
<1>. HIDE DEF n1, b1, G
<1>6. ino \in DirsIn(inode) /\ inode[ino].size <= 2 /\ ino # SFS_ROOT_LOCATION
  <2>1. ino \in DirsIn(inode) /\ ino \in DOMAIN inode
    BY NamedInode
  <2>. HIDE DEF k, j
  <2>2. inode[ino] \in InodeRecords
    BY <1>4, <2>1 DEF DiskOK, Tables
  <2>3. inode[ino].size <= 2
    BY <2>2 DEF HasEntries, InodeRecords
  <2>4. ino # SFS_ROOT_LOCATION
    BY <1>1, <1>5
  <2>5. QED
    BY <2>1, <2>3, <2>4
<1>7. path \notin Dots /\ ino # cwd
  BY <1>6, EmptyIsElsewhere
<1>8. Gives(dirBlock, inode[cwd].direct[k], j)
  BY <1>7, GivenName
<1>9. path \in Names
  BY <1>7 DEF Paths, Dots
<1>. HIDE DEF k, j, ino
<1>10. DiskOK(n1, b1, indirect, data, bitmap, {ino})
  BY <1>2, <1>3, <1>4, <1>8, LeaveOK
<1>11. n1[ino] = inode[ino] /\ ino \in DirsIn(n1)
  BY <1>2, <1>4, <1>6, <1>7 DEF Edited, DirsIn
<1>12. Droppable(n1, b1, indirect, data, ino, G)
  BY <1>5, <1>6, <1>10, <1>11, DropDirOK
<1>13. Drops(n1, b1, ino, G, inode', dirBlock', indirect', data')
  BY <1>1, <1>10, <1>12 DEF Drops
<1>14. \A z, i : ~IsLink(inode, dirBlock, ino, z, i)
  <2>1. \A l \in Rows, g \in Columns : inode[ino].direct[l] # 0 => ~Gives(dirBlock, inode[ino].direct[l], g)
    BY <1>4, <1>6, OnlyDots
  <2>2. QED
    BY <2>1 DEF IsLink, Gave, Used, Gives
<1>15. Loses(inode', dirBlock', indirect', data', h, path, ino)
  BY <1>7, <1>9, <1>13, <1>14, NameLost DEF ino, n1, b1
<1>16. QED
  BY <1>7, <1>9, <1>15 DEF ino

\* What the new disk shows: the tree with a name in place of another.
NameMoves(b2, h, src, dst) ==
    /\ Apart(inode, dirBlock, inode, b2)
    /\ PathsOn(inode, b2) = {<<MovedPath(r[1], h, src, dst), r[2]>> : r \in PathsOn(inode, dirBlock)}
    /\ TreeOn(inode, b2, indirect, data) =
          {<<MovedPath(e[1], h, src, dst), e[2]>> : e \in TreeOn(inode, dirBlock, indirect, data)}

LEMMA NameMoved ==
    ASSUME Sound, NEW src \in Names, NEW dst \in Names, NEW b2, DiskOK(inode, b2, indirect, data, bitmap, {}),
           NEW i, RenamesLink(inode, dirBlock, inode, b2, cwd, src, dst, i),
           NEW h, <<h, cwd>> \in PathsOn(inode, dirBlock)
    PROVE  NameMoves(b2, h, src, dst)
<1>1. DiskOK(inode, dirBlock, indirect, data, bitmap, {}) /\ dst \in Labels
  BY DEF Sound, Labels
<1>2. PathsOn(inode, b2) = {<<MovedPath(r[1], h, src, dst), r[2]>> : r \in PathsOn(inode, dirBlock)}
  BY <1>1, PathMoved
<1>3. TreeOn(inode, b2, indirect, data) =
          {<<MovedPath(e[1], h, src, dst), e[2]>> : e \in TreeOn(inode, dirBlock, indirect, data)}
  BY <1>1, TreeMoves
<1>4. Apart(inode, dirBlock, inode, b2)
  BY RenamedApart
<1>5. QED
  BY <1>2, <1>3, <1>4 DEF NameMoves

LEMMA MvShows ==
    ASSUME Sound, NEW src \in Names, NEW dst \in Names, ~Exists(dst), Exists(src), NEW b2,
           b2 = LET s == Slot(src)
                IN  [dirBlock EXCEPT ![inode[cwd].direct[s[1]]][s[2]].sfd_name = dst],
           NEW h, <<h, cwd>> \in PathsOn(inode, dirBlock)
    PROVE  NameMoves(b2, h, src, dst)
<1> DEFINE k == Slot(src)[1]
           j == Slot(src)[2]
           f == inode[cwd].direct[k]
           e == Entry(Ino(src), dst)
<1>1. b2 = Renamed(dirBlock, f, j, dst)
  BY Zenon DEF Renamed
<1>2. /\ k \in Rows /\ j \in Columns /\ Used(inode, dirBlock, cwd, k, j)
      /\ Ino(src) = dirBlock[f][j].sfd_ino /\ dirBlock[f][j].sfd_name = src
  BY FoundName, Zenon DEF FoundAt
<1>3. /\ DiskOK(inode, dirBlock, indirect, data, bitmap, {}) /\ cwd \in DirsIn(inode)
      /\ f \in DOMAIN dirBlock /\ dirBlock \in [DOMAIN dirBlock -> [Columns -> EntryRecords]] /\ f # 0
      /\ inode \in [DOMAIN inode -> InodeRecords]
  BY <1>2, Zenon DEF Sound, DiskOK, Tables, DirectKinds, Used
<1>4. e = Entry(dirBlock[f][j].sfd_ino, dst) /\ Ino(src) # 0 /\ Ino(src) \in Blocks
  <2>1. Ino(src) # 0
    BY <1>2, Zenon DEF Used
  <2>2. Ino(src) \in DOMAIN inode
    BY NamedInode, Zenon
  <2>3. DOMAIN inode \subseteq Blocks
    BY <1>3 DEF DiskOK, Kinds
  <2>4. QED
    BY <1>2, <2>1, <2>2, <2>3
<1>. HIDE DEF k, j, f, e
<1>5. b2 = EntryPut(dirBlock, f, j, e)
  <2>1. Renamed(dirBlock, f, j, dst) = EntryPut(dirBlock, f, j, e)
    BY <1>2, <1>3, <1>4, RenamedEntry, Zenon
  <2>2. QED
    BY <1>1, <2>1, Zenon
<1>6. DiskOK(inode, b2, indirect, data, bitmap, {})
  BY <1>5, MvOK, Zenon DEF k, j, f, e
<1>7. e \in EntryRecords
  <2>1. dirBlock[f][j].sfd_ino \in Blocks
    BY <1>2, <1>4, Zenon
  <2>2. QED
    BY <1>4, <2>1, Zenon DEF Entry, EntryRecords, Paths
<1>8. EntrySet(dirBlock, b2, f, j, e)
  <2>1. EntrySet(dirBlock, EntryPut(dirBlock, f, j, e), f, j, e)
    BY <1>2, <1>3, <1>7, EntryPutAt, Zenon
  <2>2. QED
    BY <1>5, <2>1, Zenon
<1>9. Edited(inode, dirBlock, inode, b2, cwd, k, j, e)
  BY <1>2, <1>3, <1>8, Zenon DEF Edited, EntrySet, f
<1>10. EntriesEdited(inode, dirBlock, inode, b2, cwd, k, j, e)
  BY <1>3, <1>9, EditFrame, Zenon
<1>11. src \notin Dots /\ dst \notin Dots /\ dst \in Labels
  BY SfsAssumption, Zenon DEF Dots, Labels
<1>12. Gave(inode, dirBlock, cwd, k, j, src, Ino(src))
  BY <1>2, <1>11, Zenon DEF Gave, f
<1>13. RenamesLink(inode, dirBlock, inode, b2, cwd, src, dst, Ino(src))
  BY <1>2, <1>3, <1>4, <1>10, <1>11, <1>12, LinkChanged, Zenon
<1>14. QED
  BY <1>6, <1>13, NameMoved, Zenon

----------------------------------------------------------------------------
\* What the user sees of the state.

\* The working directory is reached, as long as the image can be read.
Placed == ~Lost /\ cwd # SFS_NOINO => \E p : <<p, cwd>> \in PathsOn(inode, dirBlock)

Seen ==
    /\ ~Lost => VisibleTree = TreeOn(inode, dirBlock, indirect, data)
    /\ ~Lost => WorkingPath = PlaceOn(inode, dirBlock, cwd)

LEMMA LinksAre ==
    ASSUME DiskOK(inode, dirBlock, indirect, data, bitmap, {})
    PROVE  Links = LinksIn(inode, dirBlock)
<1> DEFINE l(d, s) == <<d, At(d, s).sfd_name, At(d, s).sfd_ino>>
<1>1. \A t : t \in Links <=> \E d \in Dirs : \E s \in Entries(d) : ~IsDot(d, s) /\ t = l(d, s)
  BY DEF Links
<1>2. Dirs = DirsIn(inode)
  BY DEF Dirs, DirsIn
<1>3. Triples(Links)
  BY <1>1 DEF Triples
<1>4. ASSUME NEW d, NEW x, NEW i, <<d, x, i>> \in Links
      PROVE  IsLink(inode, dirBlock, d, x, i)
  <2>1. PICK e \in Dirs : \E s \in Entries(e) : ~IsDot(e, s) /\ <<d, x, i>> = l(e, s)
    BY <1>1, <1>4
  <2>2. PICK s \in Entries(e) : ~IsDot(e, s) /\ <<d, x, i>> = l(e, s)
    BY <2>1
  <2>3. d = e /\ x = At(e, s).sfd_name /\ i = At(e, s).sfd_ino
    BY <2>2
  <2>4. /\ s[1] \in Rows /\ s[2] \in Columns
        /\ Used(inode, dirBlock, d, s[1], s[2])
        /\ At(d, s) = dirBlock[inode[d].direct[s[1]]][s[2]]
    BY <2>3, SlotsAre
  <2>5. Gave(inode, dirBlock, d, s[1], s[2], x, i)
    BY <2>2, <2>3, <2>4 DEF Gave, IsDot, Dots
  <2>6. QED
    BY <1>2, <2>3, <2>4, <2>5, Zenon DEF IsLink
<1>5. ASSUME NEW d, NEW x, NEW i, IsLink(inode, dirBlock, d, x, i)
      PROVE  <<d, x, i>> \in Links
  <2>1. d \in DirsIn(inode) /\ \E k \in Rows, j \in Columns : Gave(inode, dirBlock, d, k, j, x, i)
    BY <1>5 DEF IsLink
  <2>2. PICK k \in Rows, j \in Columns : Gave(inode, dirBlock, d, k, j, x, i)
    BY <2>1
  <2>3. PICK s : s = <<k, j>>
    OBVIOUS
  <2>4. s \in Entries(d)
    BY <2>2, <2>3, SlotsAre DEF Gave
  <2>5. At(d, s) = dirBlock[inode[d].direct[k]][j]
    BY <2>3 DEF At
  <2>6. ~IsDot(d, s) /\ <<d, x, i>> = l(d, s)
    BY <2>2, <2>5 DEF Gave, IsDot, Dots
  <2>7. QED
    BY <1>1, <1>2, <2>1, <2>4, <2>6
<1>6. LinksOf(inode, dirBlock, LinksIn(inode, dirBlock))
  BY LinksInAre
<1>7. QED
  BY <1>3, <1>4, <1>5, <1>6, SameTriples DEF LinksOf

LEMMA LinksAreAlways ==
    DiskOK(inode, dirBlock, indirect, data, bitmap, {}) => Links = LinksIn(inode, dirBlock)
BY LinksAre

LEMMA LinksAreNext ==
    DiskOK(inode', dirBlock', indirect', data', bitmap', {}) => Links' = LinksIn(inode', dirBlock')
<1>1. (DiskOK(inode, dirBlock, indirect, data, bitmap, {}) => Links = LinksIn(inode, dirBlock))'
  BY LinksAreAlways, PTL
<1>2. QED
  BY <1>1

LEMMA SeenOK == IndInv => Seen
<1> SUFFICES ASSUME IndInv, ~Lost
             PROVE  /\ VisibleTree = TreeOn(inode, dirBlock, indirect, data)
                    /\ WorkingPath = PlaceOn(inode, dirBlock, cwd)
  BY DEF Seen
<1>1. Reached = PathsOn(inode, dirBlock)
  <2>1. DiskOK(inode, dirBlock, indirect, data, bitmap, {})
    BY DEF IndInv
  <2>2. Links = LinksIn(inode, dirBlock)
    BY <2>1, LinksAre
  <2>3. QED
    BY <2>2 DEF Reached, PathsOn
<1>2. ASSUME NEW i
      PROVE  (IF inode[i].type = "file" THEN Content(i) ELSE ADirectory) = Shown(inode, indirect, data, i)
  <2>1. Content(i) = ContentIn(inode, indirect, data, i)
    BY DEF Content, ContentIn, ContentOf, FileBlocks, BlocksIn
  <2>2. QED
    BY <2>1 DEF Shown
<1>3. VisibleTree = TreeOn(inode, dirBlock, indirect, data)
  BY <1>1, <1>2 DEF VisibleTree, TreeOn
<1>4. WorkingPath = PlaceOn(inode, dirBlock, cwd)
  BY <1>1 DEF WorkingPath, PlaceOn
<1>5. QED
  BY <1>3, <1>4

\* The working directory is at h.
AtPath(h) == Sound /\ <<h, cwd>> \in PathsOn(inode, dirBlock)

LEMMA AtSomePath ==
    ASSUME IndInv, ~Lost, Placed, Mounted
    PROVE  \E h : AtPath(h)
<1>1. Sound
  BY MountedSound
<1>2. QED
  BY <1>1 DEF Placed, Mounted, AtPath

LEMMA NotThere ==
    ASSUME NEW h, AtPath(h), NEW path \in Names, ~Exists(path), NEW e \in TreeOn(inode, dirBlock, indirect, data)
    PROVE  e[1] # Longer(h, path)
<1> SUFFICES ASSUME e[1] = Longer(h, path)
             PROVE  FALSE
  OBVIOUS
<1>1. DiskOK(inode, dirBlock, indirect, data, bitmap, {}) /\ path \in Labels /\ path \notin Dots
  BY SfsAssumption DEF AtPath, Sound, Labels, Dots
<1>2. SeenAt(inode, dirBlock, indirect, data, e)
  BY <1>1, InTree
<1>3. PICK p, i : <<p, i>> \in PathsOn(inode, dirBlock) /\ e = <<p, Shown(inode, indirect, data, i)>>
  BY <1>2 DEF SeenAt
<1>4. <<Longer(h, path), i>> \in PathsOn(inode, dirBlock)
  BY <1>3
<1>5. IsLink(inode, dirBlock, cwd, path, i)
  BY <1>1, <1>4, PathHere DEF AtPath
<1>6. PICK k \in Rows, j \in Columns : Gave(inode, dirBlock, cwd, k, j, path, i)
  BY <1>5 DEF IsLink
<1>7. QED
  BY <1>6, NoSuchName DEF Gave

LEMMA There ==
    ASSUME NEW h, AtPath(h), NEW path \in Names, Exists(path)
    PROVE  <<Longer(h, path), Ino(path)>> \in PathsOn(inode, dirBlock)
<1>1. /\ DiskOK(inode, dirBlock, indirect, data, bitmap, {}) /\ path \in Labels /\ path \notin Dots
      /\ cwd \in DirsIn(inode)
  BY SfsAssumption DEF AtPath, Sound, Labels, Dots
<1>2. PICK k, j : FoundAt(path, k, j)
  BY FoundName
<1>3. k \in Rows /\ j \in Columns /\ Gave(inode, dirBlock, cwd, k, j, path, Ino(path))
  BY <1>1, <1>2 DEF FoundAt, Gave
<1>4. IsLink(inode, dirBlock, cwd, path, Ino(path))
  BY <1>1, <1>3 DEF IsLink
<1>5. QED
  BY <1>1, <1>4, PathHere DEF AtPath

\* The place in the tree is the working directory's path.
LEMMA HereIs ==
    ASSUME NEW h, AtPath(h), Seen, ~Lost
    PROVE  WorkingPath = h /\ VisibleTree = TreeOn(inode, dirBlock, indirect, data)
<1>1. PlaceOn(inode, dirBlock, cwd) = h
  BY PlaceIs DEF AtPath, Sound
<1>2. QED
  BY <1>1 DEF Seen

LEMMA FileBegins ==
    ASSUME NEW n, NEW b, NEW x, NEW t, NEW m, NEW O, DiskOK(n, b, x, t, m, O), NEW i \in FilesIn(n)
    PROVE  /\ ContentIn(n, x, t, i) \in Beginnings /\ ContentIn(n, x, t, i).size \in Nat
           /\ Shown(n, x, t, i) = ContentIn(n, x, t, i)
<1>1. PICK file : file = ContentIn(n, x, t, i)
  OBVIOUS
<1>2. file.size = n[i].size /\ FromHost(file)
  BY <1>1 DEF DiskOK, FilesHold, Holding
<1>3. i \in DOMAIN n /\ n[i].size \in Nat /\ n[i].type = "file"
  BY DEF DiskOK, Tables, FilesIn, InodeRecords
<1>4. file = [size |-> file.size, chunks |-> file.chunks]
  <2> DEFINE size == Min({n[i].size, Len(BlocksIn(n, x, i)) * SFS_BLOCKSIZE})
             chunks == [k \in 1 .. Min({ChunksOf(n[i].size), Len(BlocksIn(n, x, i))}) |-> t[BlocksIn(n, x, i)[k]]]
  <2>1. file = [size |-> size, chunks |-> chunks]
    BY <1>1 DEF ContentIn, ContentOf
  <2>. HIDE DEF size, chunks
  <2>2. QED
    BY <2>1
<1> DEFINE Cut(h, s) == [size |-> s, chunks |-> [k \in 1 .. ChunksOf(s) |-> <<h, k>>]]
           Cuts(h) == {Cut(h, s) : s \in 0 .. HostSize[h]}
           nothing == [size |-> 0, chunks |-> << >>]
<1>5. Beginnings = {nothing} \cup UNION {Cuts(h) : h \in HostFiles}
  BY DEF Beginnings
<1>6. ASSUME file = [size |-> 0, chunks |-> << >>]
      PROVE  file \in Beginnings
  <2>. HIDE DEF Cuts
  <2>1. file = nothing
    BY <1>6
  <2>. HIDE DEF nothing
  <2>2. QED
    BY <1>5, <2>1
<1>7. ASSUME \E h \in HostFiles : IsPrefixOf(file, h)
      PROVE  file \in Beginnings
  <2>1. PICK h \in HostFiles : IsPrefixOf(file, h)
    BY <1>7
  <2>2. file.size <= HostSize[h] /\ file.chunks = [k \in 1 .. ChunksOf(file.size) |-> <<h, k>>]
    BY <2>1 DEF IsPrefixOf
  <2>3. file.size \in 0 .. HostSize[h]
    <3>1. HostSize[h] \in Int
      BY SfsAssumption
    <3>2. QED
      BY <1>2, <1>3, <2>2, <3>1
  <2>4. PICK s : s = file.size
    OBVIOUS
  <2>5. file = [size |-> s, chunks |-> [k \in 1 .. ChunksOf(s) |-> <<h, k>>]]
    BY <1>4, <2>2, <2>4
  <2>6. s \in 0 .. HostSize[h]
    BY <2>3, <2>4
  <2>7. file = Cut(h, s)
    BY <2>5
  <2>. HIDE DEF Cut, nothing
  <2>8. file \in Cuts(h)
    BY <2>6, <2>7
  <2>. HIDE DEF Cuts
  <2>9. QED
    BY <1>5, <2>8
<1>8. file \in Beginnings
  BY <1>2, <1>6, <1>7, Zenon DEF FromHost
<1>9. QED
  BY <1>1, <1>2, <1>3, <1>8 DEF Shown

\* The path of a directory other than the root goes through the one that holds it.
ThroughHolder(n, b, h, p) ==
    \E g, y : y \in Labels /\ g \in Seq(Labels) /\ h = Longer(g, y) /\ <<g, p>> \in PathsOn(n, b)

LEMMA HolderPath ==
    ASSUME NEW n, NEW b, NEW x, NEW t, NEW m, DiskOK(n, b, x, t, m, {}),
           NEW h, NEW d, <<h, d>> \in PathsOn(n, b), d # SFS_ROOT_LOCATION, NEW p \in DirsIn(n), Holds(n, b, p, d)
    PROVE  ThroughHolder(n, b, h, p)
<1> DEFINE L == LinksIn(n, b)
           Q == PathsOn(n, b)
<1>1. LinksOf(n, b, L) /\ Treelike(L) /\ Grown(Q, L)
  BY DiskWalked DEF Walked
<1>. HIDE DEF L, Q
<1>2. Comes(Q, L, h, d)
  BY <1>1, GrownPath DEF Q
<1>3. PICK g, e, y : By(Q, L, h, d, g, e, y)
  BY <1>2 DEF Comes
<1>4. <<g, e>> \in Q /\ <<e, y, d>> \in L /\ g \in Seq(Labels) /\ y \in Labels /\ h = Longer(g, y)
  BY <1>1, <1>3, ByIs
<1>5. PICK k \in Rows, j \in Columns : n[p].direct[k] # 0 /\ Gives(b, n[p].direct[k], j) /\ b[n[p].direct[k]][j].sfd_ino = d
  BY DEF Holds
<1>6. PICK z : z = b[n[p].direct[k]][j].sfd_name
  OBVIOUS
<1>7. IsLink(n, b, p, z, d)
  BY <1>5, <1>6 DEF IsLink, Gave, Used, Gives
<1>8. <<p, z, d>> \in L
  BY <1>1, <1>7 DEF LinksOf
<1>9. p = e
  BY <1>1, <1>4, <1>8 DEF Treelike
<1>10. QED
  BY <1>4, <1>9 DEF Q, ThroughHolder

LEMMA FrontLonger ==
    ASSUME NEW g \in Seq(Labels), NEW y \in Labels, NEW h, h = Longer(g, y)
    PROVE  h # << >> /\ SubSeq(h, 1, Len(h) - 1) = g
<1>1. /\ h \in Seq(Labels) /\ Len(h) = Len(g) + 1 /\ Len(g) \in Nat /\ h # << >>
      /\ \A k \in 1 .. Len(g) : h[k] = g[k]
  BY LongerIs
<1>2. SubSeq(h, 1, Len(h) - 1) = Start(h, Len(g))
  BY <1>1 DEF Start
<1>3. PICK s : s = Start(h, Len(g))
  OBVIOUS
<1>4. s \in Seq(Labels) /\ Len(s) = Len(g) /\ \A k \in 1 .. Len(g) : s[k] = h[k]
  BY <1>1, <1>3, StartIs
<1>5. \A k \in 1 .. Len(g) : s[k] = g[k]
  BY <1>1, <1>4
<1>6. s = g
  BY <1>4, <1>5, SeqEqual
<1>7. QED
  BY <1>1, <1>2, <1>3, <1>6

----------------------------------------------------------------------------
\* Each command is a step of the tree.

\* Nothing of the tree has changed.
Same == /\ VisibleTree' = VisibleTree /\ WorkingPath' = WorkingPath /\ (cwd' # SFS_NOINO) = (cwd # SFS_NOINO)

LEMMA SameWhen ==
    ASSUME Seen, Seen', UNCHANGED <<cwd, disk>>, ~Lost
    PROVE  Same /\ (Placed => Placed') /\ ~Lost'
<1>1. UNCHANGED <<cwd, bitmap, inode, dirBlock, indirect, data>>
  BY DEF disk
<1>2. ~Lost'
  BY LostKept
<1>3. VisibleTree' = VisibleTree /\ WorkingPath' = WorkingPath
  BY <1>1, <1>2 DEF Seen
<1>4. Placed => Placed'
  BY <1>1, <1>2 DEF Placed
<1>5. QED
  BY <1>1, <1>2, <1>3, <1>4 DEF Same

\* A refused command is a step of the tree too.
Steps == Tree!Next /\ Placed' /\ ~Lost'

LEMMA RefusedSteps ==
    ASSUME Seen, Seen', Placed, ~Lost, NEW message, Refuse(message)
    PROVE  Steps
<1>1. UNCHANGED <<cwd, disk>> /\ output' = NoFile
  BY DEF Refuse, Done
<1>2. Same /\ Placed' /\ ~Lost'
  BY <1>1, SameWhen
<1>3. Tree!Refuse /\ VisibleTree' = VisibleTree
  BY <1>1, <1>2 DEF Tree!Refuse, Same
<1>4. QED
  BY <1>2, <1>3 DEF Tree!Next, Steps

LEMMA NoRoomSteps ==
    ASSUME Seen, Seen', Placed, ~Lost, NEW n, NoRoom(n)
    PROVE  Steps
<1>1. UNCHANGED <<cwd, disk>> /\ output' = NoFile
  BY DEF NoRoom, Refuse, RefuseForRoom, Done
<1>2. Same /\ Placed' /\ ~Lost'
  BY <1>1, SameWhen
<1>3. Tree!Refuse /\ VisibleTree' = VisibleTree
  BY <1>1, <1>2 DEF Tree!Refuse, Same
<1>4. QED
  BY <1>2, <1>3 DEF Tree!Next, Steps

\* A directory of the same disk is entered.
Goes(h) ==
    /\ UNCHANGED disk /\ output' = NoFile
    /\ cwd' \in DirsIn(inode) /\ <<h, cwd'>> \in PathsOn(inode, dirBlock)

LEMMA GoesTo ==
    ASSUME IndInv, Seen, Seen', ~Lost, NEW h, Goes(h)
    PROVE  Tree!Go(h) /\ VisibleTree' = VisibleTree /\ Placed' /\ ~Lost'
<1>1. UNCHANGED <<bitmap, inode, dirBlock, indirect, data>> /\ output' = NoFile
  BY DEF Goes, disk
<1>2. ~Lost' /\ DiskOK(inode, dirBlock, indirect, data, bitmap, {})
  BY LostKept DEF Goes, IndInv
<1>3. PlaceOn(inode, dirBlock, cwd') = h
  BY <1>2, PlaceIs DEF Goes
<1>4. VisibleTree' = VisibleTree /\ WorkingPath' = h
  BY <1>1, <1>2, <1>3 DEF Seen
<1>5. Placed'
  BY <1>1 DEF Placed, Goes
<1>6. QED
  BY <1>1, <1>2, <1>4, <1>5 DEF Tree!Go

LEMMA RootThere ==
    ASSUME DiskOK(inode, dirBlock, indirect, data, bitmap, {})
    PROVE  << << >>, SFS_ROOT_LOCATION>> \in PathsOn(inode, dirBlock) /\ SFS_ROOT_LOCATION \in DirsIn(inode)
<1>1. Walked(inode, dirBlock, LinksIn(inode, dirBlock), PathsOn(inode, dirBlock))
  BY DiskWalked
<1>2. QED
  BY <1>1 DEF Walked, Complete, DiskOK, Kinds

LEMMA MountSteps ==
    ASSUME IndInv, Seen, Seen', Placed, ~Lost, Mount \/ CdRoot
    PROVE  Steps
<1>1. UNCHANGED disk /\ output' = NoFile /\ cwd' = SFS_ROOT_LOCATION
  BY DEF Mount, CdRoot, Done
<1>3. DiskOK(inode, dirBlock, indirect, data, bitmap, {})
  BY DEF IndInv
<1>4. Goes(<< >>)
  BY <1>1, <1>3, RootThere DEF Goes
<1>5. Tree!Go(<< >>) /\ VisibleTree' = VisibleTree /\ Placed' /\ ~Lost'
  BY <1>4, GoesTo
<1>6. CASE Mount
  <2>1. (cwd' # SFS_NOINO) = TRUE
    BY <1>1 DEF SFS_ROOT_LOCATION, SFS_NOINO
  <2>2. Tree!Mount
    BY <1>5, <2>1 DEF Tree!Mount, Tree!Root
  <2>3. QED
    BY <1>5, <2>2 DEF Tree!Next, Steps
<1>7. CASE CdRoot
  <2>1. cwd' # SFS_NOINO /\ cwd # SFS_NOINO
    BY <1>1, <1>7 DEF CdRoot, Mounted, SFS_ROOT_LOCATION, SFS_NOINO
  <2>2. Tree!GoRoot
    BY <1>5, <2>1 DEF Tree!GoRoot, Tree!Root
  <2>3. QED
    BY <1>5, <2>1, <2>2 DEF Tree!Next, Steps
<1>8. QED
  BY <1>6, <1>7

LEMMA UmountSteps ==
    ASSUME Seen, Seen', ~Lost, Umount
    PROVE  Steps
<1>1. UNCHANGED <<bitmap, inode, dirBlock, indirect, data>> /\ output' = NoFile /\ cwd' = SFS_NOINO
  BY DEF Umount, Done, disk
<1>2. ~Lost'
  BY <1>1, LostKept DEF disk
<1>3. PlaceOn(inode, dirBlock, cwd') = << >>
  BY <1>1 DEF PlaceOn
<1>4. VisibleTree' = VisibleTree /\ WorkingPath' = << >>
  BY <1>1, <1>2, <1>3 DEF Seen
<1>5. Tree!Unmount
  BY <1>1, <1>4 DEF Tree!Unmount, Tree!Go, Tree!Root
<1>6. QED
  BY <1>1, <1>2, <1>4, <1>5 DEF Tree!Next, Steps, Placed

LEMMA CdSteps ==
    ASSUME IndInv, IndInv', Seen, Seen', Placed, ~Lost,
           NEW path \in Paths, Cd(path)
    PROVE  Steps
<1>1. CASE \E message : Refuse(message)
  BY <1>1, RefusedSteps
<1>2. CASE Exists(path) /\ ~IsFile(path) /\ cwd' = Ino(path) /\ Done /\ UNCHANGED disk
  <2>1. PICK h : AtPath(h)
    BY AtSomePath DEF Cd
  <2>2. UNCHANGED disk /\ output' = NoFile /\ cwd' = Ino(path)
    BY <1>2 DEF Done
  <2>3. Sound /\ <<h, cwd>> \in PathsOn(inode, dirBlock) /\ DiskOK(inode, dirBlock, indirect, data, bitmap, {})
    BY <2>1 DEF AtPath, Sound
  <2>4. cwd' \in DirsIn(inode) /\ cwd' # SFS_NOINO
    <3>1. DiskFacts(inode, dirBlock, indirect, data, bitmap)
      BY <2>3, OnDisk
    <3>2. cwd' \in DirsIn(inode)
      BY <1>2, <2>3, NamedInode
    <3>3. QED
      BY <3>1, <3>2 DEF DiskFacts, DirsIn, SFS_NOINO
  <2>5. cwd # SFS_NOINO
    BY DEF Cd, Mounted
  <2>6. WorkingPath = h /\ VisibleTree = TreeOn(inode, dirBlock, indirect, data)
    BY <2>1, <2>5, HereIs
  <2>7. CASE path \in Names
    <3>1. <<Longer(h, path), cwd'>> \in PathsOn(inode, dirBlock)
      BY <1>2, <2>1, <2>2, <2>7, There
    <3>2. Goes(Longer(h, path))
      BY <2>2, <2>4, <3>1 DEF Goes
    <3>3. Tree!Go(Longer(h, path)) /\ VisibleTree' = VisibleTree /\ Placed' /\ ~Lost'
      BY <3>2, GoesTo
    <3>4. Shown(inode, indirect, data, cwd') = ADirectory
      BY <2>4 DEF Shown, DirsIn
    <3>5. <<Longer(h, path), ADirectory>> \in VisibleTree
      BY <2>3, <2>6, <3>1, <3>4, TreeHas
    <3>6. Tree!Enter(path)
      BY <2>4, <2>5, <2>6, <3>3, <3>5 DEF Tree!Enter, Tree!Path, Tree!Go, Longer
    <3>7. QED
      BY <2>5, <2>7, <3>3, <3>6 DEF Tree!Next, Steps
  <2>8. CASE path \in Dots
    <3>1. PICK k, j : FoundAt(path, k, j)
      BY <1>2, FoundName
    <3>2. /\ k \in Rows /\ j \in Columns /\ Used(inode, dirBlock, cwd, k, j)
          /\ dirBlock[inode[cwd].direct[k]][j].sfd_name = path
          /\ cwd' = dirBlock[inode[cwd].direct[k]][j].sfd_ino
      BY <2>2, <3>1 DEF FoundAt
    <3>3. \/ path = "." /\ cwd' = cwd
          \/ path = ".." /\ cwd = SFS_ROOT_LOCATION /\ cwd' = cwd
          \/ path = ".." /\ cwd # SFS_ROOT_LOCATION /\ Holds(inode, dirBlock, cwd', cwd)
      BY <2>3, <2>8, <3>2, DotNames DEF Sound
    <3>4. CASE cwd' = cwd
      <4>1. UNCHANGED <<cwd, disk>>
        BY <2>2, <3>4
      <4>2. Same /\ Placed' /\ ~Lost'
        BY <4>1, SameWhen
      <4>3. Tree!Refuse /\ VisibleTree' = VisibleTree
        BY <2>2, <4>2 DEF Tree!Refuse, Same
      <4>4. QED
        BY <4>2, <4>3 DEF Tree!Next, Steps
    <3>5. CASE path = ".." /\ cwd # SFS_ROOT_LOCATION /\ Holds(inode, dirBlock, cwd', cwd)
      <4>1. PICK g, x : x \in Labels /\ g \in Seq(Labels) /\ h = Longer(g, x) /\ <<g, cwd'>> \in PathsOn(inode, dirBlock)
        <5>1. PICK d : d = cwd'
          OBVIOUS
        <5>2. Holds(inode, dirBlock, d, cwd) /\ d \in DirsIn(inode)
          BY <2>4, <3>5, <5>1
        <5>3. ThroughHolder(inode, dirBlock, h, d)
          BY <2>3, <3>5, <5>2, HolderPath
        <5>4. QED
          BY <5>1, <5>3 DEF ThroughHolder
      <4>2. Goes(g)
        BY <2>2, <2>4, <4>1 DEF Goes
      <4>3. Tree!Go(g) /\ VisibleTree' = VisibleTree /\ Placed' /\ ~Lost'
        BY <4>2, GoesTo
      <4>4. h # << >> /\ SubSeq(h, 1, Len(h) - 1) = g
        BY <4>1, FrontLonger
      <4>5. Tree!Leave
        BY <2>4, <2>5, <2>6, <4>3, <4>4 DEF Tree!Leave, Tree!Root
      <4>6. QED
        BY <2>5, <4>3, <4>5 DEF Tree!Next, Steps
    <3>6. QED
      BY <3>3, <3>4, <3>5
  <2>9. QED
    BY <2>7, <2>8 DEF Paths, Dots
<1>3. QED
  BY <1>1, <1>2 DEF Cd

\* The command's disk is well formed, the working directory where it was.
Stays(h) ==
    /\ AtPath(h) /\ ~Lost /\ cwd' = cwd /\ output' = NoFile
    /\ DiskOK(inode', dirBlock', indirect', data', bitmap', {})

\* No link comes back to where it started: the tree is not lost.
LEMMA StillTree ==
    ASSUME DiskOK(inode, dirBlock, indirect, data, bitmap, {}), ~Lost,
           DiskOK(inode', dirBlock', indirect', data', bitmap', {}), Apart(inode, dirBlock, inode', dirBlock')
    PROVE  ~Lost'
<1>1. SFS_ROOT_LOCATION \in bitmap'
  BY DEF DiskOK, Kinds, DirsIn
<1>2. SUFFICES ASSUME NEW l \in Links', NEW k \in Links', l[1] = k[3], l[3] = k[1]
               PROVE  FALSE
  BY <1>1 DEF Lost, RootLost, DotRenamed
<1>3. LinksOf(inode, dirBlock, Links)
  BY LinksAre, LinksInAre
<1>4. LinksOf(inode', dirBlock', Links')
  BY LinksAreNext, LinksInAre
<1>5. PICK d, x, i : l = <<d, x, i>> /\ IsLink(inode', dirBlock', d, x, i)
  BY <1>4 DEF LinksOf, Triples
<1>6. PICK e, y, j : k = <<e, y, j>> /\ IsLink(inode', dirBlock', e, y, j)
  BY <1>4 DEF LinksOf, Triples
<1>7. e = i /\ j = d
  BY <1>2, <1>5, <1>6
<1>8. (\E z : IsLink(inode, dirBlock, d, z, i)) /\ (\E z : IsLink(inode, dirBlock, i, z, d))
  BY <1>5, <1>6, <1>7 DEF Apart
<1>9. PICK z, w : IsLink(inode, dirBlock, d, z, i) /\ IsLink(inode, dirBlock, i, w, d)
  BY <1>8
<1>10. PICK f, g : f = <<d, z, i>> /\ g = <<i, w, d>>
  OBVIOUS
<1>11. f \in Links /\ g \in Links /\ f[1] = g[3] /\ f[3] = g[1]
  BY <1>3, <1>9, <1>10 DEF LinksOf
<1>12. QED
  BY <1>11 DEF Lost, DotRenamed

LEMMA StaysHere ==
    ASSUME Seen, Seen', NEW h, Stays(h), <<h, cwd>> \in PathsOn(inode', dirBlock'),
           Apart(inode, dirBlock, inode', dirBlock')
    PROVE  /\ Placed' /\ ~Lost' /\ WorkingPath = h /\ WorkingPath' = h
           /\ VisibleTree = TreeOn(inode, dirBlock, indirect, data)
           /\ VisibleTree' = TreeOn(inode', dirBlock', indirect', data')
           /\ cwd # SFS_NOINO /\ cwd' # SFS_NOINO
<1>1. WorkingPath = h /\ VisibleTree = TreeOn(inode, dirBlock, indirect, data)
  BY HereIs DEF Stays
<1>2. DiskOK(inode', dirBlock', indirect', data', bitmap', {}) /\ cwd' = cwd
  BY DEF Stays
<1>3. PlaceOn(inode', dirBlock', cwd) = h
  BY <1>2, PlaceIs
<1>4. ~Lost'
  BY StillTree DEF Stays, AtPath, Sound
<1>5. WorkingPath' = h /\ VisibleTree' = TreeOn(inode', dirBlock', indirect', data')
  BY <1>4, <1>2, <1>3 DEF Seen, Stays
<1>6. Placed'
  BY <1>2 DEF Placed
<1>7. cwd # SFS_NOINO
  <2>1. DiskFacts(inode, dirBlock, indirect, data, bitmap) /\ cwd \in DirsIn(inode)
    BY OnDisk DEF Stays, AtPath, Sound
  <2>2. QED
    BY <2>1 DEF DiskFacts, DirsIn, SFS_NOINO
<1>8. QED
  BY <1>4, <1>1, <1>2, <1>5, <1>6, <1>7

\* What a command leaves alone that changes the tree.
Changes ==
    /\ WorkingPath' = WorkingPath /\ (cwd' # SFS_NOINO) = (cwd # SFS_NOINO)
    /\ cwd # SFS_NOINO /\ output' = NoFile

LEMMA CreateSteps ==
    ASSUME Seen, Seen', NEW h, Stays(h), NEW path \in Names, ~Exists(path), NEW ino,
           Shows(inode', dirBlock', indirect', data', h, path, ino),
           Shown(inode', indirect', data', ino) \in Beginnings \cup {ADirectory}
    PROVE  Steps
<1>1. PICK c : c = Shown(inode', indirect', data', ino)
  OBVIOUS
<1>2. <<h, cwd>> \in PathsOn(inode', dirBlock') /\ Apart(inode, dirBlock, inode', dirBlock')
  BY DEF Shows, Stays, AtPath
<1>3. /\ Placed' /\ ~Lost' /\ WorkingPath = h /\ WorkingPath' = h
      /\ VisibleTree = TreeOn(inode, dirBlock, indirect, data)
      /\ VisibleTree' = TreeOn(inode', dirBlock', indirect', data')
      /\ cwd # SFS_NOINO /\ cwd' # SFS_NOINO
  BY <1>2, StaysHere
<1>4. VisibleTree' = VisibleTree \cup {<<Longer(h, path), c>>}
  BY <1>1, <1>3 DEF Shows
<1>5. \A e \in VisibleTree : e[1] # Longer(h, path)
  BY <1>3, NotThere DEF Stays
<1>6. Tree!Path(path) = Longer(h, path)
  BY <1>3 DEF Tree!Path, Longer
<1>7. ~Tree!Exists(path)
  BY <1>5, <1>6 DEF Tree!Exists
<1>8. PICK e : e = <<Longer(h, path), c>>
  OBVIOUS
<1>9. e[1] = Tree!Path(path) /\ e[2] \in Beginnings \cup {ADirectory} /\ e \in VisibleTree'
  BY <1>1, <1>4, <1>6, <1>8
<1>10. Tree!Create(path)
  BY <1>4, <1>7, <1>8, <1>9 DEF Tree!Create
<1>11. Changes
  BY <1>3 DEF Changes, Stays
<1>12. QED
  BY <1>3, <1>10, <1>11 DEF Tree!Next, Steps, Changes

LEMMA DeleteSteps ==
    ASSUME Seen, Seen', NEW h, Stays(h), NEW path \in Names, NEW ino, ino # cwd,
           Loses(inode', dirBlock', indirect', data', h, path, ino)
    PROVE  Steps
<1> DEFINE p == Longer(h, path)
           T == TreeOn(inode, dirBlock, indirect, data)
<1>1. PICK e : e = <<p, Shown(inode, indirect, data, ino)>>
  OBVIOUS
<1>2. DiskOK(inode, dirBlock, indirect, data, bitmap, {}) /\ <<h, cwd>> \in PathsOn(inode, dirBlock)
  BY DEF Stays, AtPath, Sound
<1>3. <<h, cwd>> \in PathsOn(inode', dirBlock') /\ Apart(inode, dirBlock, inode', dirBlock')
  BY <1>2 DEF Loses
<1>4. /\ Placed' /\ ~Lost' /\ WorkingPath = h /\ WorkingPath' = h
      /\ VisibleTree = T /\ VisibleTree' = TreeOn(inode', dirBlock', indirect', data')
      /\ cwd # SFS_NOINO /\ cwd' # SFS_NOINO
  BY <1>3, StaysHere
<1>5. VisibleTree' = VisibleTree \ {e}
  BY <1>1, <1>4 DEF Loses
<1>6. e \in T /\ e[1] = p
  BY <1>1, <1>2, TreeHas DEF Loses
<1>7. p \in Seq(Labels)
  BY <1>2, ReachedInode DEF Loses
<1>8. ASSUME NEW f \in T, Tree!Within(f[1], e[1])
      PROVE  f = e
  <2>1. SeenAt(inode, dirBlock, indirect, data, f)
    BY <1>2, InTree
  <2>2. PICK q, i : <<q, i>> \in PathsOn(inode, dirBlock) /\ f = <<q, Shown(inode, indirect, data, i)>>
    BY <2>1 DEF SeenAt
  <2>3. q \in Seq(Labels) /\ f[1] = q
    BY <1>2, <2>2, ReachedInode
  <2>4. Under(q, p)
    BY <1>6, <1>8, <2>3 DEF Tree!Within, Under
  <2>5. Begins(p, f[1])
    BY <1>7, <2>3, <2>4, UnderIs
  <2>6. QED
    BY <1>1, <2>5 DEF Loses
<1>9. Tree!Path(path) = p
  BY <1>4 DEF Tree!Path, Longer
<1>10. Tree!Delete(path)
  BY <1>4, <1>5, <1>6, <1>8, <1>9 DEF Tree!Delete
<1>11. Changes
  BY <1>4 DEF Changes, Stays
<1>12. QED
  BY <1>4, <1>10, <1>11 DEF Tree!Next, Steps, Changes

LEMMA RenameSteps ==
    ASSUME Seen, Seen', NEW h, Stays(h), NEW src \in Names, NEW dst \in Names, Exists(src), ~Exists(dst),
           inode' = inode, indirect' = indirect, data' = data, NameMoves(dirBlock', h, src, dst)
    PROVE  Steps
<1> DEFINE T == TreeOn(inode, dirBlock, indirect, data)
<1>1. DiskOK(inode, dirBlock, indirect, data, bitmap, {}) /\ <<h, cwd>> \in PathsOn(inode, dirBlock)
  BY DEF Stays, AtPath, Sound
<1>2. h \in Seq(Labels) /\ src \in Labels /\ dst \in Labels
  BY <1>1, ReachedInode DEF Labels
<1>3. MovedPath(h, h, src, dst) = h
  BY <1>2, MovedAt
<1>4. <<h, cwd>> \in PathsOn(inode', dirBlock')
  <2>1. PICK r : r = <<h, cwd>>
    OBVIOUS
  <2>2. <<MovedPath(r[1], h, src, dst), r[2]>> = <<h, cwd>> /\ r \in PathsOn(inode, dirBlock)
    BY <1>1, <1>3, <2>1
  <2>3. QED
    BY <2>2 DEF NameMoves
<1>5. Apart(inode, dirBlock, inode', dirBlock')
  BY DEF NameMoves
<1>6. /\ Placed' /\ ~Lost' /\ WorkingPath = h /\ WorkingPath' = h
      /\ VisibleTree = T /\ VisibleTree' = TreeOn(inode', dirBlock', indirect', data')
      /\ cwd # SFS_NOINO /\ cwd' # SFS_NOINO
  BY <1>5, <1>4, StaysHere
<1>7. Tree!Path(src) = Longer(h, src) /\ Tree!Path(dst) = Longer(h, dst)
  BY <1>6 DEF Tree!Path, Longer
<1>8. ~Tree!Exists(dst)
  <2>1. \A e \in VisibleTree : e[1] # Longer(h, dst)
    BY <1>6, NotThere DEF Stays
  <2>2. QED
    BY <1>7, <2>1 DEF Tree!Exists
<1>9. Tree!Exists(src)
  <2>1. <<Longer(h, src), Ino(src)>> \in PathsOn(inode, dirBlock)
    BY There DEF Stays
  <2>2. <<Longer(h, src), Shown(inode, indirect, data, Ino(src))>> \in VisibleTree
    BY <1>1, <1>6, <2>1, TreeHas
  <2>3. QED
    BY <1>7, <2>2 DEF Tree!Exists
<1>10. ASSUME NEW p
      PROVE  Tree!Moved(p, Tree!Path(src), Tree!Path(dst)) = MovedPath(p, h, src, dst)
  BY <1>7 DEF Tree!Moved, Tree!Within, Under, MovedPath
<1>11. VisibleTree' = {<<MovedPath(e[1], h, src, dst), e[2]>> : e \in VisibleTree}
  BY <1>6 DEF NameMoves
<1>12. VisibleTree' = {<<Tree!Moved(e[1], Tree!Path(src), Tree!Path(dst)), e[2]>> : e \in VisibleTree}
  <2>. HIDE DEF T
  <2>1. QED
    BY <1>10, <1>11
<1>13. Tree!Rename(src, dst)
  BY <1>8, <1>9, <1>12 DEF Tree!Rename
<1>14. Changes
  BY <1>6 DEF Changes, Stays
<1>15. QED
  BY <1>6, <1>13, <1>14 DEF Tree!Next, Steps, Changes

LEMMA CpoutSteps ==
    ASSUME IndInv, Seen, Seen', Placed, ~Lost,
           NEW path \in Names, Cpout(path)
    PROVE  Steps
<1>1. CASE \E message : Refuse(message)
  BY <1>1, RefusedSteps
<1>2. CASE /\ Exists(path) /\ IsFile(path)
           /\ output' = Content(Ino(path)) /\ lacking' = 0 /\ UNCHANGED <<cwd, disk>>
  <2>1. PICK h : AtPath(h)
    BY AtSomePath DEF Cpout
  <2>2. cwd # SFS_NOINO /\ Sound /\ DiskOK(inode, dirBlock, indirect, data, bitmap, {})
    BY <2>1 DEF Cpout, Mounted, AtPath, Sound
  <2>3. WorkingPath = h /\ VisibleTree = TreeOn(inode, dirBlock, indirect, data)
    BY <2>1, <2>2, HereIs
  <2>4. Same /\ Placed' /\ ~Lost'
    BY <1>2, SameWhen
  <2>5. PICK i : i = Ino(path)
    OBVIOUS
  <2>6. <<Longer(h, path), i>> \in PathsOn(inode, dirBlock)
    BY <1>2, <2>1, <2>5, There
  <2>7. i \in FilesIn(inode)
    BY <1>2, <2>2, <2>5, NamedInode
  <2>8. output' = ContentIn(inode, indirect, data, i)
    BY <1>2, <2>5 DEF Content, ContentIn, ContentOf, FileBlocks, BlocksIn
  <2>9. output' = Shown(inode, indirect, data, i) /\ output'.size \in Nat
    BY <2>2, <2>7, <2>8, FileBegins
  <2>10. output' # NoFile /\ output' # ADirectory
    BY <2>9 DEF NoFile, ADirectory
  <2>11. <<Longer(h, path), output'>> \in VisibleTree
    BY <2>2, <2>3, <2>6, <2>9, TreeHas
  <2>12. Tree!Path(path) = Longer(h, path)
    BY <2>3 DEF Tree!Path, Longer
  <2>13. Tree!CopyOut(path)
    BY <2>4, <2>10, <2>11, <2>12 DEF Tree!CopyOut, Same
  <2>14. QED
    BY <2>2, <2>4, <2>13 DEF Tree!Next, Steps, Same
<1>3. QED
  BY <1>1, <1>2 DEF Cpout

LEMMA TouchSteps ==
    ASSUME IndInv, IndInv', Seen, Seen', Placed, ~Lost,
           NEW path \in Names, Touch(path)
    PROVE  Steps
<1>1. CASE Refuse("Already exists")
  BY <1>1, RefusedSteps
<1>2. CASE NoRoom(1)
  BY <1>2, NoRoomSteps
<1>3. CASE ~Refuse("Already exists") /\ ~NoRoom(1)
  <2> DEFINE s == Lowest(Need(1))
             ino == s[1]
             c == Last(s)
             n2 == Put(InodesEntered(c), ino, NewFile)
             b2 == DirBlocksEntered(Entry(ino, path), c)
  <2>1. /\ ~Exists(path) /\ Room(1)
        /\ inode' = n2 /\ dirBlock' = b2 /\ indirect' = indirect /\ data' = data
        /\ bitmap' = bitmap \cup ToSet(s) /\ Done /\ cwd' = cwd
    BY <1>3, Zenon DEF Touch
  <2>2. PICK h : AtPath(h)
    BY AtSomePath DEF Touch
  <2>3. ino \in Blocks \ bitmap /\ (NeedsBlock => c \in Blocks \ bitmap)
    BY <2>1, BlocksForFile
  <2>4. DiskOK(n2, b2, indirect, data, bitmap \cup ToSet(s), {})
    BY <2>1, <2>2, TouchOK DEF AtPath
  <2>5. Stays(h)
    BY <2>1, <2>2, <2>4 DEF Stays, Done
  <2>6. PICK r : r = NewFile /\ r.type = "file"
    BY NewFileIs
  <2>7. n2 = Put(InodesEntered(c), ino, r) /\ ~DirectoryFull
    BY <2>1, <2>6 DEF Room
  <2>8. ino \in FilesIn(n2)
    BY <2>6 DEF Put, FilesIn
  <2>. HIDE DEF s, ino, c, n2
  <2>9. Shows(n2, b2, indirect, data, h, path, ino)
    BY <2>2, <2>3, <2>4, <2>6, <2>7, FileShows DEF AtPath
  <2>. HIDE DEF b2
  <2>10. Shown(n2, indirect, data, ino) \in Beginnings
    BY <2>4, <2>8, FileBegins
  <2>11. QED
    BY <2>1, <2>5, <2>9, <2>10, CreateSteps
<1>4. QED
  BY <1>1, <1>2, <1>3

LEMMA MkdirSteps ==
    ASSUME IndInv, IndInv', Seen, Seen', Placed, ~Lost,
           NEW path \in Names, Mkdir(path)
    PROVE  Steps
<1>1. CASE Refuse("Already exists")
  BY <1>1, RefusedSteps
<1>2. CASE NoRoom(2)
  BY <1>2, NoRoomSteps
<1>3. CASE ~Refuse("Already exists") /\ ~NoRoom(2)
  <2> DEFINE s == Lowest(Need(2))
             c == s[1]
             ino == s[Need(1)]
             first == s[Need(2)]
             n2 == Put(InodesEntered(c), ino, NewDir(first))
             b2 == Put(DirBlocksEntered(Entry(ino, path), c), first, DotBlock(ino, cwd))
  <2>1. /\ ~Exists(path) /\ Room(2)
        /\ inode' = n2 /\ dirBlock' = b2 /\ indirect' = indirect /\ data' = data
        /\ bitmap' = bitmap \cup ToSet(s) /\ Done /\ cwd' = cwd
    BY <1>3, Zenon DEF Mkdir, NewDir, DotBlock
  <2>2. PICK h : AtPath(h)
    BY AtSomePath DEF Mkdir
  <2>3. /\ ino \in Blocks \ bitmap /\ first \in Blocks \ bitmap /\ c \in Blocks \ bitmap
        /\ NeedsBlock => c # first
    BY <2>1, BlocksForDir
  <2>4. DiskOK(n2, b2, indirect, data, bitmap \cup ToSet(s), {})
    BY <2>1, <2>2, MkdirOK DEF AtPath
  <2>5. Stays(h)
    BY <2>1, <2>2, <2>4 DEF Stays, Done
  <2>6. n2[ino] = NewDir(first) /\ NewDir(first).type = "dir"
    BY <2>3, NewDirIs DEF Put
  <2>7. first \in Blocks \ GrownMap(c) /\ ~DirectoryFull
    BY <2>1, <2>3 DEF GrownMap, Room
  <2>8. n2 = Put(InodesEntered(c), ino, NewDir(first))
        /\ b2 = Put(DirBlocksEntered(Entry(ino, path), c), first, DotBlock(ino, cwd))
    OBVIOUS
  <2>. HIDE DEF s, ino, c, first, n2, b2
  <2>9. Shows(n2, b2, indirect, data, h, path, ino)
    BY <2>2, <2>3, <2>4, <2>7, <2>8, DirShows DEF AtPath
  <2>10. Shown(n2, indirect, data, ino) = ADirectory
    BY <2>6 DEF Shown
  <2>11. QED
    BY <2>1, <2>5, <2>9, <2>10, CreateSteps
<1>4. QED
  BY <1>1, <1>2, <1>3

LEMMA CpinSteps ==
    ASSUME IndInv, IndInv', Seen, Seen', Placed, ~Lost,
           NEW path \in Names, NEW hf \in HostFiles, Cpin(path, hf)
    PROVE  Steps
<1> DEFINE file == HostFile(hf)
           e == Lowest(Need(1))
           c == e[1]
           ino == Last(e)
           taken == bitmap \cup ToSet(e)
           s == Scan(taken, Wanted(file.size))
           r == CopiedInode(file, s)
           n2 == Put(InodesEntered(c), ino, r)
           b2 == DirBlocksEntered(Entry(ino, path), c)
           x2 == CopiedIndirect(s)
           t2 == CopiedData(file, s)
           X == TableOf(s)
           T == ToSet(Stored(s))
<1>1. CASE \E message : Refuse(message)
  BY <1>1, RefusedSteps
<1>2. CASE NoRoom(1)
  BY <1>2, NoRoomSteps
<1>3. CASE ~(\E message : Refuse(message)) /\ ~NoRoom(1)
  <2>1. /\ ~Exists(path) /\ Room(1) /\ file # NoFile
        /\ inode' = n2 /\ dirBlock' = b2 /\ indirect' = x2 /\ data' = t2
        /\ bitmap' = Marked(e, s) /\ cwd' = cwd /\ output' = NoFile
    BY <1>3 DEF Cpin
  <2>2. PICK h : AtPath(h)
    BY AtSomePath DEF Cpin
  <2>3. ino \in Blocks \ bitmap /\ (NeedsBlock => c \in Blocks \ bitmap)
    BY <2>1, BlocksForFile
  <2>4. DiskOK(n2, b2, x2, t2, Marked(e, s), {})
    BY <2>1, <2>2, CpinOK DEF AtPath
  <2>5. Stays(h)
    BY <2>1, <2>2, <2>4 DEF Stays
  <2>6. Untaken(taken, Wanted(file.size), s)
    <3>1. Wanted(file.size) \in Nat
      BY <2>1, HostFileIs, WantedIs
    <3>2. QED
      BY <3>1, ScanUntaken
  <2>7. bitmap \subseteq taken
    OBVIOUS
  <2>8. /\ r = CopiedInode(file, s) /\ x2 = CopiedIndirect(s) /\ t2 = CopiedData(file, s)
        /\ X = TableOf(s) /\ T = ToSet(Stored(s)) /\ file = HostFile(hf)
        /\ n2 = Put(InodesEntered(c), ino, r)
    OBVIOUS
  <2>9. ~DirectoryFull
    BY <2>1 DEF Room
  <2>. HIDE DEF taken, c, r, x2, t2, X, T, s, file, e, ino
  <2>10. Copies(hf, file, taken, s, r, X, T, x2, t2)
    BY <2>1, <2>6, <2>7, <2>8 DEF Copies
  <2>11. Stores(indirect, data, ino, r, X, T, x2, t2)
    BY <2>2, <2>10, CopyStores DEF AtPath
  <2>12. r.type = "file" /\ (\A f \in DOMAIN indirect : x2[f] = indirect[f]) /\ \A f \in DOMAIN data : t2[f] = data[f]
    BY <2>11 DEF Stores
  <2>13. ino \in FilesIn(n2)
    BY <2>12 DEF Put, FilesIn
  <2>. HIDE DEF n2
  <2>14. Shows(n2, b2, x2, t2, h, path, ino)
    BY <2>2, <2>3, <2>4, <2>8, <2>9, <2>12, FileShows DEF AtPath
  <2>. HIDE DEF b2
  <2>15. Shown(n2, x2, t2, ino) \in Beginnings
    BY <2>4, <2>13, FileBegins
  <2>16. QED
    BY <2>1, <2>5, <2>14, <2>15, CreateSteps
<1>4. QED
  BY <1>1, <1>2, <1>3

LEMMA RmSteps ==
    ASSUME IndInv, IndInv', Seen, Seen', Placed, ~Lost,
           NEW path \in Paths, Rm(path)
    PROVE  Steps
<1>1. CASE \E message : Refuse(message)
  BY <1>1, RefusedSteps
<1>2. CASE /\ Exists(path) /\ IsFile(path)
           /\ Release(path, RmBlocks(Ino(path))) /\ Done /\ UNCHANGED cwd
  <2>1. PICK h : AtPath(h)
    BY AtSomePath DEF Rm
  <2>2. Stays(h)
    <3>1. DiskOK(inode', dirBlock', indirect', data', bitmap', {})
      BY <1>2, <2>1, RmOK DEF AtPath
    <3>2. QED
      BY <1>2, <2>1, <3>1 DEF Stays, Done
  <2>3. /\ path \in Names /\ Ino(path) # cwd
        /\ Loses(inode', dirBlock', indirect', data', h, path, Ino(path))
    BY <1>2, <2>1, RmShows DEF AtPath
  <2>4. QED
    BY <2>2, <2>3, DeleteSteps
<1>3. QED
  BY <1>1, <1>2 DEF Rm

LEMMA RmdirSteps ==
    ASSUME IndInv, IndInv', Seen, Seen', Placed, ~Lost,
           NEW path \in Paths, Rmdir(path)
    PROVE  Steps \/ (path = ".." /\ Lost')
<1>1. CASE \E message : Refuse(message)
  BY <1>1, RefusedSteps
<1>2. CASE /\ path # "." /\ Exists(path) /\ ~IsFile(path) /\ ~HasEntries(Ino(path))
           /\ Release(path, RmdirBlocks(Ino(path))) /\ Done /\ UNCHANGED cwd
  <2>1. PICK h : AtPath(h)
    BY AtSomePath DEF Rmdir
  <2>2. Sound
    BY <2>1 DEF AtPath
  <2>3. CASE SFS_ROOT_LOCATION \in bitmap'
    <3>1. Stays(h)
      <4>1. DiskOK(inode', dirBlock', indirect', data', bitmap', {})
        BY <1>2, <2>2, <2>3, RmdirOK
      <4>2. QED
        BY <1>2, <2>1, <4>1 DEF Stays, Done
    <3>2. /\ path \in Names /\ Ino(path) # cwd
          /\ Loses(inode', dirBlock', indirect', data', h, path, Ino(path))
      BY <1>2, <2>1, <2>3, RmdirShows DEF AtPath
    <3>3. QED
      BY <3>1, <3>2, DeleteSteps
  <2>4. CASE SFS_ROOT_LOCATION \notin bitmap'
    <3>1. path \in Dots
      BY <1>2, <2>2, <2>4, RootReleased
    <3>2. Lost'
      BY <2>4 DEF Lost, RootLost
    <3>3. QED
      BY <1>2, <3>1, <3>2 DEF Dots
  <2>5. QED
    BY <2>3, <2>4
<1>3. QED
  BY <1>1, <1>2 DEF Rmdir

LEMMA MvSteps ==
    ASSUME IndInv, IndInv', Seen, Seen', Placed, ~Lost, NEW src \in Paths, NEW dst \in Paths, Mv(src, dst)
    PROVE  Steps \/ (src \in Dots /\ dst \in Names /\ Lost')
<1>1. CASE \E message : Refuse(message)
  BY <1>1, RefusedSteps
<1>2. CASE MvRenames(src, dst)
  <2>1. PICK h : AtPath(h)
    BY AtSomePath, Zenon DEF Mv
  <2>2. /\ cwd' = cwd /\ output' = NoFile /\ inode' = inode /\ indirect' = indirect /\ data' = data
        /\ bitmap' = bitmap
    BY <1>2, MvRenamesOnly
  <2>3. Sound /\ Exists(src) /\ ~Exists(dst)
    BY <1>2, <2>1, MvRenamesOnly DEF AtPath
  <2>4. dst \in Names
    BY <2>3, DotsFound DEF Paths, Dots
  <2>5. CASE src \in Names
    <3>1. PICK b2 : b2 = LET s == Slot(src)
                         IN  [dirBlock EXCEPT ![inode[cwd].direct[s[1]]][s[2]].sfd_name = dst]
      BY Zenon
    <3>2. NameMoves(b2, h, src, dst)
      BY <2>1, <2>3, <2>4, <2>5, <3>1, MvShows, Zenon DEF AtPath
    <3>3. NameMoves(dirBlock', h, src, dst)
      BY <1>2, <3>1, <3>2, Zenon DEF MvRenames
    <3>4. DiskOK(inode, dirBlock', indirect, data, bitmap, {})
      BY <1>2, <2>3, <2>4, <2>5, MvNameOK
    <3>5. Stays(h)
      BY <2>1, <2>2, <3>4 DEF Stays
    <3>6. QED
      BY <2>2, <2>3, <2>4, <2>5, <3>3, <3>5, RenameSteps
  <2>6. CASE src \in Dots
    <3>1. Lost'
      BY <1>2, <2>3, <2>4, <2>6, MvDotLoses
    <3>2. QED
      BY <2>4, <2>6, <3>1
  <2>7. QED
    BY <2>5, <2>6 DEF Paths, Dots
<1>3. QED
  BY <1>1, <1>2, Zenon DEF Mv, MvRenames

\* The commands that can lose the tree.
Breaks == Rmdir("..") \/ \E dst \in Names : Mv(".", dst) \/ Mv("..", dst)

LEMMA NextSteps ==
    ASSUME IndInv, IndInv', Seen, Seen', Placed, ~Lost, Next
    PROVE  Steps \/ (Breaks /\ Lost')
<1>1. CASE Mount \/ CdRoot
  BY <1>1, MountSteps
<1>2. CASE Umount
  BY <1>2, UmountSteps
<1>3. ASSUME NEW path \in Paths, Cd(path) \/ Rm(path)
      PROVE  Steps
  BY <1>3, CdSteps, RmSteps
<1>4. ASSUME NEW path \in Paths, Rmdir(path)
      PROVE  Steps \/ (Breaks /\ Lost')
  BY <1>4, RmdirSteps DEF Breaks
<1>5. ASSUME NEW src \in Paths, NEW dst \in Paths, Mv(src, dst)
      PROVE  Steps \/ (Breaks /\ Lost')
  <2>1. Steps \/ (src \in Dots /\ dst \in Names /\ Lost')
    BY <1>5, MvSteps
  <2>2. src \in Dots /\ dst \in Names => Breaks
    BY <1>5 DEF Breaks, Dots
  <2>3. QED
    BY <2>1, <2>2
<1>6. ASSUME NEW path \in Names, Touch(path) \/ Mkdir(path) \/ Cpout(path)
      PROVE  Steps
  BY <1>6, TouchSteps, MkdirSteps, CpoutSteps
<1>7. ASSUME NEW path \in Names, NEW h \in HostFiles, Cpin(path, h)
      PROVE  Steps
  BY <1>7, CpinSteps
<1>8. QED
  BY <1>1, <1>2, <1>3, <1>4, <1>5, <1>6, <1>7 DEF Next, Command

\* A formatted image shows the root only.
LEMMA InitTree == Init => Tree!Init
<1> SUFFICES ASSUME Init
             PROVE  Tree!Init
  OBVIOUS
<1> DEFINE Q == PathsOn(inode, dirBlock)
           L == LinksIn(inode, dirBlock)
           root == SFS_ROOT_LOCATION
<1>1. IndInv /\ Seen
  BY InitOK, SeenOK
<1>2. ~RootLost /\ cwd = SFS_NOINO /\ output = NoFile
  BY DEF Init, RootLost
<1>3. DiskOK(inode, dirBlock, indirect, data, bitmap, {})
  BY FormattedDisk
<1>4. DirsIn(inode) \subseteq {root} /\ inode[root].type = "dir" /\ inode[root].size <= 2
  <2>1. inode = Put(<< >>, root, NewDir(RootBlock))
    BY DEF Init, NewDir
  <2>2. NewDir(RootBlock).type = "dir" /\ NewDir(RootBlock).size = 2
    BY VolumeFacts, NewDirIs
  <2>3. DOMAIN inode = {root} /\ inode[root] = NewDir(RootBlock)
    BY <2>1 DEF Put
  <2>4. QED
    BY <2>2, <2>3 DEF DirsIn
<1>5. ASSUME NEW d, NEW x, NEW i
      PROVE  ~IsLink(inode, dirBlock, d, x, i)
  <2> SUFFICES ASSUME d \in DirsIn(inode), NEW k \in Rows, NEW j \in Columns, Gave(inode, dirBlock, d, k, j, x, i)
               PROVE  FALSE
    BY DEF IsLink
  <2>1. \A l \in Rows, g \in Columns : inode[d].direct[l] # 0 => ~Gives(dirBlock, inode[d].direct[l], g)
    BY <1>3, <1>4, OnlyDots
  <2>2. QED
    BY <2>1 DEF Gave, Used, Gives
<1>6. ~Lost
  <2>1. Links = L
    BY <1>3, LinksAre
  <2>2. \A t \in L : \E d, x, i : t = <<d, x, i>> /\ IsLink(inode, dirBlock, d, x, i)
    BY <1>3, LinksInAre DEF LinksOf, Triples
  <2>3. L = {}
    BY <1>5, <2>2
  <2>4. QED
    BY <1>2, <2>1, <2>3 DEF Lost, DotRenamed
<1>7. LinksOf(inode, dirBlock, L) /\ Grown(Q, L) /\ <<<< >>, root>> \in Q
  BY <1>3, DiskWalked DEF Walked, Complete
<1>. HIDE DEF Q, L, root
<1>8. ASSUME NEW r \in Q
      PROVE  r = <<<< >>, root>>
  <2>1. \E p, i : r = <<p, i>> /\ ((p = << >> /\ i = root) \/ Comes(Q, L, p, i))
    BY <1>7 DEF Grown, root
  <2>2. PICK p, i : r = <<p, i>> /\ ((p = << >> /\ i = root) \/ Comes(Q, L, p, i))
    BY <2>1
  <2>3. ~Comes(Q, L, p, i)
    BY <1>5, <1>7 DEF Comes, By, LinksOf
  <2>4. QED
    BY <2>2, <2>3
<1>9. Q = {<<<< >>, root>>}
  BY <1>7, <1>8
<1>10. TreeOn(inode, dirBlock, indirect, data) = {<<<< >>, ADirectory>>}
  <2>1. Shown(inode, indirect, data, root) = ADirectory
    BY <1>4 DEF Shown
  <2>2. TreeOn(inode, dirBlock, indirect, data) = {<<r[1], Shown(inode, indirect, data, r[2])>> : r \in Q}
    BY DEF TreeOn, Q
  <2>3. QED
    BY <1>9, <2>1, <2>2
<1>11. VisibleTree = {<<<< >>, ADirectory>>} /\ WorkingPath = << >>
  BY <1>6, <1>1, <1>2, <1>10 DEF Seen, PlaceOn
<1>12. QED
  BY <1>2, <1>11 DEF Tree!Init, Tree!Root

LEMMA SeenNext == IndInv' => Seen'
BY SeenOK, PTL

LEMMA PlacedStays ==
    ASSUME IndInv, IndInv', Placed, [Next]_vars
    PROVE  /\ Placed'
           /\ ~Lost => Steps \/ (Breaks /\ Lost') \/ UNCHANGED vars
<1>1. Seen /\ Seen'
  BY SeenOK, SeenNext
<1>2. CASE Lost
  <2>1. UNCHANGED disk
    BY <1>2 DEF Next, Command, Mount, Umount, vars
  <2>2. Lost'
    BY <1>2, <2>1, LostKept
  <2>3. QED
    BY <1>2, <2>2 DEF Placed
<1>3. CASE ~Lost /\ Next
  <2>1. Steps \/ (Breaks /\ Lost')
    BY <1>1, <1>3, NextSteps
  <2>2. Placed'
    BY <2>1 DEF Steps, Placed
  <2>3. QED
    BY <2>1, <2>2
<1>4. CASE ~Lost /\ UNCHANGED vars
  <2>1. UNCHANGED <<cwd, disk>>
    BY <1>4 DEF vars
  <2>2. QED
    BY <1>1, <1>4, <2>1, SameWhen
<1>5. QED
  BY <1>2, <1>3, <1>4

(***************************************************************************)
(* The commands implement a tree of names: what can be seen of the disk    *)
(* through names and contents changes only as NameTree says, with each     *)
(* command's blocks, map and directory entries behind it, until rmdir ..   *)
(* or mv of "." or ".." breaks the tree, and no other command breaks it.   *)
(***************************************************************************)
THEOREM NameTreeImplemented == Spec => ImplementsNameTree
<1>1. Init => Tree!Init /\ IndInv /\ Placed
  <2>1. Init => Placed
    BY DEF Init, Placed
  <2>2. QED
    BY <2>1, InitTree, InitOK
<1>2. IndInv /\ Placed /\ [Next]_vars => IndInv' /\ Placed'
  BY NextOK, PlacedStays
<1>3. IndInv /\ Placed /\ [Next]_vars =>
          [~Lost /\ <<disk, cwd, output>>' # <<disk, cwd, NoFile>> => IF Lost' THEN Breaks ELSE Tree!Next]_vars
  <2> SUFFICES ASSUME IndInv, Placed, [Next]_vars, ~Lost, ~UNCHANGED vars
               PROVE  IF Lost' THEN Breaks ELSE Tree!Next
    OBVIOUS
  <2>1. Steps \/ (Breaks /\ Lost')
    BY NextOK, PlacedStays
  <2>2. QED
    BY <2>1 DEF Steps
<1>4. QED
  BY <1>1, <1>2, <1>3, PTL DEF Spec, ImplementsNameTree, Breaks

=============================================================================
