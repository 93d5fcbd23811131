------------------------- MODULE InvertedVMProofs --------------------------
(***************************************************************************)
(* Theorems about InvertedVM, for every number of processes, frames and    *)
(* pages and traces of any length: the hash table and the frames agree, no *)
(* NULL pointer is followed, and the accesses add up.                      *)
(***************************************************************************)
EXTENDS InvertedVM, VMSimProofs

----------------------------------------------------------------------------
\* Chains of entries.

\* The pages of a chain are all different.
ChainOK(q) ==
    /\ q \in Seq(Entries)
    /\ \A i, j \in 1 .. Len(q) : q[i].page = q[j].page => i = j

LEMMA ChainSet ==
    ASSUME NEW q, ChainOK(q)
    PROVE  ToSet(q) = {q[i] : i \in 1 .. Len(q)} /\ ToSet(q) \subseteq Entries
<1>1. DOMAIN q = 1 .. Len(q) /\ \A i \in 1 .. Len(q) : q[i] \in Entries
  BY DEF ChainOK
<1>2. QED
  BY <1>1 DEF ToSet

LEMMA ChainPrepend ==
    ASSUME NEW q, ChainOK(q), NEW e \in Entries, \A d \in ToSet(q) : d.page # e.page
    PROVE  ChainOK(<<e>> \o q) /\ ToSet(<<e>> \o q) = ToSet(q) \cup {e}
<1> DEFINE r == <<e>> \o q
<1>1. q \in Seq(Entries) /\ Len(q) \in Nat
  BY DEF ChainOK
<1>2. /\ r \in Seq(Entries) /\ Len(r) = Len(q) + 1 /\ r[1] = e
      /\ \A i \in 1 .. Len(q) : r[i + 1] = q[i]
  BY <1>1
<1>. HIDE DEF r
<1>3. \A i \in 1 .. Len(r) : i = 1 \/ (i - 1 \in 1 .. Len(q) /\ r[i] = q[i - 1])
  <2>1. ASSUME NEW i \in 1 .. Len(r), i # 1
        PROVE  i - 1 \in 1 .. Len(q) /\ r[i] = q[i - 1]
    <3>1. i - 1 \in 1 .. Len(q) /\ (i - 1) + 1 = i
      BY <1>1, <1>2, <2>1
    <3>2. QED
      BY <1>2, <3>1
  <2>2. QED
    BY <2>1
<1>4. \A i \in 1 .. Len(q) : q[i] \in ToSet(q)
  BY <1>1 DEF ToSet
<1>5. ASSUME NEW i \in 1 .. Len(r), NEW j \in 1 .. Len(r), r[i].page = r[j].page
      PROVE  i = j
  <2>1. i # 1 /\ j # 1 => i - 1 = j - 1
    BY <1>3, <1>5 DEF ChainOK
  <2>2. i = 1 => j = 1
    BY <1>2, <1>3, <1>4, <1>5
  <2>3. j = 1 => i = 1
    BY <1>2, <1>3, <1>4, <1>5
  <2>4. QED
    BY <1>1, <1>2, <2>1, <2>2, <2>3
<1>6. ToSet(r) = ToSet(q) \cup {e}
  <2>1. DOMAIN r = 1 .. Len(q) + 1 /\ DOMAIN q = 1 .. Len(q)
    BY <1>1, <1>2
  <2>2. ASSUME NEW x \in ToSet(r) PROVE x \in ToSet(q) \cup {e}
    <3>1. PICK i \in 1 .. Len(r) : x = r[i]
      BY <1>2, <2>1 DEF ToSet
    <3>2. QED
      BY <1>2, <1>3, <1>4, <3>1
  <2>3. ASSUME NEW x \in ToSet(q) PROVE x \in ToSet(r)
    <3>1. PICK i \in 1 .. Len(q) : x = q[i]
      BY <2>1 DEF ToSet
    <3>2. i + 1 \in 1 .. Len(q) + 1 /\ r[i + 1] = x
      BY <1>1, <1>2, <3>1
    <3>3. QED
      BY <2>1, <3>2 DEF ToSet
  <2>4. e \in ToSet(r)
    <3>1. 1 \in 1 .. Len(q) + 1
      BY <1>1
    <3>2. QED
      BY <1>2, <2>1, <3>1 DEF ToSet
  <2>5. QED
    BY <2>2, <2>3, <2>4
<1>7. QED
  BY <1>2, <1>5, <1>6 DEF ChainOK, r

LEMMA ChainRemove ==
    ASSUME NEW q, ChainOK(q), NEW k \in 1 .. Len(q)
    PROVE  ChainOK(RemoveAt(q, k)) /\ ToSet(RemoveAt(q, k)) = ToSet(q) \ {q[k]}
<1> DEFINE r == RemoveAt(q, k)
           n == Len(q)
           from(j) == IF j < k THEN j ELSE j + 1
<1>1. q \in Seq(Entries) /\ n \in Nat /\ n = Len(q) /\ k \in 1 .. n
  BY DEF ChainOK
<1>2. /\ r \in Seq(Entries) /\ Len(r) = n - 1
      /\ \A j \in 1 .. n - 1 : r[j] = IF j < k THEN q[j] ELSE q[j + 1]
  BY <1>1, RemoveElement
<1>. HIDE DEF r
<1>3. \A j \in 1 .. n - 1 : r[j] = q[from(j)] /\ from(j) \in 1 .. n /\ from(j) # k
  BY <1>1, <1>2
<1>4. \A i, j \in 1 .. n - 1 : from(i) = from(j) => i = j
  OBVIOUS
<1>5. \A m \in 1 .. n : m # k => \E j \in 1 .. n - 1 : from(j) = m
  <2>1. ASSUME NEW m \in 1 .. n, m < k PROVE m \in 1 .. n - 1 /\ from(m) = m
    BY <1>1, <2>1
  <2>2. ASSUME NEW m \in 1 .. n, m > k PROVE m - 1 \in 1 .. n - 1 /\ from(m - 1) = m
    BY <1>1, <2>2
  <2>3. QED
    BY <1>1, <2>1, <2>2
<1>. HIDE DEF n, from
<1>6. \A i, j \in 1 .. n - 1 : r[i].page = r[j].page => i = j
  BY <1>1, <1>3, <1>4 DEF ChainOK
<1>7. \A m \in 1 .. n : q[m] = q[k] => m = k
  BY <1>1 DEF ChainOK
<1>8. DOMAIN r = 1 .. n - 1 /\ DOMAIN q = 1 .. n
  BY <1>1, <1>2
<1>9. \A x : x \in ToSet(r) <=> x \in ToSet(q) \ {q[k]}
  BY <1>3, <1>5, <1>7, <1>8 DEF ToSet
<1>10. QED
  BY <1>2, <1>6, <1>9 DEF ChainOK, r

----------------------------------------------------------------------------
\* The hash table.

Entry(page, f) == [page |-> page, phyMemid |-> f]

\* The entries of table are those of the frames of L, each in the bucket of its page.
HashOK(table, m, L) ==
    /\ table \in [Frames -> Seq(Entries)]
    /\ \A h \in Frames : ChainOK(table[h])
    /\ \A h \in Frames : \A e \in ToSet(table[h]) :
          e.phyMemid \in L /\ m[e.phyMemid] = e.page /\ hashIndex(e.page) = h
    /\ \A f \in L : m[f] \in Pages /\ Entry(m[f], f) \in ToSet(table[hashIndex(m[f])])

LEMMA BucketExists ==
    ASSUME maxLen \in Nat \ {0}, NEW page \in Pages
    PROVE  hashIndex(page) \in Frames
<1>1. page[1] \in Nat /\ page[2] \in Nat
  <2>1. page[1] \in Procs /\ page[2] \in Vpns
    BY DEF Pages
  <2>2. Procs \subseteq Nat /\ Vpns \subseteq Nat
    BY VMAssumption, InvertedAssumption DEF Procs
  <2>3. QED
    BY <2>1, <2>2
<1>2. ASSUME NEW a \in Nat, NEW n \in Nat \ {0} PROVE a % n \in 0 .. n - 1
  OBVIOUS
<1>3. page[1] + page[2] \in Nat
  BY <1>1
<1>4. QED
  BY <1>2, <1>3 DEF hashIndex, Frames

\* A new entry at the head of its bucket.
LEMMA InsertEntry ==
    ASSUME maxLen \in Nat \ {0}, NEW w, NEW m, NEW L \in SUBSET Frames, HashOK(w, m, L),
           m \in [Frames -> Pages \cup {NoPage}],
           NEW f \in Frames \ L, NEW page \in Pages,
           \A e \in ToSet(w[hashIndex(page)]) : e.page # page
    PROVE  HashOK([w EXCEPT ![hashIndex(page)] = <<Entry(page, f)>> \o @],
                  [m EXCEPT ![f] = page], L \cup {f})
<1> DEFINE h == hashIndex(page)
           e == Entry(page, f)
           t == [w EXCEPT ![h] = <<e>> \o @]
           n == [m EXCEPT ![f] = page]
<1>1. e \in Entries /\ e.page = page /\ e.phyMemid = f
  BY DEF Entry, Entries
<1>2. h \in Frames /\ w \in [Frames -> Seq(Entries)] /\ ChainOK(w[h])
      /\ \A d \in ToSet(w[h]) : d.page # e.page
  BY <1>1, BucketExists DEF HashOK
<1>3. n[f] = page /\ \A g \in L : n[g] = m[g]
  OBVIOUS
<1>. HIDE DEF e, n
<1>4. ChainOK(<<e>> \o w[h]) /\ ToSet(<<e>> \o w[h]) = ToSet(w[h]) \cup {e}
  BY <1>1, <1>2, ChainPrepend
<1>5. /\ t \in [Frames -> Seq(Entries)] /\ t[h] = <<e>> \o w[h]
      /\ \A b \in Frames \ {h} : t[b] = w[b]
  BY <1>2, <1>4 DEF ChainOK
<1>. HIDE DEF h, t
<1>6. ASSUME NEW b \in Frames
      PROVE  /\ ChainOK(t[b]) /\ ToSet(w[b]) \subseteq ToSet(t[b])
             /\ \A d \in ToSet(t[b]) : d \in ToSet(w[b]) \/ (d = e /\ b = h)
  <2>1. CASE b = h
    <3>1. t[b] = <<e>> \o w[h]
      BY <1>5, <2>1
    <3>2. QED
      BY <1>4, <2>1, <3>1
  <2>2. CASE b # h
    <3>1. t[b] = w[b]
      BY <1>5, <2>2
    <3>2. ChainOK(w[b])
      BY DEF HashOK
    <3>3. QED
      BY <3>1, <3>2
  <2>3. QED
    BY <2>1, <2>2
<1>7. ASSUME NEW b \in Frames, NEW d \in ToSet(t[b])
      PROVE  d.phyMemid \in L \cup {f} /\ n[d.phyMemid] = d.page /\ hashIndex(d.page) = b
  <2>1. CASE d \in ToSet(w[b])
    BY <1>3, <2>1 DEF HashOK
  <2>2. CASE d = e /\ b = h
    BY <1>1, <1>3, <2>2 DEF h
  <2>3. QED
    BY <1>6, <2>1, <2>2
<1>8. ASSUME NEW g \in L \cup {f}
      PROVE  n[g] \in Pages /\ Entry(n[g], g) \in ToSet(t[hashIndex(n[g])])
  <2>1. CASE g \in L
    <3>1. m[g] \in Pages /\ Entry(m[g], g) \in ToSet(w[hashIndex(m[g])])
      BY <2>1 DEF HashOK
    <3>2. hashIndex(m[g]) \in Frames
      BY <3>1, BucketExists
    <3>3. QED
      BY <1>3, <1>6, <2>1, <3>1, <3>2
  <2>2. CASE g = f
    BY <1>3, <1>4, <1>5, <2>2 DEF e, h
  <2>3. QED
    BY <2>1, <2>2
<1>9. QED
  BY <1>5, <1>6, <1>7, <1>8 DEF HashOK, t, n, e, h

\* The entry of a page is the one that names its frame.
LEMMA EntryFound ==
    ASSUME maxLen \in Nat \ {0}, NEW m, NEW L \in SUBSET Frames, HashOK(hashTable, m, L),
           NEW f \in L, NEW i \in Positions(m[f])
    PROVE  /\ i \in 1 .. Len(Chain(m[f])) /\ Positions(m[f]) = {i}
           /\ Chain(m[f])[i] = Entry(m[f], f)
<1> DEFINE page == m[f]
           c == Chain(page)
<1>1. page \in Pages /\ Entry(page, f) \in ToSet(c)
  BY DEF HashOK, Chain
<1>2. hashIndex(page) \in Frames
  BY <1>1, BucketExists
<1>3. ChainOK(c)
  BY <1>2 DEF HashOK, Chain
<1>4. Positions(page) = {j \in DOMAIN c : c[j].page = page}
  BY DEF Positions
<1>. HIDE DEF page, c
<1>5. DOMAIN c = 1 .. Len(c)
  BY <1>3 DEF ChainOK
<1>6. PICK k \in 1 .. Len(c) : c[k] = Entry(page, f)
  BY <1>1, <1>5 DEF ToSet
<1>7. c[k].page = page /\ i \in 1 .. Len(c) /\ c[i].page = page
  BY <1>4, <1>5, <1>6 DEF Entry, page
<1>8. k = i /\ \A j \in 1 .. Len(c) : c[j].page = page => j = i
  BY <1>3, <1>7 DEF ChainOK
<1>9. QED
  BY <1>4, <1>5, <1>6, <1>7, <1>8 DEF page, c

LEMMA EntryExists ==
    ASSUME maxLen \in Nat \ {0}, NEW m, NEW L \in SUBSET Frames, HashOK(hashTable, m, L), NEW f \in L
    PROVE  \E i \in Positions(m[f]) : TRUE
<1>1. m[f] \in Pages /\ Entry(m[f], f) \in ToSet(Chain(m[f]))
  BY DEF HashOK, Chain
<1>2. PICK k \in DOMAIN Chain(m[f]) : Chain(m[f])[k] = Entry(m[f], f)
  BY <1>1 DEF ToSet
<1>3. QED
  BY <1>2 DEF Positions, Entry

\* The bucket of a replaced page loses its entry.
LEMMA RemoveEntry ==
    ASSUME maxLen \in Nat \ {0}, NEW m, NEW L \in SUBSET Frames, HashOK(hashTable, m, L),
           NEW f \in L, NEW i \in Positions(m[f])
    PROVE  /\ HashOK(Without(m[f], i), m, L \ {f})
           /\ \A b \in Frames : ToSet(Without(m[f], i)[b]) \subseteq ToSet(hashTable[b])
<1> DEFINE page == m[f]
           v == hashIndex(page)
           c == hashTable[v]
           e == Entry(page, f)
           w == Without(page, i)
<1>1. i \in 1 .. Len(c) /\ c[i] = e
  BY EntryFound DEF Chain
<1>2. v \in Frames /\ page \in Pages /\ ChainOK(c) /\ hashTable \in [Frames -> Seq(Entries)]
  <2>1. page \in Pages
    BY DEF HashOK
  <2>2. v \in Frames
    BY <2>1, BucketExists
  <2>3. QED
    BY <2>1, <2>2 DEF HashOK
<1>3. w = [hashTable EXCEPT ![v] = RemoveAt(c, i)]
  BY DEF Without
<1>. HIDE DEF w, c, v
<1>4. ChainOK(RemoveAt(c, i)) /\ ToSet(RemoveAt(c, i)) = ToSet(c) \ {e}
  BY <1>1, <1>2, ChainRemove
<1>5. /\ w \in [Frames -> Seq(Entries)] /\ w[v] = RemoveAt(c, i)
      /\ \A b \in Frames \ {v} : w[b] = hashTable[b]
  BY <1>2, <1>3, <1>4 DEF ChainOK
<1>6. e.page = page /\ e.phyMemid = f
  BY DEF Entry
<1>7. \A b \in Frames \ {v} : e \notin ToSet(hashTable[b])
  BY <1>2, <1>6 DEF HashOK, v
<1>8. ASSUME NEW b \in Frames
      PROVE  ChainOK(w[b]) /\ ToSet(w[b]) = ToSet(hashTable[b]) \ {e}
  <2>1. CASE b = v
    <3>1. w[b] = RemoveAt(c, i) /\ hashTable[b] = c
      BY <1>5, <2>1 DEF c
    <3>2. QED
      BY <1>4, <3>1
  <2>2. CASE b # v
    <3>1. w[b] = hashTable[b] /\ e \notin ToSet(hashTable[b])
      BY <1>5, <1>7, <2>2
    <3>2. ChainOK(hashTable[b])
      BY DEF HashOK
    <3>3. QED
      BY <3>1, <3>2
  <2>3. QED
    BY <2>1, <2>2
<1>9. ASSUME NEW b \in Frames, NEW d \in ToSet(w[b])
      PROVE  d.phyMemid \in L \ {f} /\ m[d.phyMemid] = d.page /\ hashIndex(d.page) = b
  <2>1. d \in ToSet(hashTable[b]) /\ d # e
    BY <1>8, <1>9
  <2>2. d \in Entries /\ d.phyMemid \in L /\ m[d.phyMemid] = d.page /\ hashIndex(d.page) = b
    BY <2>1, ChainSet DEF HashOK
  <2>3. d = Entry(d.page, d.phyMemid)
    BY <2>2 DEF Entries, Entry
  <2>4. d.phyMemid # f
    BY <2>1, <2>2, <2>3
  <2>5. QED
    BY <2>2, <2>4
<1>10. ASSUME NEW g \in L \ {f}
       PROVE  m[g] \in Pages /\ Entry(m[g], g) \in ToSet(w[hashIndex(m[g])])
  <2>1. m[g] \in Pages /\ Entry(m[g], g) \in ToSet(hashTable[hashIndex(m[g])])
    BY DEF HashOK
  <2>2. hashIndex(m[g]) \in Frames /\ Entry(m[g], g) # e
    BY <2>1, BucketExists DEF Entry
  <2>3. QED
    BY <1>8, <2>1, <2>2
<1>11. QED
  BY <1>5, <1>8, <1>9, <1>10 DEF HashOK, w

----------------------------------------------------------------------------
\* The list of frames.

(***************************************************************************)
(* A hit on the tail links it to itself, so the list is not one that leads *)
(* through the loaded frames.  Still every frame of L (except those of X)  *)
(* has a predecessor, and what follows it is a frame of L or nothing.      *)
(***************************************************************************)
Loose(l, L, X) ==
    /\ ListTypeOK(l)
    /\ \A f \in L \ X : l.prev[f] \in L \cup {Header}
    /\ \A f \in L : l.next[f] \in L \cup {Null}
    /\ \A f \in Frames \ L : l.next[f] = Null
    /\ IF L = {} THEN l.tail = Header ELSE l.tail \in L /\ First(l) \in L

LEMMA LooseAppend ==
    ASSUME maxLen \in Nat, NEW l, NEW L \in SUBSET Frames, NEW f \in Frames, Loose(l, L, {f})
    PROVE  Loose(AppendFrame(l, f), L \cup {f}, {})
<1> DEFINE m == AppendFrame(l, f)
<1>1. /\ ListTypeOK(m) /\ m.tail = f
      /\ m.next = [l.next EXCEPT ![l.tail] = f] /\ m.prev = [l.prev EXCEPT ![f] = l.tail]
  BY AppendUpdates DEF Loose
<1>. HIDE DEF m
<1>2. l.tail \in L \cup {Header} /\ (L # {} => l.tail \in L)
  BY DEF Loose
<1>3. /\ l.next \in [Frames \cup {Header} -> Frames \cup {Header, Null}]
      /\ l.prev \in [Frames \cup {Header} -> Frames \cup {Header, Null}]
  BY DEF Loose, ListTypeOK
<1>4. \A g \in L \cup {f} : m.prev[g] \in L \cup {f, Header}
  BY <1>1, <1>2, <1>3 DEF Loose
<1>5. \A g \in L \cup {f} : m.next[g] \in L \cup {f, Null}
  BY <1>1, <1>2, <1>3 DEF Loose
<1>6. \A g \in Frames \ (L \cup {f}) : m.next[g] = Null
  BY <1>1, <1>2, <1>3, NodesDiffer DEF Loose
<1>7. First(m) \in L \cup {f}
  <2>1. CASE L = {}
    BY <1>1, <1>2, <1>3, <2>1 DEF First
  <2>2. CASE L # {}
    BY <1>1, <1>2, <1>3, <2>2, NodesDiffer DEF First, Loose
  <2>3. QED
    BY <2>1, <2>2
<1>8. QED
  BY <1>1, <1>4, <1>5, <1>6, <1>7 DEF Loose, m

LEMMA LooseDetach ==
    ASSUME maxLen \in Nat, NEW l, NEW L \in SUBSET Frames, NEW f \in L, Loose(l, L, {})
    PROVE  Loose(Detached(l, f), L, {f})
<1> DEFINE m == Detached(l, f)
<1>1. /\ ListTypeOK(m) /\ m.tail = l.tail
      /\ m.next = [l.next EXCEPT ![f] = Null] /\ m.prev = [l.prev EXCEPT ![f] = Null]
  BY DetachUpdates DEF Loose
<1>. HIDE DEF m
<1>2. /\ l.next \in [Frames \cup {Header} -> Frames \cup {Header, Null}]
      /\ l.prev \in [Frames \cup {Header} -> Frames \cup {Header, Null}]
  BY DEF Loose, ListTypeOK
<1>3. QED
  BY <1>1, <1>2, NodesDiffer DEF Loose, First, m

LEMMA LooseBypass ==
    ASSUME maxLen \in Nat, NEW l, NEW L \in SUBSET Frames, NEW f \in L, Loose(l, L, {}),
           l.next[f] # Null
    PROVE  Loose(Bypass(l, f), L, {})
<1> DEFINE m == Bypass(l, f)
           a == l.prev[f]
           b == l.next[f]
<1>1. a \in L \cup {Header} /\ b \in L
  BY DEF Loose
<1>2. /\ ListTypeOK(m) /\ m.tail = l.tail
      /\ m.next = [l.next EXCEPT ![a] = b] /\ m.prev = [l.prev EXCEPT ![b] = a]
  BY <1>1, BypassUpdates DEF Loose, Nodes
<1>. HIDE DEF m, a, b
<1>3. /\ l.next \in [Frames \cup {Header} -> Frames \cup {Header, Null}]
      /\ l.prev \in [Frames \cup {Header} -> Frames \cup {Header, Null}]
  BY DEF Loose, ListTypeOK
<1>4. QED
  BY <1>1, <1>2, <1>3, NodesDiffer DEF Loose, First, m

\* A frame taken off the front.
LEMMA LoosePop ==
    ASSUME maxLen \in Nat, NEW l, NEW L \in SUBSET Frames, L # {}, Loose(l, L, {})
    PROVE  First(l) \in L /\ Loose(PopFirst(l), L, {First(l)})
<1> DEFINE f == First(l)
           b == l.next[f]
           a == l.prev[f]
           m == [l EXCEPT !.next[Header] = b, !.prev[b] = a]
<1>1. f \in L /\ b \in L \cup {Null} /\ a \in L \cup {Header}
  BY DEF Loose
<1>2. /\ l.next \in [Frames \cup {Header} -> Frames \cup {Header, Null}]
      /\ l.prev \in [Frames \cup {Header} -> Frames \cup {Header, Null}]
  BY DEF Loose, ListTypeOK
<1>3. CASE b # Null
  <2>1. PopFirst(l) = Detached(m, f)
    BY <1>3 DEF PopFirst
  <2>2. /\ ListTypeOK(m) /\ m.tail = l.tail
        /\ m.next = [l.next EXCEPT ![Header] = b] /\ m.prev = [l.prev EXCEPT ![b] = a]
    BY <1>1, <1>3 DEF Loose, ListTypeOK
  <2>. HIDE DEF m, a, b, f
  <2>3. Loose(m, L, {})
    BY <1>1, <1>2, <1>3, <2>2, NodesDiffer DEF Loose, First
  <2>4. QED
    BY <1>1, <2>1, <2>3, LooseDetach DEF f
<1>4. CASE b = Null
  BY <1>1, <1>4, LooseDetach DEF PopFirst
<1>5. QED
  BY <1>3, <1>4

----------------------------------------------------------------------------
\* The inductive invariant.

HashInv == HashOK(hashTable, phyMem, Loaded)

ListInv ==
    /\ Loose(list, Loaded, {})
    /\ PHYMEMCOUNT \in 0 .. maxLen
    /\ ~Full => PHYMEMCOUNT = len

CountsInv ==
    /\ numIHTConflictAccess \in [Procs -> Nat]
    /\ numIHTNULLAccess \in [Procs -> Nat]
    /\ numIHTNonNULLAccess \in [Procs -> Nat]
    /\ \A j \in Procs :
          /\ numIHTNULLAccess[j] + numIHTNonNULLAccess[j] = ntraces[j]
          /\ numIHTNULLAccess[j] <= numPageFault[j]
          /\ numIHTNonNULLAccess[j] <= numIHTConflictAccess[j]
          /\ numIHTConflictAccess[j] <= numIHTNonNULLAccess[j] * maxLen

IndInv == FrameTypesOK /\ RoundInv /\ HashInv /\ ListInv /\ CountsInv

\* maxLen never changes, so that only table, frames and list are to be looked at.
LEMMA HashNext ==
    ASSUME UNCHANGED maxLen, HashOK(hashTable', phyMem', Loaded')
    PROVE  HashInv'
<1>1. \A page : ((page[1] + page[2]) % maxLen) = ((page[1] + page[2]) % maxLen')
  OBVIOUS
<1>2. QED
  BY <1>1 DEF HashInv, HashOK, hashIndex, ChainOK, Entries, Pages, Frames, Loaded

LEMMA ListNext ==
    ASSUME UNCHANGED maxLen, Loose(list', Loaded', {})
    PROVE  Loose(list, Loaded, {})'
  BY DEF Loose, ListTypeOK, Frames, Loaded

LEMMA QuietInv ==
    ASSUME FrameTypesOK, HashInv, ListInv,
           UNCHANGED <<maxLen, frameVars, hashTable>>
    PROVE  FrameTypesOK' /\ HashInv' /\ ListInv'
<1>1. UNCHANGED <<maxLen, len, list, PHYMEMCOUNT, phyMem, hashTable>>
  BY DEF frameVars
<1>2. Loaded' = Loaded /\ Frames' = Frames
  BY <1>1 DEF Loaded, Frames
<1>3. HashInv'
  BY <1>1, <1>2, HashNext DEF HashInv
<1>4. ListInv'
  BY <1>1, <1>2, ListNext DEF ListInv, Full
<1>5. QED
  BY <1>1, <1>2, <1>3, <1>4 DEF FrameTypesOK, Pages

LEMMA InitInv == Init => IndInv
<1> SUFFICES ASSUME Init PROVE IndInv
  OBVIOUS
<1>1. FrameTypesOK /\ RoundInv /\ LRUList
  BY NewListShape, InitRounds DEF Init
<1>2. len = 0 /\ Loaded = {} /\ maxLen \in Nat \ {0} /\ PHYMEMCOUNT = 0
  BY <1>1 DEF Init, SimInit, Loaded, FrameTypesOK
<1>3. HashInv
  <2>1. hashTable = [h \in Frames |-> << >>]
    BY DEF Init, Frames
  <2>2. ToSet(<< >>) = {} /\ << >> \in Seq(Entries) /\ ChainOK(<< >>)
    BY DEF ToSet, ChainOK
  <2>3. QED
    BY <1>2, <2>1, <2>2 DEF HashInv, HashOK
<1>4. ListInv
  <2>1. list.tail = Header
    BY DEF Init, SimInit, NewList
  <2>2. ListTypeOK(list) /\ \A f \in Frames : list.next[f] = Null
    BY <1>1, <1>2 DEF LRUList, Shape
  <2>3. QED
    BY <1>2, <2>1, <2>2 DEF ListInv, Loose
<1>5. CountsInv
  BY <1>2 DEF CountsInv, Init, SimInit
<1>6. QED
  BY <1>1, <1>3, <1>4, <1>5 DEF IndInv

----------------------------------------------------------------------------
\* The steps.

LEMMA LoadInv ==
    ASSUME IndInv, NEW page \in Pages, Load(page), UNCHANGED maxLen
    PROVE  FrameTypesOK' /\ HashInv' /\ ListInv'
<1>1. /\ ~Full /\ PHYMEMCOUNT = len /\ Positions(page) = {} /\ len' = len + 1
      /\ phyMem' = [phyMem EXCEPT ![len] = page]
      /\ hashTable' = [hashTable EXCEPT ![hashIndex(page)] = <<Entry(page, len)>> \o @]
      /\ list' = AppendFrame(list, len)
  BY DEF Load, TakeFrame, IndInv, ListInv, Entry
<1>2. /\ Loaded' = Loaded \cup {len} /\ len \in Frames \ Loaded /\ Frames' = Frames
      /\ Loaded \in SUBSET Frames /\ phyMem \in [Frames -> Pages \cup {NoPage}]
      /\ maxLen \in Nat \ {0} /\ len \in Nat /\ len < maxLen
  BY <1>1 DEF IndInv, FrameTypesOK, Full, Loaded, Frames
<1>3. \A e \in ToSet(hashTable[hashIndex(page)]) : e.page # page
  BY <1>1 DEF Positions, Chain, ToSet
<1>4. HashOK(hashTable', phyMem', Loaded')
  BY <1>1, <1>2, <1>3, InsertEntry DEF IndInv, HashInv
<1>5. Loose(list', Loaded', {})
  <2>1. Loose(list, Loaded, {len})
    BY DEF IndInv, ListInv, Loose
  <2>2. QED
    BY <1>1, <1>2, <2>1, LooseAppend
<1>6. PHYMEMCOUNT' \in 0 .. maxLen /\ (len' # maxLen => PHYMEMCOUNT' = len')
  BY <1>1, <1>2 DEF Load, Wrapped
<1>7. FrameTypesOK'
  BY <1>1, <1>2 DEF IndInv, FrameTypesOK, Pages
<1>8. QED
  BY <1>4, <1>5, <1>6, <1>7, HashNext, ListNext DEF ListInv, Full

LEMMA ReplaceInv ==
    ASSUME IndInv, NEW page \in Pages, Replace(page), UNCHANGED maxLen
    PROVE  FrameTypesOK' /\ HashInv' /\ ListInv'
<1> DEFINE f == First(list)
           victim == phyMem[f]
<1>1. /\ Full /\ Positions(page) = {} /\ len' = len /\ PHYMEMCOUNT' = PHYMEMCOUNT
      /\ phyMem' = [phyMem EXCEPT ![f] = page]
      /\ list' = AppendFrame(PopFirst(list), f)
  BY DEF Replace
<1>2. PICK i \in Positions(victim) :
         hashTable' = [Without(victim, i) EXCEPT ![hashIndex(page)] =
                          <<[Chain(victim)[i] EXCEPT !.page = page]>> \o @]
  BY DEF Replace
<1>3. /\ Loaded' = Loaded /\ Loaded # {} /\ Frames' = Frames /\ maxLen \in Nat \ {0}
      /\ Loaded \in SUBSET Frames /\ phyMem \in [Frames -> Pages \cup {NoPage}]
  <2>1. len = maxLen /\ maxLen \in Nat \ {0} /\ phyMem \in [Frames -> Pages \cup {NoPage}]
    BY <1>1 DEF IndInv, FrameTypesOK, Full
  <2>2. 0 \in Loaded
    BY <2>1 DEF Loaded
  <2>3. QED
    BY <1>1, <2>1, <2>2 DEF Loaded, Frames
<1>4. f \in Loaded /\ Loose(PopFirst(list), Loaded, {f})
  BY <1>3, LoosePop DEF IndInv, ListInv
<1>. HIDE DEF f
<1>5. Loose(list', Loaded', {})
  <2>1. f \in Frames /\ Loaded \cup {f} = Loaded
    BY <1>3, <1>4
  <2>2. QED
    BY <1>1, <1>3, <1>4, <2>1, LooseAppend
<1>6. HashOK(hashTable, phyMem, Loaded)
  BY DEF IndInv, HashInv
<1> DEFINE w == Without(victim, i)
<1>7. /\ HashOK(w, phyMem, Loaded \ {f})
      /\ \A b \in Frames : ToSet(w[b]) \subseteq ToSet(hashTable[b])
  BY <1>3, <1>4, <1>6, RemoveEntry
<1>8. Chain(victim)[i] = Entry(victim, f)
  BY <1>3, <1>4, <1>6, EntryFound
<1>9. hashTable' = [w EXCEPT ![hashIndex(page)] = <<Entry(page, f)>> \o @]
  BY <1>2, <1>8 DEF Entry
<1>10. \A e \in ToSet(w[hashIndex(page)]) : e.page # page
  <2>1. \A e \in ToSet(hashTable[hashIndex(page)]) : e.page # page
    BY <1>1 DEF Positions, Chain, ToSet
  <2>2. QED
    BY <1>3, <1>7, <2>1, BucketExists
<1>. HIDE DEF w
<1>11. HashOK(hashTable', phyMem', Loaded')
  <2>1. f \in Frames \ (Loaded \ {f}) /\ (Loaded \ {f}) \cup {f} = Loaded'
        /\ (Loaded \ {f}) \in SUBSET Frames
    BY <1>3, <1>4
  <2>2. HashOK([w EXCEPT ![hashIndex(page)] = <<Entry(page, f)>> \o @],
               [phyMem EXCEPT ![f] = page], (Loaded \ {f}) \cup {f})
    BY <1>3, <1>7, <1>10, <2>1, InsertEntry
  <2>3. QED
    BY <1>1, <1>9, <2>1, <2>2
<1>12. FrameTypesOK'
  BY <1>1, <1>3 DEF IndInv, FrameTypesOK, Pages
<1>13. QED
  BY <1>1, <1>5, <1>11, <1>12, HashNext, ListNext DEF IndInv, ListInv, Full

LEMMA HitInv ==
    ASSUME IndInv, NEW page \in Pages, Hit(page), UNCHANGED maxLen
    PROVE  FrameTypesOK' /\ HashInv' /\ ListInv'
<1>1. PICK i \in Positions(page) : list' = Touch(list, Chain(page)[i].phyMemid)
  BY DEF Hit
<1>2. UNCHANGED <<maxLen, len, PHYMEMCOUNT, phyMem, hashTable>>
  BY DEF Hit
<1>3. /\ Loaded' = Loaded /\ Frames' = Frames /\ Loaded \in SUBSET Frames /\ maxLen \in Nat \ {0}
  BY <1>2 DEF IndInv, FrameTypesOK, Loaded, Frames
<1> DEFINE f == Chain(page)[i].phyMemid
<1>4. f \in Loaded
  <2>1. Chain(page)[i] \in ToSet(hashTable[hashIndex(page)])
    BY DEF Positions, Chain, ToSet
  <2>2. hashIndex(page) \in Frames
    BY <1>3, BucketExists
  <2>3. QED
    BY <2>1, <2>2 DEF IndInv, HashInv, HashOK
<1>5. list' = Touch(list, f)
  BY <1>1
<1>. HIDE DEF f
<1> DEFINE b == IF list.next[f] # Null THEN Bypass(list, f) ELSE list
<1>6. Loose(b, Loaded, {})
  BY <1>3, <1>4, LooseBypass DEF IndInv, ListInv
<1>7. list' = AppendFrame(Detached(b, f), f)
  BY <1>5 DEF Touch
<1>. HIDE DEF b
<1>8. Loose(Detached(b, f), Loaded, {f})
  BY <1>3, <1>4, <1>6, LooseDetach
<1>9. Loose(list', Loaded', {})
  <2>1. f \in Frames /\ Loaded \cup {f} = Loaded'
    BY <1>3, <1>4
  <2>2. QED
    BY <1>3, <1>7, <1>8, <2>1, LooseAppend
<1>10. QED
  BY <1>2, <1>3, <1>9, HashNext, ListNext
  DEF IndInv, HashInv, ListInv, FrameTypesOK, Full, Pages

----------------------------------------------------------------------------
\* The accesses.

\* A chain is no longer than the list of frames: its entries name different ones.
LEMMA ChainLength ==
    ASSUME IndInv, NEW page \in Pages
    PROVE  Chain(page) \in Seq(Entries) /\ Len(Chain(page)) \in 0 .. maxLen
<1> DEFINE c == Chain(page)
           n == Len(c)
           frame == [i \in 1 .. n |-> c[i].phyMemid]
<1>1. maxLen \in Nat \ {0} /\ Frames = 0 .. maxLen - 1 /\ HashOK(hashTable, phyMem, Loaded)
  BY DEF IndInv, FrameTypesOK, HashInv, Frames
<1>2. hashIndex(page) \in Frames
  BY <1>1, BucketExists
<1>3. ChainOK(c) /\ c \in Seq(Entries) /\ n \in Nat /\ DOMAIN c = 1 .. n
  BY <1>1, <1>2 DEF HashOK, Chain, ChainOK
<1>4. ASSUME NEW i \in 1 .. n
      PROVE  c[i].phyMemid \in Frames /\ phyMem[c[i].phyMemid] = c[i].page
  <2>1. c[i] \in ToSet(c) /\ c[i] \in Entries
    BY <1>3, ElementOfSeq DEF ToSet
  <2>2. QED
    BY <1>1, <1>2, <2>1 DEF HashOK, Chain, Entries
<1>. HIDE DEF c, n
<1>5. frame \in [1 .. n -> Frames] /\ \A i, j \in 1 .. n : frame[i] = frame[j] => i = j
  <2>1. \A i, j \in 1 .. n : c[i].phyMemid = c[j].phyMemid => i = j
    BY <1>3, <1>4 DEF ChainOK, n
  <2>2. QED
    BY <1>4, <2>1
<1>6. frame \in Injection(1 .. n, Frames)
  BY <1>5 DEF Injection, IsInjective
<1>. HIDE DEF frame
<1>7. /\ IsFiniteSet(Frames) /\ Cardinality(Frames) = maxLen
      /\ Cardinality(1 .. n) = n
  <2>1. \A a, b \in Int : /\ IsFiniteSet(a .. b)
                          /\ Cardinality(a .. b) = IF a > b THEN 0 ELSE b - a + 1
    BY FS_Interval
  <2>2. Cardinality(1 .. n) = n
    BY <1>3, <2>1
  <2>3. IsFiniteSet(0 .. maxLen - 1) /\ Cardinality(0 .. maxLen - 1) = maxLen
    BY <1>1, <2>1
  <2>4. QED
    BY <1>1, <2>2, <2>3
<1>8. Cardinality(1 .. n) <= Cardinality(Frames)
  BY <1>6, <1>7, FS_Injection
<1>9. QED
  BY <1>1, <1>3, <1>7, <1>8 DEF c, n

LEMMA ReferenceCounts ==
    ASSUME IndInv, NEW vpn \in Vpns, Reference(vpn)
    PROVE  CountsInv'
<1> DEFINE page == <<turn, vpn>>
           c == Chain(page)
<1>1. /\ turn \in Procs /\ page \in Pages /\ maxLen \in Nat \ {0} /\ maxLen' = maxLen
      /\ ntraces' = [ntraces EXCEPT ![turn] = @ + 1] /\ ntraces \in [Procs -> Nat]
      /\ numPageFault \in [Procs -> Nat]
  <2>1. ntraces \in [Procs -> 0 .. MaxTraces] /\ \A n \in 0 .. MaxTraces : n \in Nat
    BY VMAssumption DEF IndInv, RoundInv
  <2>2. QED
    BY <2>1 DEF IndInv, RoundInv, FrameTypesOK, Reference, References, Pages
<1>2. /\ numIHTConflictAccess \in [Procs -> Nat] /\ numIHTNULLAccess \in [Procs -> Nat]
      /\ numIHTNonNULLAccess \in [Procs -> Nat]
      /\ \A j \in Procs :
            /\ numIHTNULLAccess[j] + numIHTNonNULLAccess[j] = ntraces[j]
            /\ numIHTNULLAccess[j] <= numPageFault[j]
            /\ numIHTNonNULLAccess[j] <= numIHTConflictAccess[j]
            /\ numIHTConflictAccess[j] <= numIHTNonNULLAccess[j] * maxLen
  BY DEF IndInv, CountsInv
<1>3. c \in Seq(Entries) /\ Len(c) \in 0 .. maxLen /\ DOMAIN c = 1 .. Len(c)
  <2>1. c \in Seq(Entries) /\ Len(c) \in 0 .. maxLen
    BY <1>1, ChainLength
  <2>. HIDE DEF c
  <2>2. QED
    BY <2>1
<1>4. \/ numPageFault' = numPageFault
      \/ numPageFault' = [numPageFault EXCEPT ![turn] = @ + 1]
  BY DEF Reference, Hit, CountHit, Fault, CountFault
<1>5. CASE c = << >>
  <2>1. /\ numIHTNULLAccess' = [numIHTNULLAccess EXCEPT ![turn] = @ + 1]
        /\ UNCHANGED <<numIHTNonNULLAccess, numIHTConflictAccess>>
    BY <1>5 DEF Reference, CountAccess
  <2>2. Positions(page) = {}
    BY <1>5 DEF Positions
  <2>3. numPageFault' = [numPageFault EXCEPT ![turn] = @ + 1]
    BY <2>2 DEF Reference, Hit, Fault, CountFault
  <2>. HIDE DEF c, page
  <2>4. QED
    BY <1>1, <1>2, <2>1, <2>3 DEF CountsInv
<1>6. CASE c # << >>
  <2>1. PICK looked \in Looked(page) :
           /\ numIHTNonNULLAccess' = [numIHTNonNULLAccess EXCEPT ![turn] = @ + 1]
           /\ numIHTConflictAccess' = [numIHTConflictAccess EXCEPT ![turn] = @ + looked]
           /\ UNCHANGED numIHTNULLAccess
    BY <1>6 DEF Reference, CountAccess
  <2>2. Positions(page) \subseteq 1 .. Len(c)
    BY <1>3 DEF Positions
  <2>. HIDE DEF c, page
  <2>3. Len(c) # 0
    BY <1>3, <1>6
  <2>4. looked \in 1 .. maxLen /\ looked \in Nat
    BY <1>1, <1>3, <2>2, <2>3 DEF Looked, c
  <2>5. \A n \in Nat : n * maxLen \in Nat /\ (n + 1) * maxLen = n * maxLen + maxLen
    BY <1>1
  <2>6. numPageFault'[turn] >= numPageFault[turn] /\ numPageFault' \in [Procs -> Nat]
        /\ \A j \in Procs \ {turn} : numPageFault'[j] = numPageFault[j]
    BY <1>1, <1>4
  <2>7. ASSUME NEW j \in Procs
        PROVE  /\ numIHTNULLAccess'[j] + numIHTNonNULLAccess'[j] = ntraces'[j]
               /\ numIHTNULLAccess'[j] <= numPageFault'[j]
               /\ numIHTNonNULLAccess'[j] <= numIHTConflictAccess'[j]
               /\ numIHTConflictAccess'[j] <= numIHTNonNULLAccess'[j] * maxLen
    <3>1. CASE j # turn
      BY <1>1, <1>2, <2>1, <2>6, <3>1
    <3>2. CASE j = turn
      <4>1. /\ numIHTNULLAccess'[j] = numIHTNULLAccess[j]
            /\ numIHTNonNULLAccess'[j] = numIHTNonNULLAccess[j] + 1
            /\ numIHTConflictAccess'[j] = numIHTConflictAccess[j] + looked
            /\ ntraces'[j] = ntraces[j] + 1 /\ numPageFault'[j] >= numPageFault[j]
            /\ numIHTNULLAccess[j] \in Nat /\ numIHTNonNULLAccess[j] \in Nat
            /\ numIHTConflictAccess[j] \in Nat /\ ntraces[j] \in Nat
            /\ numPageFault'[j] \in Nat /\ numPageFault[j] \in Nat
        BY <1>1, <1>2, <2>1, <2>6, <3>2
      <4>2. /\ numIHTNULLAccess[j] + numIHTNonNULLAccess[j] = ntraces[j]
            /\ numIHTNULLAccess[j] <= numPageFault[j]
            /\ numIHTNonNULLAccess[j] <= numIHTConflictAccess[j]
            /\ numIHTConflictAccess[j] <= numIHTNonNULLAccess[j] * maxLen
        BY <1>2
      <4>3. /\ numIHTNonNULLAccess[j] * maxLen \in Nat
            /\ (numIHTNonNULLAccess[j] + 1) * maxLen = numIHTNonNULLAccess[j] * maxLen + maxLen
        BY <2>5, <4>1
      <4>4. QED
        BY <1>1, <2>4, <4>1, <4>2, <4>3
    <3>3. QED
      BY <3>1, <3>2
  <2>8. /\ numIHTConflictAccess' \in [Procs -> Nat] /\ numIHTNULLAccess' \in [Procs -> Nat]
        /\ numIHTNonNULLAccess' \in [Procs -> Nat]
    BY <1>1, <1>2, <2>1, <2>4
  <2>9. QED
    BY <1>1, <2>7, <2>8 DEF CountsInv
<1>7. QED
  BY <1>5, <1>6

LEMMA QuietCounts ==
    ASSUME CountsInv, UNCHANGED <<maxLen, ntraces, numPageFault, ihtVars>>
    PROVE  CountsInv'
  BY DEF CountsInv, ihtVars

LEMMA NextInv == IndInv /\ [Next]_vars => IndInv'
<1> SUFFICES ASSUME IndInv, [Next]_vars
             PROVE  IndInv'
  OBVIOUS
<1>. FrameTypesOK /\ RoundInv /\ HashInv /\ ListInv /\ CountsInv
  BY DEF IndInv
<1>1. ASSUME NEW vpn \in Vpns, Reference(vpn)
      PROVE  IndInv'
  <2>1. /\ References(vpn) /\ UNCHANGED maxLen /\ <<turn, vpn>> \in Pages
        /\ (Hit(<<turn, vpn>>) \/ Fault(<<turn, vpn>>))
    BY <1>1 DEF Reference, References, RoundInv, Pages
  <2>2. RoundInv'
    BY <2>1, ReferenceRounds DEF Hit, Fault
  <2>3. CountsInv'
    BY <1>1, ReferenceCounts
  <2>4. FrameTypesOK' /\ HashInv' /\ ListInv'
    BY <2>1, HitInv, LoadInv, ReplaceInv DEF Fault
  <2>5. QED
    BY <2>2, <2>3, <2>4 DEF IndInv
<1>2. CASE EndOfTrace
  <2>1. AtEnd /\ UNCHANGED <<maxLen, frameVars, hashTable, ntraces, numPageFault, ihtVars>>
    BY <1>2 DEF EndOfTrace, AtEnd
  <2>2. QED
    BY <2>1, EndRounds, QuietInv, QuietCounts DEF IndInv
<1>3. CASE UNCHANGED vars
  <2>1. UNCHANGED <<maxLen, frameVars, hashTable, ntraces, numPageFault, ihtVars>>
    BY <1>3 DEF vars, simVars, frameVars
  <2>2. RoundInv'
    BY <1>3 DEF vars, simVars, RoundInv, HistoryOK, Pages
  <2>3. QED
    BY <2>1, <2>2, QuietInv, QuietCounts DEF IndInv
<1>4. CASE Stop /\ UNCHANGED <<hashTable, ihtVars>>
  BY <1>3, <1>4 DEF Stop, vars
<1>5. QED
  BY <1>1, <1>2, <1>3, <1>4 DEF Next

\* Hash table, list, rounds and counters are in order in every reachable state.
THEOREM HashInvariant == Spec => []IndInv
<1>1. QED
  BY InitInv, NextInv, PTL DEF Spec

----------------------------------------------------------------------------
\* The properties.

\* Every variable keeps to its type.
THEOREM InvertedTypesCorrect == Spec => []TypeOK
<1>1. ASSUME IndInv PROVE TypeOK
  <2>1. SimTypeOK
    BY <1>1, SimTypes DEF IndInv, ListInv, Loose
  <2>2. \A h \in Frames : hashTable[h] \in Seq(Entries)
    BY <1>1 DEF IndInv, HashInv, HashOK
  <2>3. QED
    BY <1>1, <2>1, <2>2 DEF IndInv, CountsInv, TypeOK
<1>2. QED
  BY <1>1, HashInvariant, PTL

\* The hash table holds the pages of the loaded frames, each once and in its bucket.
THEOREM HashCorrect == Spec => []HashMatchesFrames
<1>1. ASSUME IndInv PROVE HashMatchesFrames
  <2>1. HashOK(hashTable, phyMem, Loaded) /\ maxLen \in Nat \ {0} /\ Loaded \in SUBSET Frames
    BY <1>1 DEF IndInv, HashInv, FrameTypesOK, Loaded, Frames
  <2>2. ASSUME NEW f \in Loaded
        PROVE  \E i \in Positions(phyMem[f]) :
                  Positions(phyMem[f]) = {i} /\ Chain(phyMem[f])[i].phyMemid = f
    <3>1. PICK i \in Positions(phyMem[f]) : TRUE
      BY <2>1, EntryExists
    <3>2. Positions(phyMem[f]) = {i} /\ Chain(phyMem[f])[i] = Entry(phyMem[f], f)
      BY <2>1, EntryFound
    <3>3. QED
      BY <3>2 DEF Entry
  <2>3. QED
    BY <2>1, <2>2 DEF HashMatchesFrames, HashOK
<1>2. QED
  BY <1>1, HashInvariant, PTL

\* The list operations follow no NULL pointer.
THEOREM InvertedListCorrect == Spec => []NoNullDereference
<1>1. ASSUME IndInv PROVE NoNullDereference
  <2>1. Loose(list, Loaded, {}) /\ maxLen \in Nat \ {0} /\ len \in Nat /\ Loaded \subseteq Frames
    BY <1>1 DEF IndInv, ListInv, FrameTypesOK, Loaded, Frames
  <2>2. len > 0 => 0 \in Loaded
    BY <2>1 DEF Loaded
  <2>3. QED
    BY <2>1, <2>2, NodesDiffer DEF Loose, NoNullDereference
<1>2. QED
  BY <1>1, HashInvariant, PTL

\* The accesses of the report add up.
THEOREM AccessesCorrect == Spec => []AccessesAddUp
<1>1. ASSUME IndInv PROVE AccessesAddUp
  <2>1. \A j \in Procs :
           /\ numIHTConflictAccess[j] \in Nat /\ numIHTNonNULLAccess[j] * maxLen \in Nat
           /\ numIHTNonNULLAccess[j] \in Nat
    BY <1>1 DEF IndInv, CountsInv, FrameTypesOK
  <2>2. QED
    BY <1>1, <2>1 DEF IndInv, CountsInv, RoundInv, AccessesAddUp
<1>2. QED
  BY <1>1, HashInvariant, PTL

============================================================================
