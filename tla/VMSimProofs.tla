---------------------------- MODULE VMSimProofs ----------------------------
(***************************************************************************)
(* What the proofs about the simulations share: lemmas about the list of   *)
(* frames, about frames and the table entries that name them, about the    *)
(* rounds over the traces, and about the order of the list: the pages      *)
(* along it and the pages referenced last.                                 *)
(***************************************************************************)
EXTENDS VMSim, SequenceTheorems, FiniteSetTheorems, TLAPS

----------------------------------------------------------------------------
\* Sequences.

\* Every set of natural numbers has a least element.
LEMMA LeastNatural ==
    ASSUME NEW S \in SUBSET Nat, S # {}
    PROVE  \E n \in S : \A m \in S : n <= m
<1> DEFINE R == OpToRel(<, Nat)
<1>1. IsWellFoundedOn(R, Nat)
  BY NatLessThanWellFounded
<1>2. \A m, n \in Nat : ~(n <= m) => <<m, n>> \in R
  BY DEF OpToRel
<1>. HIDE DEF R
<1>3. PICK n \in S : \A m \in S : <<m, n>> \notin R
  BY <1>1, WFMin, Zenon
<1>4. QED
  BY <1>2, <1>3

\* RemoveAt by the element.
LEMMA RemoveElement ==
    ASSUME NEW S, NEW q \in Seq(S), NEW k \in 1 .. Len(q)
    PROVE  /\ RemoveAt(q, k) \in Seq(S) /\ Len(RemoveAt(q, k)) = Len(q) - 1
           /\ \A j \in 1 .. Len(q) - 1 : RemoveAt(q, k)[j] = IF j < k THEN q[j] ELSE q[j + 1]
<1> DEFINE a == SubSeq(q, 1, k - 1)
           b == SubSeq(q, k + 1, Len(q))
           n == Len(q)
<1>1. n \in Nat /\ n = Len(q) /\ k \in 1 .. n /\ \A j \in 1 .. n : q[j] \in S
  BY ElementOfSeq
<1>2. a \in Seq(S) /\ Len(a) = k - 1 /\ \A j \in 1 .. k - 1 : a[j] = q[j]
  BY <1>1, SubSeqProperties
<1>3. /\ b \in Seq(S) /\ Len(b) = IF k + 1 <= n THEN n - (k + 1) + 1 ELSE 0
      /\ \A j \in 1 .. n - (k + 1) + 1 : b[j] = q[k + 1 + j - 1]
  BY <1>1, SubSeqProperties
<1>. HIDE DEF a, b, n
<1>4. Len(b) = n - k /\ \A j \in 1 .. n - k : b[j] = q[k + j]
  <2>1. Len(b) = n - k /\ n - (k + 1) + 1 = n - k
    BY <1>1, <1>3
  <2>2. ASSUME NEW j \in 1 .. n - k PROVE b[j] = q[k + j]
    <3>1. k + 1 + j - 1 = k + j /\ j \in 1 .. n - (k + 1) + 1
      BY <1>1
    <3>2. QED
      BY <1>3, <3>1
  <2>3. QED
    BY <2>1, <2>2
<1>5. /\ a \o b \in Seq(S) /\ Len(a \o b) = Len(a) + Len(b)
      /\ \A j \in 1 .. Len(a) + Len(b) :
            (a \o b)[j] = IF j <= Len(a) THEN a[j] ELSE b[j - Len(a)]
  BY <1>2, <1>3, ConcatProperties
<1>6. ASSUME NEW j \in 1 .. n - 1 PROVE (a \o b)[j] = IF j < k THEN q[j] ELSE q[j + 1]
  <2>1. j \in 1 .. Len(a) + Len(b)
    BY <1>1, <1>2, <1>4
  <2>2. CASE j < k
    <3>1. j \in 1 .. k - 1 /\ j <= Len(a)
      BY <1>1, <1>2, <2>2
    <3>2. QED
      BY <1>2, <1>5, <2>1, <2>2, <3>1
  <2>3. CASE j >= k
    <3>1. j - (k - 1) \in 1 .. n - k /\ k + (j - (k - 1)) = j + 1 /\ ~(j <= k - 1)
      BY <1>1, <2>3
    <3>2. (a \o b)[j] = b[j - (k - 1)]
      BY <1>2, <1>5, <2>1, <3>1
    <3>3. b[j - (k - 1)] = q[k + (j - (k - 1))]
      BY <1>4, <3>1
    <3>4. ~(j < k)
      BY <1>1, <2>3
    <3>5. QED
      BY <3>1, <3>2, <3>3, <3>4
  <2>4. j \in Nat /\ k \in Nat
    BY <1>1
  <2>5. j < k \/ j >= k
    BY <2>4
  <2>6. QED
    BY <2>2, <2>3, <2>5, Zenon
<1>7. Len(a \o b) = n - 1
  BY <1>1, <1>2, <1>4, <1>5
<1>8. QED
  BY <1>5, <1>6, <1>7 DEF RemoveAt, a, b, n

\* RemoveFirst takes out one occurrence, if there is one.
LEMMA RemoveFirstElement ==
    ASSUME NEW S, NEW s \in Seq(S), NEW e
    PROVE  IF \E i \in 1 .. Len(s) : s[i] = e
             THEN \E i \in 1 .. Len(s) : s[i] = e /\ RemoveFirst(s, e) = RemoveAt(s, i)
             ELSE RemoveFirst(s, e) = s
<1>1. CASE \E i \in 1 .. Len(s) : s[i] = e
  <2> DEFINE I == {i \in 1 .. Len(s) : s[i] = e}
  <2>1. I \in SUBSET Nat /\ I # {}
    BY <1>1
  <2>2. \E n \in I : \A m \in I : n <= m
    BY <2>1, LeastNatural
  <2>3. RemoveFirst(s, e) = RemoveAt(s, Min(I))
    BY <1>1, <2>1 DEF RemoveFirst, SelectInSeq
  <2>4. Min(I) \in I
    BY <2>2 DEF Min
  <2>5. QED
    BY <1>1, <2>3, <2>4
<1>2. CASE ~\E i \in 1 .. Len(s) : s[i] = e
  BY <1>2 DEF RemoveFirst
<1>3. QED
  BY <1>1, <1>2

\* Moving an element to the end, or adding it there, changes the members by it.
LEMMA MovedLast ==
    ASSUME NEW S, NEW s \in Seq(S), NEW e \in S, NEW t, t = Append(RemoveFirst(s, e), e)
    PROVE  t \in Seq(S) /\ ToSet(t) = ToSet(s) \cup {e} /\ t # << >> /\ t[Len(t)] = e
<1> DEFINE r == RemoveFirst(s, e)
<1>1. Len(s) \in Nat /\ DOMAIN s = 1 .. Len(s) /\ \A i \in 1 .. Len(s) : s[i] \in S
  BY ElementOfSeq
<1>2. r \in Seq(S) /\ ToSet(r) \cup {e} = ToSet(s) \cup {e}
  <2>1. CASE \E i \in 1 .. Len(s) : s[i] = e
    <3>1. PICK k \in 1 .. Len(s) : s[k] = e /\ r = RemoveAt(s, k)
      BY <2>1, RemoveFirstElement
    <3>2. /\ r \in Seq(S) /\ Len(r) = Len(s) - 1
          /\ \A j \in 1 .. Len(s) - 1 : r[j] = IF j < k THEN s[j] ELSE s[j + 1]
      BY <3>1, RemoveElement
    <3>. HIDE DEF r
    <3>3. DOMAIN r = 1 .. Len(s) - 1
      BY <3>2
    <3>4. ASSUME NEW x \in ToSet(r) PROVE x \in ToSet(s)
      <4>1. PICK j \in 1 .. Len(s) - 1 : x = r[j]
        BY <3>3 DEF ToSet
      <4>2. j \in 1 .. Len(s) /\ j + 1 \in 1 .. Len(s) /\ (x = s[j] \/ x = s[j + 1])
        BY <1>1, <3>2, <4>1
      <4>3. QED
        BY <1>1, <4>2 DEF ToSet
    <3>5. ASSUME NEW x \in ToSet(s), x # e PROVE x \in ToSet(r)
      <4>1. PICK i \in 1 .. Len(s) : x = s[i] /\ i # k
        BY <1>1, <3>1, <3>5 DEF ToSet
      <4>2. CASE i < k
        <5>1. i \in 1 .. Len(s) - 1 /\ r[i] = x
          BY <1>1, <3>2, <4>1, <4>2
        <5>2. QED
          BY <3>3, <5>1 DEF ToSet
      <4>3. CASE i > k
        <5>1. i - 1 \in 1 .. Len(s) - 1 /\ ~(i - 1 < k) /\ (i - 1) + 1 = i
          BY <1>1, <4>3
        <5>2. r[i - 1] = x
          BY <3>2, <4>1, <5>1
        <5>3. QED
          BY <3>3, <5>1, <5>2 DEF ToSet
      <4>4. QED
        BY <1>1, <4>1, <4>2, <4>3
    <3>6. e \in ToSet(s)
      BY <1>1, <3>1 DEF ToSet
    <3>7. QED
      BY <3>2, <3>4, <3>5, <3>6
  <2>2. CASE ~\E i \in 1 .. Len(s) : s[i] = e
    BY <2>2, RemoveFirstElement
  <2>3. QED
    BY <2>1, <2>2
<1>. t = Append(r, e)
  OBVIOUS
<1>. HIDE DEF r
<1>3. /\ t \in Seq(S) /\ Len(t) = Len(r) + 1 /\ t[Len(t)] = e /\ Len(r) \in Nat
      /\ \A i \in 1 .. Len(r) : t[i] = r[i]
  BY <1>2
<1>4. DOMAIN t = 1 .. Len(r) + 1 /\ DOMAIN r = 1 .. Len(r)
  BY <1>2, <1>3
<1>5. \A x : x \in ToSet(t) <=> x \in ToSet(r) \cup {e}
  <2>1. ASSUME NEW x \in ToSet(t) PROVE x \in ToSet(r) \cup {e}
    <3>1. PICK i \in 1 .. Len(r) + 1 : x = t[i]
      BY <1>4 DEF ToSet
    <3>2. i \in 1 .. Len(r) \/ i = Len(t)
      BY <1>3, <3>1
    <3>3. QED
      BY <1>3, <1>4, <3>1, <3>2 DEF ToSet
  <2>2. ASSUME NEW x \in ToSet(r) PROVE x \in ToSet(t)
    <3>1. PICK i \in 1 .. Len(r) : x = r[i]
      BY <1>4 DEF ToSet
    <3>2. i \in 1 .. Len(r) + 1 /\ x = t[i]
      BY <1>3, <3>1
    <3>3. QED
      BY <1>4, <3>2 DEF ToSet
  <2>3. e \in ToSet(t)
    <3>1. Len(t) \in 1 .. Len(r) + 1
      BY <1>3
    <3>2. QED
      BY <1>3, <1>4, <3>1 DEF ToSet
  <2>4. QED
    BY <2>1, <2>2, <2>3
<1>6. t # << >>
  BY <1>3
<1>7. QED
  BY <1>2, <1>3, <1>5, <1>6

----------------------------------------------------------------------------
\* The list of frames under LRU.

ListTypeOK(l) ==
    l \in [next : [Frames \cup {Header} -> Frames \cup {Header, Null}],
           prev : [Frames \cup {Header} -> Frames \cup {Header, Null}],
           tail : Frames \cup {Header}]

Distinct(s) == \A i, j \in 1 .. Len(s) : s[i] = s[j] => i = j

\* The header leads through the frames of s, in this order and back.
Linked(l, s) ==
    /\ s \in Seq(Frames) /\ Len(s) > 0 /\ Distinct(s)
    /\ First(l) = s[1] /\ l.prev[s[1]] = Header
    /\ l.tail = s[Len(s)] /\ l.next[s[Len(s)]] = Null
    /\ \A i \in 1 .. Len(s) - 1 : l.next[s[i]] = s[i + 1] /\ l.prev[s[i + 1]] = s[i]

LEMMA NodesDiffer ==
    ASSUME maxLen \in Nat
    PROVE  Header \notin Frames /\ Null \notin Frames /\ Header # Null /\ Frames \subseteq Nat
  BY DEF Frames, Header, Null

\* What moving the element at i to the end makes of a sequence.
MovedToEnd(s, i) ==
    [j \in 1 .. Len(s) |-> IF j < i THEN s[j] ELSE IF j < Len(s) THEN s[j + 1] ELSE s[i]]

LEMMA MovedIsSeq ==
    ASSUME NEW S, NEW s \in Seq(S), NEW i \in 1 .. Len(s), Distinct(s)
    PROVE  /\ MovedToEnd(s, i) \in Seq(S) /\ Len(MovedToEnd(s, i)) = Len(s)
           /\ Distinct(MovedToEnd(s, i))
           /\ ToSet(MovedToEnd(s, i)) = ToSet(s)
<1> DEFINE t == MovedToEnd(s, i)
<1>1. t \in Seq(S) /\ Len(t) = Len(s)
  BY DEF MovedToEnd
<1>2. \A j \in 1 .. Len(s) :
        t[j] = IF j < i THEN s[j] ELSE IF j < Len(s) THEN s[j + 1] ELSE s[i]
  BY DEF MovedToEnd
<1>. HIDE DEF t
<1> DEFINE from(j) == IF j < i THEN j ELSE IF j < Len(s) THEN j + 1 ELSE i
<1>3. \A j \in 1 .. Len(s) : from(j) \in 1 .. Len(s) /\ t[j] = s[from(j)]
  BY <1>2
<1>4. /\ ToSet(s) = {s[k] : k \in 1 .. Len(s)} /\ ToSet(t) = {t[k] : k \in 1 .. Len(s)}
      /\ \A j \in 1 .. Len(s) : \E k \in 1 .. Len(s) : t[j] = s[k]
  <2>1. DOMAIN s = 1 .. Len(s) /\ DOMAIN t = 1 .. Len(s)
    BY <1>1
  <2>. HIDE DEF from
  <2>2. QED
    BY <1>3, <2>1 DEF ToSet
<1>5. ASSUME NEW k \in 1 .. Len(s) PROVE \E j \in 1 .. Len(s) : t[j] = s[k]
  <2>1. k < i => t[k] = s[k]
    BY <1>2
  <2>2. k = i => t[Len(s)] = s[k]
    BY <1>2
  <2>3. k > i => k - 1 \in 1 .. Len(s) /\ t[k - 1] = s[k]
    BY <1>2
  <2>4. QED
    BY <2>1, <2>2, <2>3
<1>6. ToSet(t) = ToSet(s)
  <2>1. \A x \in ToSet(t) : x \in ToSet(s)
    BY <1>4
  <2>2. \A x \in ToSet(s) : x \in ToSet(t)
    BY <1>4, <1>5
  <2>3. QED
    BY <2>1, <2>2
<1>7. Distinct(t)
  <2>1. ASSUME NEW a \in 1 .. Len(s), NEW b \in 1 .. Len(s), t[a] = t[b]
        PROVE  a = b
    <3>1. from(a) = from(b)
      <4>. HIDE DEF from
      <4>1. QED
        BY <1>3, <2>1 DEF Distinct
    <3>2. QED
      BY <3>1
  <2>2. QED
    BY <1>1, <2>1 DEF Distinct
<1>8. QED
  BY <1>1, <1>6, <1>7 DEF t

\* The links of a list in which frame f went from between its neighbours to the end.
LEMMA LinksMoved ==
    ASSUME maxLen \in Nat, NEW l, ListTypeOK(l), NEW s, Linked(l, s), NEW i \in 1 .. Len(s) - 1,
           NEW m, ListTypeOK(m), m.tail = s[i],
           m.next = [l.next EXCEPT ![l.prev[s[i]]] = s[i + 1], ![s[i]] = Null,
                                   ![s[Len(s)]] = s[i]],
           m.prev = [l.prev EXCEPT ![s[i + 1]] = l.prev[s[i]], ![s[i]] = s[Len(s)]]
    PROVE  Linked(m, MovedToEnd(s, i))
<1> DEFINE t == MovedToEnd(s, i)
           n == Len(s)
<1>1. /\ s \in Seq(Frames) /\ n = Len(s) /\ n \in Nat /\ n > 0 /\ Distinct(s)
      /\ i \in 1 .. n - 1 /\ i + 1 \in 1 .. n /\ i \in 1 .. n
  BY DEF Linked
<1>2. /\ t \in Seq(Frames) /\ Len(t) = n /\ Distinct(t)
      /\ \A j \in 1 .. n : t[j] = IF j < i THEN s[j] ELSE IF j < n THEN s[j + 1] ELSE s[i]
  BY <1>1, MovedIsSeq DEF MovedToEnd
<1>3. \A j \in 1 .. n : s[j] \in Frames /\ s[j] # Header
  BY <1>1, NodesDiffer
<1>4. /\ l.next \in [Frames \cup {Header} -> Frames \cup {Header, Null}]
      /\ l.prev \in [Frames \cup {Header} -> Frames \cup {Header, Null}]
  BY DEF ListTypeOK
<1> DEFINE a == l.prev[s[i]]
<1>5. a = IF i = 1 THEN Header ELSE s[i - 1]
  BY <1>1 DEF Linked
<1>6. /\ a \in Frames \cup {Header} /\ a # s[i] /\ a # s[n] /\ s[i] # s[n] /\ s[i + 1] # s[i]
      /\ a # s[i + 1]
  BY <1>1, <1>3, <1>5 DEF Distinct
<1>. HIDE DEF a
<1>7. \A x \in Frames \cup {Header} :
        m.next[x] = IF x = s[n] THEN s[i] ELSE IF x = s[i] THEN Null
                    ELSE IF x = a THEN s[i + 1] ELSE l.next[x]
  BY <1>1, <1>3, <1>4, <1>6 DEF a
<1>8. \A x \in Frames \cup {Header} :
        m.prev[x] = IF x = s[i] THEN s[n] ELSE IF x = s[i + 1] THEN a ELSE l.prev[x]
  BY <1>1, <1>3, <1>4, <1>6 DEF a
<1>. HIDE DEF t, n
<1>9. First(m) = t[1] /\ m.prev[t[1]] = Header
  <2>1. CASE i = 1
    <3>1. t[1] = s[2] /\ a = Header
      BY <1>1, <1>2, <1>5, <2>1
    <3>2. QED
      BY <1>1, <1>3, <1>6, <1>7, <1>8, <2>1, <3>1 DEF First
  <2>2. CASE i > 1
    <3>1. t[1] = s[1] /\ 1 \in 1 .. n /\ i - 1 \in 1 .. n
      BY <1>1, <1>2, <2>2
    <3>2. s[1] # s[i] /\ s[1] # s[i + 1] /\ l.next[Header] = s[1] /\ l.prev[s[1]] = Header
          /\ Header # a /\ Header # s[i] /\ Header # s[n]
      BY <1>3, <1>5, <1>1, <2>2 DEF Linked, Distinct, First
    <3>3. QED
      BY <1>1, <1>3, <1>5, <1>7, <1>8, <2>2, <3>1, <3>2 DEF First
  <2>3. QED
    BY <1>1, <2>1, <2>2
<1>10. m.tail = t[n] /\ m.next[t[n]] = Null
  <2>1. n \in 1 .. n /\ t[n] = s[i]
    BY <1>1, <1>2
  <2>2. s[i] \in Frames \cup {Header}
    BY <1>1, <1>3
  <2>3. QED
    BY <1>6, <1>7, <2>1, <2>2
<1>11. ASSUME NEW j \in 1 .. n - 1
       PROVE  m.next[t[j]] = t[j + 1] /\ m.prev[t[j + 1]] = t[j]
  <2>1. \A k \in 1 .. n - 1 : l.next[s[k]] = s[k + 1] /\ l.prev[s[k + 1]] = s[k]
    BY <1>1 DEF Linked, n
  <2>2. \A k, h \in 1 .. n : s[k] = s[h] => k = h
    BY <1>1 DEF Distinct, n
  <2>3. j \in 1 .. n /\ j + 1 \in 1 .. n
    BY <1>1
  <2>4. CASE j + 1 < i
    <3>1. t[j] = s[j] /\ t[j + 1] = s[j + 1]
      BY <1>1, <1>2, <2>3, <2>4
    <3>2. s[j] # s[i] /\ s[j] # s[n] /\ s[j] # a /\ s[j + 1] # s[i] /\ s[j + 1] # s[i + 1]
      BY <1>1, <1>3, <1>5, <2>2, <2>3, <2>4
    <3>3. /\ s[j] \in Frames \cup {Header} /\ s[j + 1] \in Frames \cup {Header}
          /\ l.next[s[j]] = s[j + 1] /\ l.prev[s[j + 1]] = s[j]
      BY <1>3, <2>1, <2>3
    <3>4. QED
      BY <1>7, <1>8, <3>1, <3>2, <3>3
  <2>5. CASE j + 1 = i
    <3>1. t[j] = s[j] /\ t[j + 1] = s[i + 1] /\ a = s[j]
      BY <1>1, <1>2, <1>5, <2>3, <2>5
    <3>2. QED
      BY <1>1, <1>3, <1>6, <1>7, <1>8, <2>3, <3>1
  <2>6. CASE j + 1 > i /\ j + 1 < n
    <3>1. t[j] = s[j + 1] /\ t[j + 1] = s[j + 2] /\ j + 2 \in 1 .. n
      BY <1>1, <1>2, <2>3, <2>6
    <3>2. /\ s[j + 1] # s[i] /\ s[j + 1] # s[n] /\ s[j + 1] # a
          /\ s[j + 2] # s[i] /\ s[j + 2] # s[i + 1]
      BY <1>1, <1>3, <1>5, <2>2, <2>3, <2>6, <3>1
    <3>3. l.next[s[j + 1]] = s[j + 2] /\ l.prev[s[j + 2]] = s[j + 1]
      <4>1. j + 1 \in 1 .. n - 1 /\ (j + 1) + 1 = j + 2
        BY <1>1, <2>6
      <4>2. QED
        BY <2>1, <4>1
    <3>4. s[j + 1] \in Frames \cup {Header} /\ s[j + 2] \in Frames \cup {Header}
      BY <1>3, <2>3, <3>1
    <3>5. QED
      BY <1>7, <1>8, <3>1, <3>2, <3>3, <3>4
  <2>7. CASE j + 1 = n
    <3>1. t[j] = s[n] /\ t[j + 1] = s[i]
      BY <1>1, <1>2, <2>3, <2>7
    <3>2. s[n] \in Frames \cup {Header} /\ s[i] \in Frames \cup {Header}
      BY <1>1, <1>3
    <3>3. QED
      BY <1>6, <1>7, <1>8, <3>1, <3>2
  <2>8. QED
    BY <1>1, <2>4, <2>5, <2>6, <2>7
<1>12. QED
  BY <1>1, <1>2, <1>9, <1>10, <1>11 DEF Linked, t

\* The fields of the lists the operators make.
Nodes == Frames \cup {Header}

LEMMA DetachUpdates ==
    ASSUME NEW l, ListTypeOK(l), NEW f \in Frames
    PROVE  /\ ListTypeOK(Detached(l, f))
           /\ Detached(l, f).next = [l.next EXCEPT ![f] = Null]
           /\ Detached(l, f).prev = [l.prev EXCEPT ![f] = Null]
           /\ Detached(l, f).tail = l.tail
<1>1. ListTypeOK(Detached(l, f))
  BY DEF ListTypeOK, Detached
<1>2. /\ Detached(l, f).next = [l.next EXCEPT ![f] = Null]
      /\ Detached(l, f).prev = [l.prev EXCEPT ![f] = Null]
      /\ Detached(l, f).tail = l.tail
  BY DEF ListTypeOK, Detached
<1>3. QED
  BY <1>1, <1>2

LEMMA AppendUpdates ==
    ASSUME NEW l, ListTypeOK(l), NEW f \in Frames
    PROVE  /\ ListTypeOK(AppendFrame(l, f))
           /\ AppendFrame(l, f).next = [l.next EXCEPT ![l.tail] = f]
           /\ AppendFrame(l, f).prev = [l.prev EXCEPT ![f] = l.tail]
           /\ AppendFrame(l, f).tail = f
<1>1. ListTypeOK(AppendFrame(l, f))
  BY DEF ListTypeOK, AppendFrame, AppendForward
<1>2. AppendFrame(l, f).next = [l.next EXCEPT ![l.tail] = f]
  BY DEF ListTypeOK, AppendFrame, AppendForward
<1>3. AppendFrame(l, f).prev = [l.prev EXCEPT ![f] = l.tail]
  BY DEF ListTypeOK, AppendFrame, AppendForward
<1>4. AppendFrame(l, f).tail = f
  BY DEF ListTypeOK, AppendFrame, AppendForward
<1>5. QED
  BY <1>1, <1>2, <1>3, <1>4

LEMMA BypassUpdates ==
    ASSUME NEW l, ListTypeOK(l), NEW f \in Frames, l.next[f] \in Nodes, l.prev[f] \in Nodes
    PROVE  /\ ListTypeOK(Bypass(l, f))
           /\ Bypass(l, f).next = [l.next EXCEPT ![l.prev[f]] = l.next[f]]
           /\ Bypass(l, f).prev = [l.prev EXCEPT ![l.next[f]] = l.prev[f]]
           /\ Bypass(l, f).tail = l.tail
<1>1. ListTypeOK(Bypass(l, f))
  BY DEF ListTypeOK, Bypass, Nodes
<1>2. /\ Bypass(l, f).next = [l.next EXCEPT ![l.prev[f]] = l.next[f]]
      /\ Bypass(l, f).prev = [l.prev EXCEPT ![l.next[f]] = l.prev[f]]
      /\ Bypass(l, f).tail = l.tail
  BY DEF ListTypeOK, Bypass
<1>3. QED
  BY <1>1, <1>2

\* A frame taken from between its neighbours and linked again at the end.
LEMMA BypassAppend ==
    ASSUME NEW l, ListTypeOK(l), NEW f \in Frames, l.next[f] \in Nodes, l.prev[f] \in Nodes
    PROVE  LET m == AppendFrame(Detached(Bypass(l, f), f), f)
           IN  /\ ListTypeOK(m) /\ m.tail = f
               /\ m.next = [l.next EXCEPT ![l.prev[f]] = l.next[f], ![f] = Null, ![l.tail] = f]
               /\ m.prev = [l.prev EXCEPT ![l.next[f]] = l.prev[f], ![f] = l.tail]
<1> DEFINE b == Bypass(l, f)
           d == Detached(b, f)
           m == AppendFrame(d, f)
<1>1. /\ ListTypeOK(b) /\ b.tail = l.tail
      /\ b.next = [l.next EXCEPT ![l.prev[f]] = l.next[f]]
      /\ b.prev = [l.prev EXCEPT ![l.next[f]] = l.prev[f]]
  BY BypassUpdates
<1>. HIDE DEF b
<1>2. /\ ListTypeOK(d) /\ d.tail = b.tail
      /\ d.next = [b.next EXCEPT ![f] = Null] /\ d.prev = [b.prev EXCEPT ![f] = Null]
  BY <1>1, DetachUpdates
<1>. HIDE DEF d
<1>3. /\ ListTypeOK(m) /\ m.tail = f
      /\ m.next = [d.next EXCEPT ![d.tail] = f] /\ m.prev = [d.prev EXCEPT ![f] = d.tail]
  <2>1. ListTypeOK(d)
    BY <1>2
  <2>2. QED
    BY <2>1, AppendUpdates
<1>. HIDE DEF m
<1>4. m.next = [l.next EXCEPT ![l.prev[f]] = l.next[f], ![f] = Null, ![l.tail] = f]
  BY <1>1, <1>2, <1>3 DEF ListTypeOK
<1>5. m.prev = [l.prev EXCEPT ![l.next[f]] = l.prev[f], ![f] = l.tail]
  BY <1>1, <1>2, <1>3 DEF ListTypeOK
<1>6. QED
  BY <1>3, <1>4, <1>5 DEF m, d, b

\* Two kinds of steps move a frame to the end: a hit, and a replacement.
LEMMA HitMoves ==
    ASSUME maxLen \in Nat, NEW l, ListTypeOK(l), NEW s, Linked(l, s), NEW i \in 1 .. Len(s)
    PROVE  LET m == MoveToTail(l, s[i])
           IN  /\ ListTypeOK(m)
               /\ Linked(m, MovedToEnd(s, i))
               /\ \A g \in Frames \ ToSet(s) : m.next[g] = l.next[g]
<1> DEFINE m == MoveToTail(l, s[i])
           n == Len(s)
<1>1. /\ s \in Seq(Frames) /\ n = Len(s) /\ n \in Nat /\ n > 0 /\ i \in 1 .. n
      /\ \A j \in 1 .. n : s[j] \in Frames
  BY DEF Linked
<1>2. CASE i = n
  <2>1. m = l
    BY <1>2 DEF Linked, MoveToTail
  <2>2. MovedToEnd(s, i) = s
    <3>1. MovedToEnd(s, i) \in Seq(Frames) /\ Len(MovedToEnd(s, i)) = n
      BY <1>1, MovedIsSeq DEF Linked
    <3>2. \A j \in 1 .. n : MovedToEnd(s, i)[j] = s[j]
      BY <1>1, <1>2 DEF MovedToEnd
    <3>3. QED
      BY <1>1, <3>1, <3>2
  <2>3. QED
    BY <2>1, <2>2
<1>3. CASE i \in 1 .. n - 1
  <2>1. /\ l.next[s[i]] = s[i + 1] /\ s[i + 1] \in Frames /\ l.tail = s[n]
        /\ i + 1 \in 1 .. n
    BY <1>1, <1>3 DEF Linked, First, Distinct
  <2>2. l.prev[s[i]] \in Frames \cup {Header} /\ l.prev[s[i]] # Null
    <3>1. l.prev[s[i]] = IF i = 1 THEN Header ELSE s[i - 1]
      BY <1>1, <1>3 DEF Linked, First, Distinct
    <3>2. QED
      BY <1>1, <3>1, NodesDiffer
  <2>3. m = AppendFrame(Detached(Bypass(l, s[i]), s[i]), s[i])
    BY <1>1, <2>1, NodesDiffer DEF MoveToTail
  <2>4. s[i] \in Frames /\ l.next[s[i]] \in Nodes /\ l.prev[s[i]] \in Nodes
    BY <1>1, <2>1, <2>2 DEF Nodes
  <2>5. /\ m.next = [l.next EXCEPT ![l.prev[s[i]]] = s[i + 1], ![s[i]] = Null, ![s[n]] = s[i]]
        /\ m.prev = [l.prev EXCEPT ![s[i + 1]] = l.prev[s[i]], ![s[i]] = s[n]]
        /\ m.tail = s[i]
        /\ ListTypeOK(m)
    <3> DEFINE f == s[i]
               b == AppendFrame(Detached(Bypass(l, f), f), f)
    <3>1. /\ ListTypeOK(b) /\ b.tail = f
          /\ b.next = [l.next EXCEPT ![l.prev[f]] = l.next[f], ![f] = Null, ![l.tail] = f]
          /\ b.prev = [l.prev EXCEPT ![l.next[f]] = l.prev[f], ![f] = l.tail]
      BY <2>4, BypassAppend
    <3>. HIDE DEF m, b
    <3>2. m = b
      BY <2>3 DEF b
    <3>3. QED
      BY <2>1, <3>1, <3>2
  <2>. HIDE DEF m
  <2>6. Linked(m, MovedToEnd(s, i))
    BY <1>3, <2>5, LinksMoved
  <2>7. ASSUME NEW g \in Frames \ ToSet(s) PROVE m.next[g] = l.next[g]
    <3>1. \A j \in 1 .. n : g # s[j]
      BY <1>1 DEF ToSet
    <3>2. g # l.prev[s[i]]
      <4>1. l.prev[s[i]] = IF i = 1 THEN Header ELSE s[i - 1]
        BY <1>1, <1>3 DEF Linked, First, Distinct
      <4>2. QED
        BY <1>1, <3>1, <4>1, NodesDiffer
    <3>3. QED
      BY <1>1, <2>5, <3>1, <3>2 DEF ListTypeOK
  <2>8. QED
    BY <2>5, <2>6, <2>7 DEF m
<1>4. QED
  BY <1>1, <1>2, <1>3

\* A replacement takes the first frame off as a hit would.
LEMMA PopIsBypass ==
    ASSUME maxLen \in Nat, NEW l, ListTypeOK(l), NEW s, Linked(l, s), Len(s) > 1
    PROVE  /\ PopFirst(l) = Detached(Bypass(l, s[1]), s[1])
           /\ ListTypeOK(PopFirst(l))
           /\ PopFirst(l).next = [l.next EXCEPT ![Header] = s[2], ![s[1]] = Null]
<1>1. /\ s[1] \in Frames /\ s[2] \in Frames /\ s[2] # Null /\ First(l) = s[1] /\ s[1] # Header
      /\ l.next[s[1]] = s[2] /\ l.prev[s[1]] = Header
  <2>1. 1 \in 1 .. Len(s) /\ 2 \in 1 .. Len(s) /\ 1 \in 1 .. Len(s) - 1
    BY DEF Linked
  <2>2. QED
    BY <2>1, NodesDiffer DEF Linked
<1>2. PopFirst(l) = Detached(Bypass(l, s[1]), s[1])
  BY <1>1 DEF PopFirst, Bypass
<1> DEFINE b == Bypass(l, s[1])
<1>3. ListTypeOK(b) /\ b.next = [l.next EXCEPT ![Header] = s[2]]
  <2>1. ListTypeOK(b) /\ b.next = [l.next EXCEPT ![l.prev[s[1]]] = l.next[s[1]]]
    BY <1>1, BypassUpdates DEF Nodes
  <2>. HIDE DEF b
  <2>2. QED
    BY <1>1, <2>1
<1>. HIDE DEF b
<1>4. ListTypeOK(Detached(b, s[1])) /\ Detached(b, s[1]).next = [b.next EXCEPT ![s[1]] = Null]
  BY <1>1, <1>3, DetachUpdates
<1>5. QED
  BY <1>2, <1>3, <1>4 DEF b

\* With three frames or more a replacement moves the first one to the end.
LEMMA RequeueMoves ==
    ASSUME maxLen \in Nat, NEW l, ListTypeOK(l), NEW s, Linked(l, s), Len(s) > 2
    PROVE  LET m == RequeueFirst(l)
           IN  /\ ListTypeOK(m)
               /\ Linked(m, MovedToEnd(s, 1))
               /\ \A g \in Frames \ ToSet(s) : m.next[g] = l.next[g]
<1> DEFINE popped == PopFirst(l)
<1>1. /\ 1 \in 1 .. Len(s) /\ 2 \in 1 .. Len(s) /\ 3 \in 1 .. Len(s)
      /\ 1 \in 1 .. Len(s) - 1 /\ 2 \in 1 .. Len(s) - 1 /\ Len(s) > 1
  BY DEF Linked
<1>2. /\ s[1] \in Frames /\ s[2] \in Frames /\ s[3] \in Frames /\ s[1] # s[2] /\ s[2] # s[3]
      /\ First(l) = s[1] /\ l.next[s[1]] = s[2] /\ l.next[s[2]] = s[3]
  <2>1. l.next[s[2]] = s[2 + 1] /\ l.next[s[1]] = s[1 + 1]
    BY <1>1 DEF Linked
  <2>2. QED
    BY <1>1, <2>1 DEF Linked, Distinct
<1>3. /\ popped = Detached(Bypass(l, s[1]), s[1])
      /\ popped.next = [l.next EXCEPT ![Header] = s[2], ![s[1]] = Null]
  BY <1>1, PopIsBypass
<1>. HIDE DEF popped
<1>4. popped.next[Header] = s[2] /\ popped.next[s[2]] = s[3]
  BY <1>2, <1>3, NodesDiffer DEF ListTypeOK
<1>5. RequeueFirst(l) = AppendFrame(popped, s[1])
  BY <1>2, <1>4, NodesDiffer DEF RequeueFirst, First, popped
<1>6. MoveToTail(l, s[1]) = AppendFrame(popped, s[1])
  BY <1>2, <1>3, NodesDiffer DEF MoveToTail
<1>7. QED
  BY <1>1, <1>5, <1>6, HitMoves

\* A frame nothing follows stays where it is when it is replaced.
LEMMA RequeueLast ==
    ASSUME maxLen \in Nat, NEW l, ListTypeOK(l), First(l) \in Frames, l.next[First(l)] = Null
    PROVE  ListTypeOK(RequeueFirst(l)) /\ RequeueFirst(l).next = l.next
<1> DEFINE f == First(l)
           d == Detached(l, f)
<1>1. PopFirst(l) = d
  BY DEF PopFirst
<1>2. ListTypeOK(d) /\ d.next = [l.next EXCEPT ![f] = Null]
  BY DetachUpdates
<1>. HIDE DEF d
<1>3. d.next = l.next
  BY <1>2 DEF ListTypeOK
<1>4. RequeueFirst(l) = d
  BY <1>1, <1>3 DEF RequeueFirst, First
<1>5. QED
  BY <1>2, <1>3, <1>4

\* With two frames the first one is lost: nothing leads to it any more.
LEMMA RequeueLoses ==
    ASSUME maxLen \in Nat, NEW l, ListTypeOK(l), NEW s, Linked(l, s), Len(s) <= 2
    PROVE  LET m == RequeueFirst(l)
           IN  /\ ListTypeOK(m)
               /\ First(m) \in ToSet(s)
               /\ \A g \in ToSet(s) : m.next[g] = Null
               /\ \A g \in Frames \ ToSet(s) : m.next[g] = l.next[g]
<1>1. s \in Seq(Frames) /\ Len(s) \in Nat /\ Len(s) > 0 /\ 1 \in 1 .. Len(s) /\ First(l) = s[1]
  BY DEF Linked
<1>2. CASE Len(s) = 1
  <2>1. ToSet(s) = {s[1]} /\ s[1] \in Frames /\ l.next[s[1]] = Null
    BY <1>1, <1>2 DEF Linked, ToSet
  <2>2. ListTypeOK(RequeueFirst(l)) /\ RequeueFirst(l).next = l.next
    BY <1>1, <2>1, RequeueLast
  <2>3. QED
    BY <1>1, <2>1, <2>2 DEF First
<1>3. CASE Len(s) = 2
  <2> DEFINE popped == PopFirst(l)
  <2>1. /\ ToSet(s) = {s[1], s[2]} /\ s[1] \in Frames /\ s[2] \in Frames /\ s[1] # s[2]
        /\ l.next[s[2]] = Null
    <3>1. 1 \in 1 .. Len(s) /\ 2 \in 1 .. Len(s) /\ DOMAIN s = 1 .. 2
      BY <1>1, <1>3
    <3>2. ToSet(s) = {s[1], s[2]}
      BY <3>1 DEF ToSet
    <3>3. s[1] \in Frames /\ s[2] \in Frames
      BY <1>1, <3>1
    <3>4. s[1] # s[2]
      BY <3>1 DEF Linked, Distinct
    <3>5. QED
      BY <1>3, <3>2, <3>3, <3>4 DEF Linked
  <2>2. /\ ListTypeOK(popped)
        /\ popped.next = [l.next EXCEPT ![Header] = s[2], ![s[1]] = Null]
    <3>1. Len(s) > 1
      BY <1>3
    <3>2. QED
      BY <3>1, PopIsBypass
  <2>. HIDE DEF popped
  <2>3. popped.next[Header] = s[2] /\ popped.next[s[2]] = Null /\ popped.next[s[1]] = Null
    BY <2>1, <2>2, NodesDiffer DEF ListTypeOK
  <2>4. RequeueFirst(l) = popped
    BY <2>3 DEF RequeueFirst, First, popped
  <2>5. \A g \in Frames \ ToSet(s) : popped.next[g] = l.next[g]
    BY <2>1, <2>2, NodesDiffer DEF ListTypeOK
  <2>6. First(popped) \in ToSet(s) /\ \A g \in ToSet(s) : popped.next[g] = Null
    BY <2>1, <2>3 DEF First
  <2>7. First(RequeueFirst(l)) \in ToSet(s) /\ ListTypeOK(RequeueFirst(l))
    BY <2>2, <2>4, <2>6
  <2>8. /\ \A g \in ToSet(s) : RequeueFirst(l).next[g] = Null
        /\ \A g \in Frames \ ToSet(s) : RequeueFirst(l).next[g] = l.next[g]
    BY <2>4, <2>5, <2>6
  <2>9. QED
    BY <2>7, <2>8
<1>4. QED
  <2> DEFINE n == Len(s)
  <2>1. n \in Nat /\ n > 0 /\ n <= 2
    BY <1>1
  <2>. HIDE DEF n
  <2>2. n = 1 \/ n = 2
    BY <2>1
  <2>3. QED
    BY <1>2, <1>3, <2>2 DEF n

\* A frame that comes into use is linked at the end.
LEMMA AppendLinks ==
    ASSUME maxLen \in Nat, NEW l, ListTypeOK(l), NEW s, Linked(l, s),
           NEW f \in Frames \ ToSet(s), l.next[f] = Null
    PROVE  Linked(AppendFrame(l, f), Append(s, f)) /\ ToSet(Append(s, f)) = ToSet(s) \cup {f}
<1> DEFINE m == AppendFrame(l, f)
           t == Append(s, f)
           n == Len(s)
<1>1. /\ m.next = [l.next EXCEPT ![l.tail] = f]
      /\ m.prev = [l.prev EXCEPT ![f] = l.tail] /\ m.tail = f
  BY AppendUpdates
<1>2. /\ s \in Seq(Frames) /\ n = Len(s) /\ n \in Nat /\ n > 0 /\ l.tail = s[n]
      /\ \A j \in 1 .. n : s[j] \in Frames /\ s[j] # f /\ s[j] # Header
  BY NodesDiffer DEF Linked, ToSet
<1>3. /\ t \in Seq(Frames) /\ Len(t) = n + 1 /\ t[n + 1] = f
      /\ \A j \in 1 .. n : t[j] = s[j]
  BY <1>2
<1>. HIDE DEF m, t, n
<1>4. Distinct(t)
  BY <1>2, <1>3 DEF Distinct, Linked
<1>5. First(m) = t[1] /\ m.prev[t[1]] = Header
  <2>1. 1 \in 1 .. n /\ n \in 1 .. n
    BY <1>2
  <2>2. QED
    BY <1>1, <1>2, <1>3, <2>1, NodesDiffer DEF Linked, First, ListTypeOK
<1>6. m.next[f] = Null
  <2>1. n \in 1 .. n
    BY <1>2
  <2>2. QED
    BY <1>1, <1>2, <2>1 DEF ListTypeOK
<1>7. ASSUME NEW j \in 1 .. n PROVE m.next[t[j]] = t[j + 1] /\ m.prev[t[j + 1]] = t[j]
  <2>1. CASE j = n
    BY <1>1, <1>2, <1>3, <2>1 DEF ListTypeOK
  <2>2. CASE j < n
    <3>1. j \in 1 .. n - 1 /\ j + 1 \in 1 .. n /\ n \in 1 .. n
      BY <1>2, <2>2
    <3>2. /\ l.next[s[j]] = s[j + 1] /\ l.prev[s[j + 1]] = s[j] /\ s[j] # s[n]
      BY <1>2, <2>2, <3>1 DEF Linked, Distinct, n
    <3>3. t[j] = s[j] /\ t[j + 1] = s[j + 1]
      BY <1>3, <3>1
    <3>4. QED
      BY <1>1, <1>2, <3>1, <3>2, <3>3 DEF ListTypeOK
  <2>3. QED
    BY <1>2, <2>1, <2>2
<1>8. ToSet(t) = ToSet(s) \cup {f}
  <2>1. DOMAIN t = 1 .. n + 1 /\ DOMAIN s = 1 .. n
    BY <1>2, <1>3
  <2>2. QED
    BY <1>2, <1>3, <2>1 DEF ToSet
<1>9. Linked(m, t)
  BY <1>1, <1>2, <1>3, <1>4, <1>5, <1>6, <1>7 DEF Linked
<1>10. QED
  BY <1>8, <1>9 DEF m, t

----------------------------------------------------------------------------
\* The frames under LRU.

FrameTypesOK ==
    /\ maxLen \in FrameCounts /\ maxLen \in Nat \ {0} /\ len \in 0 .. maxLen
    /\ phyMem \in [Frames -> Pages \cup {NoPage}]

(***************************************************************************)
(* The list links the loaded frames, or it lost frames when there were     *)
(* only two (or one): then no frame leads to another and the first stays.  *)
(***************************************************************************)
Shape(l) ==
    /\ ListTypeOK(l)
    /\ \A f \in Frames \ Loaded : l.next[f] = Null
    /\ \/ len = 0 /\ l.tail = Header /\ First(l) = Header
       \/ \E s : Linked(l, s) /\ ToSet(s) = Loaded
       \/ /\ Full /\ maxLen <= 2
          /\ First(l) \in Loaded /\ \A f \in Loaded : l.next[f] = Null

LRUList == Shape(list)

\* The steps of the code follow no NULL pointer.
LEMMA ListFollowed ==
    ASSUME FrameTypesOK, LRUList
    PROVE  /\ len > 0 => First(list) \in Loaded
           /\ \A f \in Loaded : list.next[f] # Null => list.prev[f] # Null
<1>1. CASE len = 0
  BY <1>1 DEF Loaded
<1>2. ASSUME NEW s, Linked(list, s), ToSet(s) = Loaded
      PROVE  /\ First(list) \in Loaded
             /\ \A f \in Loaded : list.next[f] # Null => list.prev[f] # Null
  <2>1. s \in Seq(Frames) /\ 1 \in 1 .. Len(s) /\ First(list) = s[1] /\ DOMAIN s = 1 .. Len(s)
    BY <1>2 DEF Linked
  <2>2. ASSUME NEW j \in 1 .. Len(s) PROVE list.prev[s[j]] # Null
    <3>1. CASE j = 1
      BY <1>2, <3>1, NodesDiffer DEF Linked, FrameTypesOK
    <3>2. CASE j > 1
      <4>1. j - 1 \in 1 .. Len(s) - 1 /\ j - 1 \in 1 .. Len(s) /\ (j - 1) + 1 = j
        BY <2>1, <3>2
      <4>2. list.prev[s[j]] = s[j - 1] /\ s[j - 1] \in Frames
        BY <1>2, <2>1, <4>1 DEF Linked
      <4>3. QED
        BY <4>2, NodesDiffer DEF FrameTypesOK
    <3>3. QED
      BY <2>1, <3>1, <3>2
  <2>3. QED
    BY <1>2, <2>1, <2>2 DEF ToSet
<1>3. QED
  BY <1>1, <1>2 DEF LRUList, Shape

\* A hit keeps the list in shape.
LEMMA HitKeepsList ==
    ASSUME FrameTypesOK, LRUList, NEW f \in Loaded,
           list' = MoveToTail(list, f), UNCHANGED <<maxLen, len>>
    PROVE  LRUList'
<1> DEFINE m == MoveToTail(list, f)
<1>1. Shape(m)
  <2>1. CASE list.next[f] = Null
    BY <2>1 DEF MoveToTail, LRUList
  <2>2. ASSUME NEW s, Linked(list, s), ToSet(s) = Loaded
        PROVE  Shape(m)
    <3>1. PICK i \in 1 .. Len(s) : f = s[i]
      BY <2>2 DEF Linked, ToSet
    <3>2. /\ ListTypeOK(m) /\ Linked(m, MovedToEnd(s, i))
          /\ \A g \in Frames \ ToSet(s) : m.next[g] = list.next[g]
      BY <2>2, <3>1, HitMoves DEF LRUList, Shape, FrameTypesOK
    <3>3. ToSet(MovedToEnd(s, i)) = Loaded
      BY <2>2, <3>1, MovedIsSeq DEF Linked
    <3>. HIDE DEF m
    <3>4. QED
      BY <2>2, <3>2, <3>3 DEF Shape, LRUList
  <2>3. QED
    BY <2>1, <2>2 DEF LRUList, Shape, FrameTypesOK, Loaded
<1>. HIDE DEF m
<1>2. QED
  BY <1>1 DEF LRUList, Shape, ListTypeOK, Linked, Full, Loaded, Frames, m

\* So does a replacement, although it may lose frames.
LEMMA ReplaceKeepsList ==
    ASSUME FrameTypesOK, LRUList, NEW page, ReuseFirst(page), UNCHANGED maxLen
    PROVE  LRUList' /\ First(list) \in Loaded
<1> DEFINE m == RequeueFirst(list)
<1>1. /\ Full /\ list' = m /\ len' = len /\ maxLen \in Nat /\ len > 0 /\ Loaded \subseteq Frames
      /\ ListTypeOK(list)
  BY DEF ReuseFirst, FrameTypesOK, Loaded, Frames, Full, LRUList, Shape
<1>2. First(list) \in Loaded
  BY <1>1, ListFollowed
<1>3. Shape(m)
  <2>1. CASE maxLen <= 2 /\ \A f \in Loaded : list.next[f] = Null
    <3>1. ListTypeOK(m) /\ m.next = list.next
      BY <1>1, <1>2, <2>1, RequeueLast
    <3>. HIDE DEF m
    <3>2. QED
      BY <1>1, <1>2, <2>1, <3>1 DEF Shape, First, LRUList
  <2>2. ASSUME NEW s, Linked(list, s), ToSet(s) = Loaded
        PROVE  Shape(m)
    <3>1. CASE Len(s) > 2
      <4>1. /\ ListTypeOK(m) /\ Linked(m, MovedToEnd(s, 1))
            /\ \A g \in Frames \ ToSet(s) : m.next[g] = list.next[g]
        BY <1>1, <2>2, <3>1, RequeueMoves
      <4>2. ToSet(MovedToEnd(s, 1)) = Loaded
        BY <2>2, <3>1, MovedIsSeq DEF Linked
      <4>. HIDE DEF m
      <4>3. QED
        BY <2>2, <4>1, <4>2 DEF Shape, LRUList
    <3>2. CASE Len(s) <= 2
      <4>1. /\ ListTypeOK(m) /\ First(m) \in ToSet(s)
            /\ \A g \in ToSet(s) : m.next[g] = Null
            /\ \A g \in Frames \ ToSet(s) : m.next[g] = list.next[g]
        BY <1>1, <2>2, <3>2, RequeueLoses
      <4>2. maxLen <= 2
        <5>1. DOMAIN s = 1 .. Len(s) /\ \A i \in 1 .. Len(s) : i = 1 \/ i = 2
          BY <2>2, <3>2 DEF Linked
        <5>2. \A f \in ToSet(s) : f = s[1] \/ f = s[2]
          BY <5>1 DEF ToSet
        <5>3. maxLen > 2 => 0 \in ToSet(s) /\ 1 \in ToSet(s) /\ 2 \in ToSet(s)
          BY <1>1, <2>2 DEF Loaded, Full
        <5>4. QED
          BY <1>1, <5>2, <5>3
      <4>. HIDE DEF m
      <4>3. QED
        BY <1>1, <2>2, <4>1, <4>2 DEF Shape, LRUList
    <3>3. QED
      BY <2>2, <3>1, <3>2 DEF Linked
  <2>3. QED
    BY <1>1, <2>1, <2>2 DEF LRUList, Shape
<1>. HIDE DEF m
<1>4. QED
  BY <1>1, <1>2, <1>3 DEF LRUList, Shape, ListTypeOK, Linked, Full, Loaded, Frames, m

\* A frame that is loaded the first time is linked behind the others.
LEMMA LoadKeepsList ==
    ASSUME FrameTypesOK, LRUList, PHYMEMCOUNT = len, NEW page, TakeFrame(page), UNCHANGED maxLen
    PROVE  LRUList'
<1> DEFINE f == PHYMEMCOUNT
           m == AppendFrame(list, f)
<1>1. /\ ~Full /\ list' = m /\ len' = len + 1 /\ maxLen \in Nat /\ len \in Nat /\ len < maxLen
      /\ f \in Frames \ Loaded /\ ListTypeOK(list) /\ list.next[f] = Null
      /\ Loaded' = Loaded \cup {f} /\ Frames' = Frames
  BY DEF TakeFrame, FrameTypesOK, Loaded, Frames, Full, LRUList, Shape
<1>2. ListTypeOK(m) /\ m.next = [list.next EXCEPT ![list.tail] = f]
  BY <1>1, AppendUpdates
<1>3. \E s : Linked(m, s) /\ ToSet(s) = Loaded \cup {f}
  <2>1. CASE len = 0 /\ list.tail = Header
    <3>1. /\ m.next = [list.next EXCEPT ![Header] = f]
          /\ m.prev = [list.prev EXCEPT ![f] = Header] /\ m.tail = f
      BY <1>1, <2>1, AppendUpdates
    <3>2. Linked(m, <<f>>)
      BY <1>1, <3>1, NodesDiffer DEF Linked, Distinct, First, ListTypeOK
    <3>3. ToSet(<<f>>) = Loaded \cup {f}
      BY <1>1, <2>1 DEF ToSet, Loaded
    <3>4. QED
      BY <3>2, <3>3
  <2>2. ASSUME NEW s, Linked(list, s), ToSet(s) = Loaded
        PROVE  Linked(m, Append(s, f)) /\ ToSet(Append(s, f)) = Loaded \cup {f}
    BY <1>1, <2>2, AppendLinks
  <2>3. QED
    BY <1>1, <2>1, <2>2 DEF LRUList, Shape
<1>4. \A g \in Frames \ (Loaded \cup {f}) : m.next[g] = Null
  <2>1. list.tail \in Loaded \cup {Header}
    <3>1. ASSUME NEW s, Linked(list, s), ToSet(s) = Loaded PROVE list.tail \in Loaded
      BY <3>1 DEF Linked, ToSet
    <3>2. QED
      BY <1>1, <3>1 DEF LRUList, Shape
  <2>2. QED
    BY <1>1, <1>2, <2>1, NodesDiffer DEF LRUList, Shape, ListTypeOK
<1>. HIDE DEF m, f
<1>5. ListTypeOK(list)' /\ \A g \in Frames' \ Loaded' : list'.next[g] = Null
  BY <1>1, <1>2, <1>4 DEF ListTypeOK
<1>6. \E s : Linked(list, s)' /\ ToSet(s) = Loaded'
  BY <1>1, <1>3 DEF Linked, First, Distinct
<1>7. QED
  BY <1>5, <1>6 DEF LRUList, Shape

\* The list the simulations start with.
LEMMA NewListShape ==
    ASSUME SimInit
    PROVE  LRUList /\ FrameTypesOK
<1>1. maxLen \in Nat \ {0} /\ len = 0 /\ Frames = 0 .. maxLen - 1 /\ list = NewList(Frames)
  BY VMAssumption DEF SimInit, Frames
<1>2. /\ ListTypeOK(list) /\ list.tail = Header /\ First(list) = Header
      /\ \A f \in Frames : list.next[f] = Null
  BY <1>1, NodesDiffer DEF NewList, ListTypeOK, First
<1>3. FrameTypesOK
  BY <1>1 DEF SimInit, FrameTypesOK, Frames
<1>4. QED
  BY <1>1, <1>2, <1>3 DEF LRUList, Shape

----------------------------------------------------------------------------
\* Frames and the valid entries of the page tables.

\* The frames of L hold the pages of V, each page in one frame.
Agree(V, m, L) ==
    /\ V = {m[f] : f \in L}
    /\ \A f, g \in L : m[f] = m[g] => f = g

LEMMA LoadAgrees ==
    ASSUME NEW F, NEW P, NEW m \in [F -> P], NEW L \in SUBSET F, NEW V, Agree(V, m, L),
           NEW f \in F \ L, NEW page, page \notin V
    PROVE  Agree(V \cup {page}, [m EXCEPT ![f] = page], L \cup {f})
<1> DEFINE t == [m EXCEPT ![f] = page]
<1>1. t[f] = page /\ \A g \in L : t[g] = m[g]
  OBVIOUS
<1>. HIDE DEF t
<1>2. QED
  BY <1>1 DEF Agree, t

LEMMA ReplaceAgrees ==
    ASSUME NEW F, NEW P, NEW m \in [F -> P], NEW L \in SUBSET F, NEW V, Agree(V, m, L),
           NEW f \in L, NEW page, page \notin V
    PROVE  Agree((V \ {m[f]}) \cup {page}, [m EXCEPT ![f] = page], L) /\ m[f] \in V
<1> DEFINE t == [m EXCEPT ![f] = page]
<1>1. t[f] = page /\ \A g \in L \ {f} : t[g] = m[g] /\ m[g] # m[f] /\ m[g] # page
  BY DEF Agree
<1>. HIDE DEF t
<1>2. (V \ {m[f]}) \cup {page} = {t[g] : g \in L}
  BY <1>1 DEF Agree
<1>3. \A g, h \in L : t[g] = t[h] => g = h
  BY <1>1 DEF Agree
<1>4. QED
  BY <1>2, <1>3 DEF Agree, t

----------------------------------------------------------------------------
\* The rounds over the traces.

HistoryOK == recency \in Seq(Pages)

(***************************************************************************)
(* In a round the processes before turn have made one reference more than  *)
(* the others, except those whose trace was at its end (eofs of them, and  *)
(* then this round is the last).                                           *)
(***************************************************************************)
RoundInv ==
    /\ turn \in Procs /\ eofs \in 0 .. turn /\ done \in BOOLEAN
    /\ ntraces \in [Procs -> 0 .. MaxTraces]
    /\ numPageHit \in [Procs -> Nat] /\ numPageFault \in [Procs -> Nat]
    /\ HistoryOK
    /\ \A j \in Procs : numPageHit[j] + numPageFault[j] = ntraces[j]
    /\ \E b \in Nat :
          /\ \A j \in Procs : ntraces[j] \in {b, b + 1}
          /\ ~done => \A j \in Procs :
                /\ j >= turn => ntraces[j] = b
                /\ j < turn /\ eofs = 0 => ntraces[j] = b + 1

LEMMA InitRounds ==
    ASSUME SimInit
    PROVE  RoundInv
<1>1. numProcess \in Nat /\ numProcess > 0 /\ MaxTraces \in Nat /\ 0 \in Procs
  BY VMAssumption DEF Procs
<1>2. HistoryOK
  BY DEF SimInit, HistoryOK
<1>3. QED
  BY <1>1, <1>2 DEF SimInit, RoundInv, Procs

\* A reference moves its page to the end of the history.
LEMMA ReferenceRecency ==
    ASSUME recency \in Seq(Pages), turn \in Procs, NEW vpn \in Vpns, References(vpn)
    PROVE  /\ recency' \in Seq(Pages)
           /\ ToSet(recency') = ToSet(recency) \cup {<<turn, vpn>>}
           /\ LastReferenced' = <<turn, vpn>>
<1>. DEFINE page == <<turn, vpn>>
<1>1. page \in Pages /\ recency' = Append(RemoveFirst(recency, page), page)
  BY DEF Pages, References
<1>. HIDE DEF page
<1>2. /\ recency' \in Seq(Pages) /\ ToSet(recency') = ToSet(recency) \cup {page}
      /\ recency' # << >> /\ recency'[Len(recency')] = page
  <2>1. \A s \in Seq(Pages), e \in Pages : \A t :
           t = Append(RemoveFirst(s, e), e) =>
               t \in Seq(Pages) /\ ToSet(t) = ToSet(s) \cup {e} /\ t # << >> /\ t[Len(t)] = e
    BY MovedLast, Zenon
  <2>2. QED
    BY <1>1, <2>1, Zenon
<1>3. LastReferenced' = recency'[Len(recency')]
  BY <1>2 DEF LastReferenced, Last
<1>4. QED
  BY <1>2, <1>3 DEF page

LEMMA ReferenceRounds ==
    ASSUME RoundInv, NEW vpn \in Vpns, References(vpn), CountHit \/ CountFault
    PROVE  RoundInv'
<1>1. /\ numProcess \in Nat /\ numProcess > 0 /\ MaxTraces \in Nat /\ ~done
      /\ turn \in Procs /\ turn \in Nat /\ turn < numProcess /\ eofs \in 0 .. turn
      /\ ntraces \in [Procs -> 0 .. MaxTraces] /\ ntraces[turn] < MaxTraces
      /\ ntraces' = [ntraces EXCEPT ![turn] = @ + 1]
      /\ Proceed(eofs) /\ HistoryOK'
  <2>1. /\ ~done /\ ntraces[turn] < MaxTraces /\ Proceed(eofs)
        /\ ntraces' = [ntraces EXCEPT ![turn] = @ + 1]
    BY DEF References
  <2>2. /\ turn \in Procs /\ eofs \in 0 .. turn /\ ntraces \in [Procs -> 0 .. MaxTraces]
    BY DEF RoundInv
  <2>3. HistoryOK'
    BY ReferenceRecency DEF RoundInv, HistoryOK, Pages
  <2>4. QED
    BY <2>1, <2>2, <2>3, VMAssumption DEF Procs
<1>2. PICK b \in Nat : /\ \A j \in Procs : ntraces[j] \in {b, b + 1}
                       /\ \A j \in Procs :
                            /\ j >= turn => ntraces[j] = b
                            /\ j < turn /\ eofs = 0 => ntraces[j] = b + 1
  BY <1>1 DEF RoundInv
<1>3. ntraces' \in [Procs -> 0 .. MaxTraces] /\ ntraces'[turn] = b + 1
      /\ \A j \in Procs \ {turn} : ntraces'[j] = ntraces[j]
  BY <1>1, <1>2
<1>4. /\ numPageHit' \in [Procs -> Nat] /\ numPageFault' \in [Procs -> Nat]
      /\ \A j \in Procs : numPageHit'[j] + numPageFault'[j] = ntraces'[j]
  BY <1>1 DEF RoundInv, CountHit, CountFault
<1>5. CASE turn < numProcess - 1
  <2>1. turn' = turn + 1 /\ eofs' = eofs /\ done' = done /\ turn' \in Procs
    BY <1>1, <1>5 DEF Proceed, Procs
  <2>2. \A j \in Procs : ntraces'[j] \in {b, b + 1}
                         /\ (j >= turn' => ntraces'[j] = b)
                         /\ (j < turn' /\ eofs' = 0 => ntraces'[j] = b + 1)
    BY <1>1, <1>2, <1>3, <2>1 DEF Procs
  <2>3. QED
    BY <1>1, <1>3, <1>4, <2>1, <2>2 DEF RoundInv
<1>6. CASE turn = numProcess - 1
  <2>1. turn' = 0 /\ eofs' = 0 /\ done' \in BOOLEAN /\ (done' <=> eofs > 0) /\ 0 \in Procs
    <3>1. turn' = 0 /\ eofs' = 0 /\ done' = (eofs > 0)
      <4>1. ~(turn < numProcess - 1)
        BY <1>1, <1>6
      <4>2. QED
        BY <1>1, <4>1 DEF Proceed
    <3>2. 0 \in Procs
      BY <1>1 DEF Procs
    <3>3. CASE eofs > 0
      <4>1. (eofs > 0) = TRUE
        BY <3>3
      <4>2. QED
        BY <3>1, <3>2, <3>3, <4>1
    <3>4. CASE ~(eofs > 0)
      <4>1. (eofs > 0) = FALSE
        BY <3>4
      <4>2. QED
        BY <3>1, <3>2, <3>4, <4>1
    <3>5. QED
      BY <3>3, <3>4
  <2>2. \A j \in Procs : j <= turn
    BY <1>1, <1>6 DEF Procs
  <2>3. \A j \in Procs : ntraces'[j] \in {b, b + 1}
    BY <1>2, <1>3
  <2>4. ~done' => \A j \in Procs : ntraces'[j] = b + 1
    BY <1>1, <1>2, <1>3, <2>1, <2>2 DEF Procs
  <2>5. CASE done'
    BY <1>1, <1>3, <1>4, <2>1, <2>3, <2>5 DEF RoundInv
  <2>6. CASE ~done'
    <3>1. /\ \A j \in Procs : ntraces'[j] \in {b + 1, (b + 1) + 1}
          /\ \A j \in Procs : ~(j < turn')
      BY <2>1, <2>4, <2>6 DEF Procs
    <3>2. b + 1 \in Nat
      OBVIOUS
    <3>3. QED
      BY <1>1, <1>3, <1>4, <2>1, <2>4, <2>6, <3>1, <3>2 DEF RoundInv
  <2>7. QED
    BY <2>1, <2>5, <2>6
<1>7. QED
  BY <1>1, <1>5, <1>6

LEMMA EndRounds ==
    ASSUME RoundInv, AtEnd
    PROVE  RoundInv'
<1>1. /\ numProcess \in Nat /\ numProcess > 0 /\ ~done
      /\ turn \in Procs /\ turn \in Nat /\ turn < numProcess /\ eofs \in 0 .. turn
      /\ ntraces' = ntraces /\ numPageHit' = numPageHit /\ numPageFault' = numPageFault
      /\ HistoryOK' /\ Proceed(eofs + 1)
  BY VMAssumption DEF RoundInv, AtEnd, Procs, HistoryOK, Pages
<1>2. PICK b \in Nat : /\ \A j \in Procs : ntraces[j] \in {b, b + 1}
                       /\ \A j \in Procs : j >= turn => ntraces[j] = b
  BY <1>1 DEF RoundInv
<1>3. CASE turn < numProcess - 1
  <2>1. /\ turn' = turn + 1 /\ eofs' = eofs + 1 /\ done' = done /\ turn' \in Procs
        /\ eofs' # 0 /\ eofs' \in 0 .. turn'
    BY <1>1, <1>3 DEF Proceed, Procs
  <2>2. \A j \in Procs : j >= turn' => ntraces[j] = b
    BY <1>1, <1>2, <2>1 DEF Procs
  <2>3. QED
    BY <1>1, <1>2, <2>1, <2>2 DEF RoundInv
<1>4. CASE turn = numProcess - 1
  <2>1. turn' = 0 /\ eofs' = 0 /\ done' = TRUE /\ 0 \in Procs
    <3>1. turn' = 0 /\ eofs' = 0 /\ done' = (eofs + 1 > 0)
      <4>1. ~(turn < numProcess - 1)
        BY <1>1, <1>4
      <4>2. QED
        BY <1>1, <4>1 DEF Proceed
    <3>2. (eofs + 1 > 0) = TRUE
      BY <1>1
    <3>3. 0 \in Procs
      BY <1>1 DEF Procs
    <3>4. QED
      BY <3>1, <3>2, <3>3
  <2>2. QED
    BY <1>1, <1>2, <2>1 DEF RoundInv
<1>5. QED
  BY <1>1, <1>3, <1>4

----------------------------------------------------------------------------
\* The types of the shared state.

LEMMA SimTypes ==
    ASSUME FrameTypesOK, RoundInv, ListTypeOK(list), PHYMEMCOUNT \in 0 .. maxLen
    PROVE  SimTypeOK
<1>1. /\ list.next \in [Frames \cup {Header} -> Frames \cup {Header, Null}]
      /\ list.prev \in [Frames \cup {Header} -> Frames \cup {Header, Null}]
      /\ list.tail \in Frames \cup {Header}
  BY DEF ListTypeOK
<1>2. /\ turn \in Procs /\ eofs \in 0 .. numProcess - 1 /\ done \in BOOLEAN
      /\ ntraces \in [Procs -> 0 .. MaxTraces]
  BY VMAssumption DEF RoundInv, Procs
<1>3. numPageHit \in [Procs -> 0 .. MaxTraces] /\ numPageFault \in [Procs -> 0 .. MaxTraces]
  <2>1. \A j \in Procs : /\ numPageHit[j] \in Nat /\ numPageFault[j] \in Nat
                         /\ numPageHit[j] + numPageFault[j] \in 0 .. MaxTraces
    BY DEF RoundInv
  <2>2. \A j \in Procs : numPageHit[j] \in 0 .. MaxTraces /\ numPageFault[j] \in 0 .. MaxTraces
    BY <2>1, VMAssumption
  <2>3. QED
    BY <2>2 DEF RoundInv
<1>4. ToSet(recency) \subseteq Pages
  <2>1. recency \in Seq(Pages)
    BY DEF RoundInv, HistoryOK
  <2>2. \A i \in 1 .. Len(recency) : recency[i] \in Pages
    BY <2>1, ElementOfSeq
  <2>3. QED
    BY <2>1, <2>2 DEF ToSet
<1>5. QED
  BY <1>1, <1>2, <1>3, <1>4 DEF SimTypeOK, FrameTypesOK

----------------------------------------------------------------------------
\* The order of the list.

\* A walk of n steps from the header meets the frames of s.
Listed(l, s, n) ==
    /\ s \in Seq(Frames) /\ Len(s) <= n
    /\ First(l) = IF s = << >> THEN Header ELSE s[1]
    /\ \A i \in 1 .. Len(s) - 1 : l.next[s[i]] = s[i + 1]
    /\ s # << >> /\ Len(s) < n => l.next[s[Len(s)]] = Null

\* The recursive function of the walk is the one it has to be.
LEMMA HopsAre ==
    ASSUME NEW l, NEW n \in Nat, NEW w,
           w = [k \in 0 .. n |-> IF k = 0 THEN Header
                                 ELSE IF w[k - 1] = Null THEN Null ELSE l.next[w[k - 1]]]
    PROVE  Hops(l, n) = w
<1> DEFINE hop == Hops(l, n)
           following(a) == IF a = Null THEN Null ELSE l.next[a]
<1>1. hop = [k \in 0 .. n |-> IF k = 0 THEN Header
                              ELSE IF hop[k - 1] = Null THEN Null ELSE l.next[hop[k - 1]]]
  BY Zenon DEF Hops
<1>. HIDE DEF hop
<1>2. hop = [k \in 0 .. n |-> IF k = 0 THEN Header ELSE following(hop[k - 1])]
  BY <1>1
<1>3. w = [k \in 0 .. n |-> IF k = 0 THEN Header ELSE following(w[k - 1])]
  OBVIOUS
<1>. HIDE DEF following
<1> DEFINE D == {k \in 0 .. n : hop[k] # w[k]}
<1>4. SUFFICES ASSUME D # {} PROVE FALSE
  <2>1. DOMAIN hop = 0 .. n /\ DOMAIN w = 0 .. n
    BY <1>2, <1>3
  <2>2. D = {} => \A k \in 0 .. n : hop[k] = w[k]
    OBVIOUS
  <2>. HIDE DEF D
  <2>3. D = {} => hop = w
    BY <1>2, <1>3, <2>1, <2>2
  <2>4. QED
    BY <2>3 DEF hop
<1>5. PICK k \in D : \A m \in D : k <= m
  <2>1. D \in SUBSET Nat
    OBVIOUS
  <2>. HIDE DEF D
  <2>2. QED
    BY <1>4, <2>1, LeastNatural
<1>6. k \in 0 .. n /\ k # 0
  BY <1>2, <1>3
<1>7. k - 1 \in 0 .. n /\ hop[k - 1] = w[k - 1]
  BY <1>5, <1>6
<1>8. QED
  BY <1>2, <1>3, <1>5, <1>6, <1>7

LEMMA WalkMeets ==
    ASSUME maxLen \in Nat, NEW l, NEW n \in Nat, NEW s, Listed(l, s, n)
    PROVE  Walk(l, n) = s
<1> DEFINE size == Len(s)
           w == [k \in 0 .. n |-> IF k = 0 \/ s = << >> THEN Header
                                  ELSE IF k <= size THEN s[k] ELSE Null]
<1>1. /\ s \in Seq(Frames) /\ size \in 0 .. n /\ size = Len(s) /\ (s = << >> <=> size = 0)
      /\ \A i \in 1 .. size : s[i] \in Frames /\ s[i] # Null /\ s[i] # Header
      /\ l.next[Header] = IF s = << >> THEN Header ELSE s[1]
      /\ \A i \in 1 .. size - 1 : l.next[s[i]] = s[i + 1]
      /\ s # << >> /\ size < n => l.next[s[size]] = Null
  BY NodesDiffer DEF Listed, First
<1>. HIDE DEF size
<1>2. ASSUME NEW k \in 0 .. n
      PROVE  w[k] = IF k = 0 THEN Header ELSE IF w[k - 1] = Null THEN Null ELSE l.next[w[k - 1]]
  <2>1. CASE k = 0
    BY <2>1
  <2>2. CASE k # 0 /\ s = << >>
    <3>1. k - 1 \in 0 .. n
      BY <2>2
    <3>2. w[k] = Header /\ w[k - 1] = Header
      BY <2>2, <3>1
    <3>3. QED
      BY <1>1, <2>2, <3>2, NodesDiffer
  <2>3. CASE k = 1 /\ s # << >>
    <3>1. w[0] = Header /\ w[1] = s[1]
      BY <1>1, <2>3
    <3>2. QED
      BY <1>1, <2>3, <3>1, NodesDiffer
  <2>4. CASE k > 1 /\ s # << >>
    <3>1. k - 1 \in 0 .. n /\ k - 1 # 0 /\ (k - 1) + 1 = k
      BY <2>4
    <3>2. /\ w[k] = IF k <= size THEN s[k] ELSE Null
          /\ w[k - 1] = IF k - 1 <= size THEN s[k - 1] ELSE Null
      BY <2>4, <3>1
    <3>. HIDE DEF w
    <3>3. CASE k <= size
      <4>1. k - 1 \in 1 .. size - 1 /\ k - 1 \in 1 .. size
        BY <1>1, <2>4, <3>3
      <4>2. l.next[s[k - 1]] = s[k] /\ s[k - 1] # Null
        BY <1>1, <3>1, <4>1
      <4>3. QED
        BY <2>4, <3>2, <3>3, <4>1, <4>2
    <3>4. CASE k - 1 = size
      <4>1. size < n /\ size \in 1 .. size
        BY <1>1, <2>4, <3>4
      <4>2. QED
        BY <1>1, <2>4, <3>2, <3>4, <4>1
    <3>5. CASE k - 1 > size
      BY <1>1, <2>4, <3>2, <3>5
    <3>6. QED
      BY <1>1, <3>3, <3>4, <3>5
  <2>5. QED
    BY <2>1, <2>2, <2>3, <2>4
<1>3. /\ w = [k \in 0 .. n |-> w[k]]
      /\ \A k \in 1 .. n : w[k] = IF s = << >> THEN Header ELSE IF k <= size THEN s[k] ELSE Null
  OBVIOUS
<1>. HIDE DEF w
<1>4. Hops(l, n) = w
  <2> DEFINE hop(k) == IF k = 0 THEN Header
                       ELSE IF w[k - 1] = Null THEN Null ELSE l.next[w[k - 1]]
  <2>1. \A k \in 0 .. n : w[k] = hop(k)
    BY <1>2
  <2>2. w = [k \in 0 .. n |-> hop(k)]
    <3>. HIDE DEF hop
    <3>1. [k \in 0 .. n |-> w[k]] = [k \in 0 .. n |-> hop(k)]
      BY <2>1
    <3>2. QED
      BY <1>3, <3>1
  <2>3. QED
    BY <2>2, HopsAre
<1>7. \A k \in 1 .. size : k \in 1 .. n /\ w[k] = s[k]
  <2>1. ASSUME NEW k \in 1 .. size PROVE k \in 1 .. n /\ k <= size /\ s # << >>
    BY <1>1
  <2>2. QED
    BY <1>3, <2>1
<1>5. {j \in 1 .. n : w[j] \notin {Header, Null}} = 1 .. size
  <2>1. ASSUME NEW j \in 1 .. n, j \notin 1 .. size PROVE w[j] \in {Header, Null}
    <3>1. ~(j <= size)
      BY <1>1, <2>1
    <3>2. QED
      BY <1>3, <3>1
  <2>2. \A j \in 1 .. size : j \in 1 .. n /\ w[j] \notin {Header, Null}
    BY <1>1, <1>7
  <2>3. QED
    BY <2>1, <2>2
<1>6. Walk(l, n) = [k \in 1 .. size |-> w[k]]
  <2>1. Walk(l, n) = [k \in {j \in 1 .. n : w[j] \notin {Header, Null}} |-> w[k]]
    BY <1>4 DEF Walk
  <2>2. QED
    BY <1>5, <2>1
<1>8. s = [k \in 1 .. size |-> s[k]]
  BY <1>1
<1>9. QED
  BY <1>6, <1>7, <1>8

LEMMA DistinctLength ==
    ASSUME NEW n \in Nat, NEW S, NEW s \in Seq(S), Distinct(s), ToSet(s) = 0 .. n - 1
    PROVE  Len(s) = n
<1> DEFINE T == 1 .. Len(s)
           U == 0 .. n - 1
<1>1. Len(s) \in Nat /\ DOMAIN s = T
  OBVIOUS
<1>2. s \in [T -> U]
  BY <1>1 DEF ToSet
<1>3. s \in Injection(T, U) /\ s \in Surjection(T, U)
  <2>1. \A a, b \in T : s[a] = s[b] => a = b
    BY DEF Distinct
  <2>2. \A u \in U : \E a \in T : s[a] = u
    BY <1>1 DEF ToSet
  <2>. HIDE DEF T, U
  <2>3. QED
    BY <1>1, <1>2, <2>1, <2>2 DEF Injection, IsInjective, Surjection
<1>4. IsFiniteSet(T) /\ Cardinality(T) = Len(s) /\ IsFiniteSet(U) /\ Cardinality(U) = n
  <2>1. /\ IsFiniteSet(T) /\ Cardinality(T) = IF 1 > Len(s) THEN 0 ELSE Len(s) - 1 + 1
        /\ IsFiniteSet(U) /\ Cardinality(U) = IF 0 > n - 1 THEN 0 ELSE n - 1 - 0 + 1
    <3>1. \A a, b \in Int : /\ IsFiniteSet(a .. b)
                            /\ Cardinality(a .. b) = IF a > b THEN 0 ELSE b - a + 1
      BY FS_Interval, Zenon
    <3>2. 0 \in Int /\ 1 \in Int /\ Len(s) \in Int /\ n - 1 \in Int
      BY <1>1
    <3>3. QED
      BY <3>1, <3>2, Zenon
  <2>. HIDE DEF T, U
  <2>2. QED
    BY <1>1, <2>1
<1>. HIDE DEF T, U
<1>5. Cardinality(T) = Cardinality(U)
  BY <1>3, <1>4, FS_Injection, Zenon
<1>6. QED
  BY <1>4, <1>5

\* The list leads through the loaded frames, each once.
InOrder(l, s) == Listed(l, s, maxLen) /\ Distinct(s) /\ ToSet(s) = Loaded /\ Len(s) = len

LEMMA LinkedInOrder ==
    ASSUME maxLen \in Nat, len \in 0 .. maxLen, NEW l, NEW s, Linked(l, s), ToSet(s) = Loaded
    PROVE  InOrder(l, s)
<1>1. s \in Seq(Frames) /\ Len(s) > 0 /\ Distinct(s)
  BY DEF Linked
<1>2. Len(s) = len
  BY <1>1, DistinctLength DEF Loaded
<1>3. Listed(l, s, maxLen)
  BY <1>1, <1>2 DEF Listed, Linked
<1>4. QED
  BY <1>1, <1>2, <1>3 DEF InOrder

\* The pages in the frames of s.
PagesOf(m, s) == [i \in 1 .. Len(s) |-> m[s[i]]]

LEMMA PagesListed ==
    ASSUME maxLen \in Nat, NEW s
    PROVE  /\ Listed(list, s, maxLen) => ListedPages = PagesOf(phyMem, s)
           /\ Listed(list', s, maxLen) /\ maxLen' = maxLen => ListedPages' = PagesOf(phyMem', s)
<1>1. \A l : Listed(l, s, maxLen) => Walk(l, maxLen) = s /\ DOMAIN s = 1 .. Len(s)
  BY WalkMeets DEF Listed
<1>2. Listed(list, s, maxLen) => ListedPages = PagesOf(phyMem, s)
  BY <1>1, Zenon DEF ListedPages, PagesOf
<1>3. Listed(list', s, maxLen) /\ maxLen' = maxLen => ListedPages' = PagesOf(phyMem', s)
  BY <1>1, Zenon DEF ListedPages, PagesOf
<1>4. QED
  BY <1>2, <1>3

LEMMA PagesAreSeq ==
    ASSUME NEW m \in [Frames -> Pages \cup {NoPage}], NEW s \in Seq(Frames)
    PROVE  /\ PagesOf(m, s) \in Seq(Pages \cup {NoPage}) /\ Len(PagesOf(m, s)) = Len(s)
           /\ \A i \in 1 .. Len(s) : PagesOf(m, s)[i] = m[s[i]]
           /\ ToSet(PagesOf(m, s)) = {m[f] : f \in ToSet(s)}
<1> DEFINE t == PagesOf(m, s)
<1>1. Len(s) \in Nat /\ DOMAIN s = 1 .. Len(s) /\ \A i \in 1 .. Len(s) : s[i] \in Frames
  OBVIOUS
<1>2. /\ t \in Seq(Pages \cup {NoPage}) /\ Len(t) = Len(s) /\ DOMAIN t = 1 .. Len(s)
      /\ \A i \in 1 .. Len(s) : t[i] = m[s[i]]
  BY <1>1 DEF PagesOf
<1>. HIDE DEF t
<1>3. ToSet(t) = {m[f] : f \in ToSet(s)}
  BY <1>1, <1>2 DEF ToSet
<1>4. QED
  BY <1>2, <1>3 DEF t

\* Moving an element of a sequence without repetition to the end.
LEMMA MovedIsAppend ==
    ASSUME NEW S, NEW s \in Seq(S), Distinct(s), NEW i \in 1 .. Len(s)
    PROVE  MovedToEnd(s, i) = Append(RemoveFirst(s, s[i]), s[i])
<1> DEFINE r == RemoveAt(s, i)
           n == Len(s)
<1>1. n \in Nat /\ n = Len(s) /\ i \in 1 .. n /\ n > 0
  OBVIOUS
<1>2. RemoveFirst(s, s[i]) = r
  <2>1. PICK k \in 1 .. n : s[k] = s[i] /\ RemoveFirst(s, s[i]) = RemoveAt(s, k)
    BY RemoveFirstElement
  <2>2. k = i
    BY <2>1 DEF Distinct
  <2>3. QED
    BY <2>1, <2>2
<1>3. /\ r \in Seq(S) /\ Len(r) = n - 1
      /\ \A j \in 1 .. n - 1 : r[j] = IF j < i THEN s[j] ELSE s[j + 1]
  BY RemoveElement
<1>. HIDE DEF r
<1> DEFINE t == Append(r, s[i])
<1>4. /\ t \in Seq(S) /\ Len(t) = n /\ t[n] = s[i]
      /\ \A j \in 1 .. n - 1 : t[j] = r[j]
  BY <1>1, <1>3
<1>5. t = [j \in 1 .. n |-> t[j]]
  BY <1>4
<1>. HIDE DEF t, n
<1>6. \A j \in 1 .. n : t[j] = IF j < i THEN s[j] ELSE IF j < n THEN s[j + 1] ELSE s[i]
  <2>1. ASSUME NEW j \in 1 .. n, j < n
        PROVE  t[j] = IF j < i THEN s[j] ELSE s[j + 1]
    <3>1. j \in 1 .. n - 1
      BY <1>1, <2>1
    <3>2. QED
      BY <1>3, <1>4, <3>1
  <2>2. ASSUME NEW j \in 1 .. n, ~(j < n)
        PROVE  ~(j < i) /\ t[j] = s[i]
    BY <1>1, <1>4, <2>2
  <2>3. QED
    BY <2>1, <2>2
<1>7. MovedToEnd(s, i) = [j \in 1 .. n |-> IF j < i THEN s[j] ELSE IF j < n THEN s[j + 1] ELSE s[i]]
  BY DEF MovedToEnd, n
<1>8. QED
  BY <1>2, <1>5, <1>6, <1>7 DEF t

\* Moving a frame and moving its page are the same.
LEMMA PagesMove ==
    ASSUME NEW m \in [Frames -> Pages \cup {NoPage}], NEW s \in Seq(Frames), Distinct(s),
           \A f, g \in ToSet(s) : m[f] = m[g] => f = g,
           NEW i \in 1 .. Len(s)
    PROVE  PagesOf(m, MovedToEnd(s, i)) = Append(RemoveFirst(PagesOf(m, s), m[s[i]]), m[s[i]])
<1> DEFINE t == PagesOf(m, s)
           r == MovedToEnd(s, i)
           n == Len(s)
<1>1. /\ t \in Seq(Pages \cup {NoPage}) /\ Len(t) = n /\ n \in Nat /\ i \in 1 .. n
      /\ \A j \in 1 .. n : t[j] = m[s[j]] /\ s[j] \in ToSet(s)
  BY PagesAreSeq DEF ToSet
<1>2. /\ r \in Seq(Frames) /\ Len(r) = n
      /\ \A j \in 1 .. n : r[j] = IF j < i THEN s[j] ELSE IF j < n THEN s[j + 1] ELSE s[i]
  BY MovedIsSeq DEF MovedToEnd
<1>. HIDE DEF t, r, n
<1>3. Distinct(t)
  BY <1>1 DEF Distinct, n
<1>4. MovedToEnd(t, i) = Append(RemoveFirst(t, t[i]), t[i])
  BY <1>1, <1>3, MovedIsAppend
<1>5. \A j \in 1 .. n : m[r[j]] = IF j < i THEN t[j] ELSE IF j < n THEN t[j + 1] ELSE t[i]
  <2>1. \A j \in 1 .. n : j < n => j + 1 \in 1 .. n
    BY <1>1
  <2>2. QED
    BY <1>1, <1>2, <2>1
<1>6. /\ PagesOf(m, r) = [j \in 1 .. n |-> m[r[j]]]
      /\ MovedToEnd(t, i)
            = [j \in 1 .. n |-> IF j < i THEN t[j] ELSE IF j < n THEN t[j + 1] ELSE t[i]]
  BY <1>1, <1>2 DEF PagesOf, MovedToEnd
<1> DEFINE at(j) == IF j < i THEN t[j] ELSE IF j < n THEN t[j + 1] ELSE t[i]
<1>7. [j \in 1 .. n |-> m[r[j]]] = [j \in 1 .. n |-> at(j)]
  <2>1. \A j \in 1 .. n : m[r[j]] = at(j)
    BY <1>5
  <2>. HIDE DEF at
  <2>2. QED
    BY <2>1
<1>8. PagesOf(m, r) = MovedToEnd(t, i) /\ t[i] = m[s[i]]
  BY <1>1, <1>6, <1>7
<1>9. QED
  BY <1>4, <1>8 DEF t, r

\* A frame whose page is replaced and that moves from the head to the end.
LEMMA PagesReplaced ==
    ASSUME NEW m \in [Frames -> Pages \cup {NoPage}], NEW s \in Seq(Frames), Distinct(s),
           Len(s) > 0,
           NEW page
    PROVE  PagesOf([m EXCEPT ![s[1]] = page], MovedToEnd(s, 1)) = Append(Tail(PagesOf(m, s)), page)
<1> DEFINE t == PagesOf(m, s)
           r == MovedToEnd(s, 1)
           n == Len(s)
           c == [m EXCEPT ![s[1]] = page]
<1>1. /\ t \in Seq(Pages \cup {NoPage}) /\ Len(t) = n /\ n \in Nat /\ n > 0
      /\ \A j \in 1 .. n : t[j] = m[s[j]] /\ s[j] \in Frames
  <2>1. n \in Nat /\ n > 0 /\ \A j \in 1 .. n : s[j] \in Frames
    OBVIOUS
  <2>2. t \in Seq(Pages \cup {NoPage}) /\ Len(t) = n /\ \A j \in 1 .. n : t[j] = m[s[j]]
    BY <2>1 DEF PagesOf
  <2>. HIDE DEF t, n
  <2>3. QED
    BY <2>1, <2>2
<1>2. 1 \in 1 .. n /\ s \in Seq(Frames) /\ Len(s) = n
  BY <1>1
<1>3. /\ r \in Seq(Frames) /\ Len(r) = n
      /\ \A j \in 1 .. n : r[j] = IF j < n THEN s[j + 1] ELSE s[1]
  <2>1. r \in Seq(Frames) /\ Len(r) = n
    BY <1>2, MovedIsSeq
  <2>2. \A j \in 1 .. n : r[j] = IF j < n THEN s[j + 1] ELSE s[1]
    BY DEF MovedToEnd
  <2>3. QED
    BY <2>1, <2>2
<1>. HIDE DEF t, r, n
<1>4. c[s[1]] = page /\ \A f \in Frames \ {s[1]} : c[f] = m[f]
  BY <1>1, <1>2
<1>. HIDE DEF c
<1> DEFINE u == Append(Tail(t), page)
<1>5. /\ u = [j \in 1 .. n |-> u[j]]
      /\ \A j \in 1 .. n : u[j] = IF j < n THEN t[j + 1] ELSE page
  <2>1. t # << >>
    BY <1>1
  <2>2. /\ Tail(t) \in Seq(Pages \cup {NoPage}) /\ Len(Tail(t)) = n - 1
        /\ \A j \in 1 .. n - 1 : Tail(t)[j] = t[j + 1]
    BY <1>1, <2>1
  <2>3. /\ u \in Seq(Pages \cup {NoPage, page}) /\ Len(u) = n /\ u[n] = page
        /\ \A j \in 1 .. n - 1 : u[j] = Tail(t)[j]
    <3>. HIDE DEF u
    <3>1. Tail(t) \in Seq(Pages \cup {NoPage, page})
      BY <2>2
    <3>2. QED
      BY <1>1, <2>2, <3>1 DEF u
  <2>. HIDE DEF u
  <2>4. \A j \in 1 .. n : IF j < n THEN j \in 1 .. n - 1 ELSE j = n
    BY <1>1
  <2>5. QED
    BY <2>2, <2>3, <2>4
<1>. HIDE DEF u
<1>6. \A j \in 1 .. n : c[r[j]] = IF j < n THEN t[j + 1] ELSE page
  <2>1. ASSUME NEW j \in 1 .. n, j < n PROVE c[r[j]] = t[j + 1]
    <3>1. j + 1 \in 1 .. n /\ j + 1 # 1
      BY <1>1, <2>1
    <3>2. s[j + 1] # s[1] /\ s[j + 1] \in Frames
      BY <1>1, <1>2, <3>1 DEF Distinct
    <3>3. QED
      BY <1>1, <1>3, <1>4, <2>1, <3>1, <3>2
  <2>2. \A j \in 1 .. n : ~(j < n) => c[r[j]] = page
    BY <1>3, <1>4
  <2>3. QED
    BY <2>1, <2>2
<1>7. PagesOf(c, r) = [j \in 1 .. n |-> c[r[j]]]
  BY <1>3 DEF PagesOf
<1>8. PagesOf(c, r) = u
  BY <1>5, <1>6, <1>7
<1>9. QED
  BY <1>8 DEF c, r, t, u

\* A frame that comes into use and is linked at the end.
LEMMA PagesAppended ==
    ASSUME NEW m \in [Frames -> Pages \cup {NoPage}], NEW s \in Seq(Frames),
           NEW f \in Frames \ ToSet(s), NEW page
    PROVE  PagesOf([m EXCEPT ![f] = page], Append(s, f)) = Append(PagesOf(m, s), page)
<1> DEFINE t == PagesOf(m, s)
           r == Append(s, f)
           n == Len(s)
           c == [m EXCEPT ![f] = page]
           u == Append(t, page)
<1>1. /\ t \in Seq(Pages \cup {NoPage}) /\ Len(t) = n /\ n \in Nat
      /\ \A j \in 1 .. n : t[j] = m[s[j]] /\ s[j] \in Frames /\ s[j] # f
  BY PagesAreSeq DEF ToSet
<1>2. Len(r) = n + 1 /\ r[n + 1] = f /\ \A j \in 1 .. n : r[j] = s[j]
  OBVIOUS
<1>3. c[f] = page /\ \A g \in Frames \ {f} : c[g] = m[g]
  OBVIOUS
<1>. HIDE DEF t, n, r, c
<1>4. /\ u = [j \in 1 .. n + 1 |-> u[j]] /\ u[n + 1] = page
      /\ \A j \in 1 .. n : u[j] = t[j]
  <2>1. t \in Seq(Pages \cup {NoPage, page})
    BY <1>1
  <2>2. u \in Seq(Pages \cup {NoPage, page}) /\ Len(u) = n + 1
    BY <1>1, <2>1
  <2>3. u[n + 1] = page /\ \A j \in 1 .. n : u[j] = t[j]
    BY <1>1, <2>1
  <2>. HIDE DEF u
  <2>4. QED
    BY <2>2, <2>3
<1>. HIDE DEF u
<1>5. \A j \in 1 .. n + 1 : c[r[j]] = u[j]
  <2>1. \A j \in 1 .. n + 1 : j \in 1 .. n \/ j = n + 1
    BY <1>1
  <2>2. c[r[n + 1]] = u[n + 1]
    BY <1>2, <1>3, <1>4
  <2>3. ASSUME NEW j \in 1 .. n PROVE c[r[j]] = u[j]
    <3>1. r[j] = s[j] /\ s[j] \in Frames \ {f} /\ u[j] = t[j] /\ t[j] = m[s[j]]
      BY <1>1, <1>2, <1>4
    <3>2. QED
      BY <1>3, <3>1
  <2>4. QED
    BY <2>1, <2>2, <2>3
<1>6. PagesOf(c, r) = [j \in 1 .. n + 1 |-> c[r[j]]]
  BY <1>2 DEF PagesOf
<1>7. QED
  BY <1>4, <1>5, <1>6 DEF c, r, t, u

\* As long as no frame is lost the list has the loaded frames in some order.
LEMMA OrderExists ==
    ASSUME FrameTypesOK, LRUList, maxLen # 2
    PROVE  \E s : /\ InOrder(list, s)
                  /\ \/ Linked(list, s)
                     \/ s = << >> /\ list.tail = Header
                     \/ maxLen = 1 /\ Full /\ list.next[First(list)] = Null
<1>1. maxLen \in Nat \ {0} /\ len \in 0 .. maxLen
  BY DEF FrameTypesOK
<1>2. CASE len = 0 /\ list.tail = Header /\ First(list) = Header
  <2>1. Listed(list, << >>, maxLen)
    BY <1>1, <1>2 DEF Listed
  <2>2. Distinct(<< >>) /\ ToSet(<< >>) = Loaded /\ Len(<< >>) = len
    BY <1>1, <1>2 DEF Distinct, ToSet, Loaded
  <2>3. QED
    BY <1>2, <2>1, <2>2 DEF InOrder
<1>3. ASSUME NEW s, Linked(list, s), ToSet(s) = Loaded
      PROVE  InOrder(list, s)
  BY <1>1, <1>3, LinkedInOrder
<1>4. CASE Full /\ maxLen <= 2 /\ First(list) \in Loaded /\ \A f \in Loaded : list.next[f] = Null
  <2>1. maxLen = 1 /\ len = 1 /\ Loaded = {0} /\ First(list) = 0 /\ Frames = {0}
    BY <1>1, <1>4 DEF Full, Loaded, Frames
  <2>2. Listed(list, <<0>>, maxLen)
    BY <2>1 DEF Listed
  <2>3. Distinct(<<0>>) /\ ToSet(<<0>>) = Loaded /\ Len(<<0>>) = len
    BY <2>1 DEF Distinct, ToSet
  <2>4. QED
    BY <1>4, <2>1, <2>2, <2>3 DEF InOrder
<1>5. QED
  BY <1>2, <1>3, <1>4 DEF LRUList, Shape

\* The pages in the order are those of the loaded frames.
LEMMA OrderedPages ==
    ASSUME FrameTypesOK, NEW s, InOrder(list, s)
    PROVE  /\ ListedPages = PagesOf(phyMem, s)
           /\ ListedPages \in Seq(Pages \cup {NoPage}) /\ Len(ListedPages) = len
           /\ ToSet(ListedPages) = {phyMem[f] : f \in Loaded}
<1>1. ListedPages = PagesOf(phyMem, s)
  BY PagesListed DEF FrameTypesOK, InOrder
<1>2. s \in Seq(Frames) /\ Len(s) = len /\ ToSet(s) = Loaded
      /\ phyMem \in [Frames -> Pages \cup {NoPage}]
  BY DEF FrameTypesOK, InOrder, Listed
<1>3. /\ PagesOf(phyMem, s) \in Seq(Pages \cup {NoPage}) /\ Len(PagesOf(phyMem, s)) = Len(s)
      /\ ToSet(PagesOf(phyMem, s)) = {phyMem[f] : f \in ToSet(s)}
  BY <1>2, PagesAreSeq, Zenon
<1>4. QED
  BY <1>1, <1>2, <1>3

\* A hit moves its page to the end of the order.
LEMMA HitOrder ==
    ASSUME FrameTypesOK, LRUList, maxLen # 2, NEW V, Agree(V, phyMem, Loaded), NEW f \in Loaded,
           list' = MoveToTail(list, f), UNCHANGED <<maxLen, phyMem>>
    PROVE  ListedPages' = Append(RemoveFirst(ListedPages, phyMem[f]), phyMem[f])
<1>1. PICK s : /\ InOrder(list, s)
               /\ \/ Linked(list, s)
                  \/ s = << >> /\ list.tail = Header
                  \/ maxLen = 1 /\ Full /\ list.next[First(list)] = Null
  BY OrderExists
<1>2. /\ s \in Seq(Frames) /\ Distinct(s) /\ ToSet(s) = Loaded /\ Len(s) = len
      /\ maxLen \in Nat /\ len \in 0 .. maxLen
      /\ phyMem \in [Frames -> Pages \cup {NoPage}]
  BY <1>1 DEF InOrder, Listed, FrameTypesOK
<1>3. PICK i \in 1 .. Len(s) : s[i] = f
  <2>1. DOMAIN s = 1 .. Len(s)
    BY <1>2
  <2>2. QED
    BY <1>2, <2>1 DEF ToSet
<1>4. Listed(list', MovedToEnd(s, i), maxLen)
  <2>1. CASE Linked(list, s)
    <3>1. Linked(list', MovedToEnd(s, i))
      BY <1>2, <1>3, <2>1, HitMoves DEF LRUList, Shape
    <3>2. ToSet(MovedToEnd(s, i)) = Loaded
      BY <1>2, MovedIsSeq
    <3>3. QED
      <4>1. maxLen \in Nat /\ len \in 0 .. maxLen
        BY <1>2
      <4> DEFINE t == MovedToEnd(s, i)
      <4>. HIDE DEF t
      <4>2. InOrder(list', t)
        BY <3>1, <3>2, <4>1, LinkedInOrder DEF t
      <4>3. QED
        BY <4>2 DEF InOrder, t
  <2>2. CASE s = << >>
    BY <2>2
  <2>3. CASE maxLen = 1 /\ Full /\ list.next[First(list)] = Null
    <3>1. len = 1 /\ i = 1 /\ First(list) = f
      <4>1. len = 1
        BY <2>3 DEF Full
      <4>2. i = 1 /\ s # << >>
        <5>1. Len(s) = 1 /\ i \in 1 .. Len(s)
          BY <1>2, <4>1
        <5>2. QED
          BY <5>1
      <4>3. First(list) = s[1]
        BY <1>1, <4>2 DEF InOrder, Listed
      <4>4. QED
        BY <1>3, <4>1, <4>2, <4>3
    <3>2. list' = list
      BY <2>3, <3>1 DEF MoveToTail
    <3>3. MovedToEnd(s, i) = s
      <4>1. s = [j \in 1 .. 1 |-> s[j]]
        BY <1>2, <3>1
      <4>2. MovedToEnd(s, i) = [j \in 1 .. 1 |-> s[1]]
        BY <1>2, <3>1 DEF MovedToEnd
      <4>3. QED
        BY <4>1, <4>2
    <3>4. QED
      BY <1>1, <3>2, <3>3 DEF InOrder
  <2>4. QED
    BY <1>1, <2>1, <2>2, <2>3
<1>5. ListedPages = PagesOf(phyMem, s) /\ ListedPages' = PagesOf(phyMem, MovedToEnd(s, i))
  BY <1>1, <1>2, <1>4, PagesListed DEF InOrder
<1>6. \A g, h \in ToSet(s) : phyMem[g] = phyMem[h] => g = h
  BY <1>2 DEF Agree
<1>7. PagesOf(phyMem, MovedToEnd(s, i))
         = Append(RemoveFirst(PagesOf(phyMem, s), phyMem[s[i]]), phyMem[s[i]])
  BY <1>2, <1>3, <1>6, PagesMove, Zenon
<1>8. QED
  BY <1>3, <1>5, <1>7

\* A page that goes to an unused frame is put at the end of the order.
LEMMA LoadOrder ==
    ASSUME FrameTypesOK, LRUList, maxLen # 2, PHYMEMCOUNT = len, NEW page, TakeFrame(page),
           UNCHANGED maxLen
    PROVE  Len(ListedPages) < maxLen /\ ListedPages' = Append(ListedPages, page)
<1> DEFINE f == PHYMEMCOUNT
<1>1. /\ ~Full /\ list' = AppendFrame(list, f) /\ phyMem' = [phyMem EXCEPT ![f] = page]
      /\ maxLen \in Nat /\ len \in 0 .. maxLen /\ len < maxLen /\ len' = len + 1
      /\ f \in Frames \ Loaded /\ ListTypeOK(list) /\ list.next[f] = Null
      /\ Loaded' = Loaded \cup {f} /\ phyMem \in [Frames -> Pages \cup {NoPage}]
  <2>1. /\ ~Full /\ list' = AppendFrame(list, f) /\ phyMem' = [phyMem EXCEPT ![f] = page]
        /\ len' = len + 1
    BY DEF TakeFrame
  <2>2. /\ maxLen \in Nat /\ len \in 0 .. maxLen /\ len < maxLen
        /\ phyMem \in [Frames -> Pages \cup {NoPage}]
    BY <2>1 DEF FrameTypesOK, Full
  <2>3. f \in Frames \ Loaded /\ Loaded' = Loaded \cup {f}
    BY <2>1, <2>2 DEF Loaded, Frames
  <2>4. ListTypeOK(list) /\ list.next[f] = Null
    BY <2>3 DEF LRUList, Shape
  <2>5. QED
    BY <2>1, <2>2, <2>3, <2>4
<1>. HIDE DEF f
<1>2. PICK s : InOrder(list, s) /\ (Linked(list, s) \/ (s = << >> /\ list.tail = Header))
  BY <1>1, OrderExists
<1>3. s \in Seq(Frames) /\ ToSet(s) = Loaded /\ Distinct(s)
  BY <1>2 DEF InOrder, Listed
<1>4. Linked(list', Append(s, f)) /\ ToSet(Append(s, f)) = Loaded'
  <2>1. CASE s = << >> /\ list.tail = Header
    <3>1. /\ list'.next = [list.next EXCEPT ![Header] = f]
          /\ list'.prev = [list.prev EXCEPT ![f] = Header] /\ list'.tail = f
      <4>1. maxLen \in Nat /\ ListTypeOK(list) /\ f \in Frames /\ list' = AppendFrame(list, f)
        BY <1>1
      <4>2. QED
        BY <2>1, <4>1, AppendUpdates
    <3>2. Append(s, f) = <<f>>
      BY <2>1
    <3>3. Linked(list', <<f>>)
      BY <1>1, <3>1, NodesDiffer DEF Linked, Distinct, First, ListTypeOK
    <3>4. ToSet(<<f>>) = {f} /\ ToSet(s) = {}
      BY <2>1 DEF ToSet
    <3>5. QED
      BY <1>1, <1>3, <3>2, <3>3, <3>4
  <2>2. CASE Linked(list, s)
    BY <1>1, <1>3, <2>2, AppendLinks
  <2>3. QED
    BY <1>2, <2>1, <2>2
<1>5. Listed(list', Append(s, f), maxLen)
  <2>1. Distinct(Append(s, f)) /\ Append(s, f) \in Seq(Frames)
    BY <1>4 DEF Linked
  <2>2. Len(Append(s, f)) = len + 1 /\ Append(s, f) # << >>
    BY <1>1, <1>2, <1>3 DEF InOrder
  <2>. DEFINE t == Append(s, f)
  <2>. HIDE DEF t
  <2>3. Linked(list', t) /\ Len(t) = len + 1 /\ t \in Seq(Frames) /\ t # << >>
    BY <1>4, <2>1, <2>2 DEF t
  <2>4. Listed(list', t, maxLen)
    BY <1>1, <2>3 DEF Linked, Listed
  <2>5. QED
    BY <2>4 DEF t
<1>6. ListedPages = PagesOf(phyMem, s) /\ ListedPages' = PagesOf(phyMem', Append(s, f))
  BY <1>1, <1>2, <1>5, PagesListed DEF InOrder
<1>7. PagesOf(phyMem', Append(s, f)) = Append(PagesOf(phyMem, s), page)
  <2>1. /\ f \in Frames \ ToSet(s) /\ s \in Seq(Frames) /\ phyMem' = [phyMem EXCEPT ![f] = page]
        /\ phyMem \in [Frames -> Pages \cup {NoPage}]
    BY <1>1, <1>3
  <2>2. QED
    BY <2>1, PagesAppended, Zenon
<1>8. Len(ListedPages) = len
  BY <1>2, OrderedPages
<1>9. QED
  BY <1>1, <1>6, <1>7, <1>8

\* A replacement takes the first page of the order away.
LEMMA ReplaceOrder ==
    ASSUME FrameTypesOK, LRUList, maxLen # 2, NEW page, ReuseFirst(page), UNCHANGED maxLen
    PROVE  Len(ListedPages) = maxLen /\ ListedPages' = Append(Tail(ListedPages), page)
<1>1. PICK s : /\ InOrder(list, s)
               /\ \/ Linked(list, s)
                  \/ s = << >> /\ list.tail = Header
                  \/ maxLen = 1 /\ Full /\ list.next[First(list)] = Null
  BY OrderExists
<1>2. /\ s \in Seq(Frames) /\ Distinct(s) /\ ToSet(s) = Loaded /\ Len(s) = len
      /\ maxLen \in Nat /\ len = maxLen /\ len > 0 /\ 1 \in 1 .. Len(s)
      /\ phyMem \in [Frames -> Pages \cup {NoPage}] /\ First(list) = s[1]
      /\ list' = RequeueFirst(list) /\ phyMem' = [phyMem EXCEPT ![First(list)] = page]
      /\ ListTypeOK(list)
  <2>1. /\ maxLen \in Nat /\ len = maxLen /\ len > 0
        /\ phyMem \in [Frames -> Pages \cup {NoPage}] /\ ListTypeOK(list)
        /\ list' = RequeueFirst(list) /\ phyMem' = [phyMem EXCEPT ![First(list)] = page]
    BY DEF FrameTypesOK, ReuseFirst, Full, LRUList, Shape
  <2>2. s \in Seq(Frames) /\ Distinct(s) /\ ToSet(s) = Loaded /\ Len(s) = len
    BY <1>1 DEF InOrder, Listed
  <2>3. s # << >>
    BY <2>1, <2>2
  <2>4. QED
    BY <1>1, <2>1, <2>2, <2>3 DEF InOrder, Listed
<1>3. Listed(list', MovedToEnd(s, 1), maxLen)
  <2>1. CASE maxLen > 2
    <3>1. Linked(list, s)
      BY <1>1, <1>2, <2>1
    <3>2. Linked(list', MovedToEnd(s, 1))
      BY <1>2, <2>1, <3>1, RequeueMoves
    <3>3. ToSet(MovedToEnd(s, 1)) = Loaded
      BY <1>2, MovedIsSeq
    <3>4. QED
      BY <1>2, <3>2, <3>3, LinkedInOrder DEF InOrder
  <2>2. CASE maxLen = 1
    <3>1. list.next[First(list)] = Null /\ First(list) \in Frames
      <4>1. Len(s) = 1 /\ s # << >>
        BY <1>2, <2>2
      <4>3. s[1] \in Frames
        BY <1>2, ElementOfSeq
      <4>2. QED
        BY <1>1, <1>2, <2>2, <4>1, <4>3 DEF Linked
    <3>2. RequeueFirst(list).next = list.next
      BY <1>2, <3>1, RequeueLast
    <3>3. MovedToEnd(s, 1) = s
      <4>1. s = [j \in 1 .. 1 |-> s[j]]
        BY <1>2, <2>2
      <4>2. MovedToEnd(s, 1) = [j \in 1 .. 1 |-> s[1]]
        BY <1>2, <2>2 DEF MovedToEnd
      <4>3. QED
        BY <4>1, <4>2
    <3>4. QED
      BY <1>1, <1>2, <3>2, <3>3 DEF InOrder, Listed, First
  <2>3. QED
    BY <1>2, <2>1, <2>2
<1>4. ListedPages = PagesOf(phyMem, s) /\ ListedPages' = PagesOf(phyMem', MovedToEnd(s, 1))
  BY <1>1, <1>2, <1>3, PagesListed DEF InOrder
<1>5. PagesOf([phyMem EXCEPT ![s[1]] = page], MovedToEnd(s, 1))
         = Append(Tail(PagesOf(phyMem, s)), page)
  BY <1>2, PagesReplaced, Zenon
<1>6. Len(ListedPages) = len
  BY <1>1, OrderedPages
<1>7. QED
  BY <1>2, <1>4, <1>5, <1>6

\* At the start the list leads nowhere.
LEMMA EmptyOrder ==
    ASSUME SimInit
    PROVE  InOrder(list, << >>) /\ ListedPages = << >> /\ LastReferenced = NoPage
<1>1. maxLen \in Nat \ {0} /\ len = 0 /\ Loaded = {} /\ recency = << >>
  BY VMAssumption DEF SimInit, Loaded
<1>2. list.next[Header] = Header
  BY DEF SimInit, NewList
<1>3. Listed(list, << >>, maxLen)
  BY <1>1, <1>2 DEF Listed, First
<1>4. InOrder(list, << >>)
  BY <1>1, <1>3 DEF InOrder, Distinct, ToSet
<1>5. ListedPages = << >>
  BY <1>1, <1>3, PagesListed DEF PagesOf
<1>6. QED
  BY <1>1, <1>4, <1>5 DEF LastReferenced

----------------------------------------------------------------------------
\* The pages referenced last.

LEMMA SameSeq ==
    ASSUME NEW s \in Seq(Pages), NEW t \in Seq(Pages), Len(s) = Len(t),
           \A j \in 1 .. Len(s) : s[j] = t[j]
    PROVE  s = t
<1>1. s = [j \in 1 .. Len(s) |-> s[j]] /\ t = [j \in 1 .. Len(t) |-> t[j]]
  OBVIOUS
<1>2. QED
  BY <1>1

LEMMA JoinedSeq ==
    ASSUME NEW a \in Seq(Pages), NEW b \in Seq(Pages)
    PROVE  /\ a \o b \in Seq(Pages) /\ Len(a \o b) = Len(a) + Len(b)
           /\ \A j \in 1 .. Len(a) : (a \o b)[j] = a[j]
           /\ \A j \in 1 .. Len(b) : (a \o b)[Len(a) + j] = b[j]
           /\ \A j \in 1 .. Len(a) + Len(b) : j > Len(a) => (a \o b)[j] = b[j - Len(a)]
  OBVIOUS

\* Removing an element of a sequence without repetition.
LEMMA ElementRemoved ==
    ASSUME NEW s \in Seq(Pages), Distinct(s), NEW k \in 1 .. Len(s), NEW e, e = s[k]
    PROVE  LET r == RemoveFirst(s, e)
           IN  /\ r \in Seq(Pages) /\ Len(r) = Len(s) - 1
               /\ \A j \in 1 .. Len(s) - 1 : r[j] = IF j < k THEN s[j] ELSE s[j + 1]
<1>1. PICK i \in 1 .. Len(s) : s[i] = e /\ RemoveFirst(s, e) = RemoveAt(s, i)
  BY RemoveFirstElement
<1>2. i = k
  BY <1>1 DEF Distinct
<1>3. QED
  BY <1>1, <1>2, RemoveElement

\* Removing a page from two sequences without repetition that are joined.
LEMMA RemoveFromSecond ==
    ASSUME NEW a \in Seq(Pages), NEW b \in Seq(Pages), Distinct(a \o b), NEW i \in 1 .. Len(b)
    PROVE  RemoveFirst(a \o b, b[i]) = a \o RemoveFirst(b, b[i])
<1> DEFINE s == a \o b
           r == RemoveFirst(b, b[i])
           u == RemoveFirst(s, b[i])
           v == a \o r
           n == Len(a)
           m == Len(b)
<1>1. /\ s \in Seq(Pages) /\ Len(s) = n + m /\ n \in Nat /\ m \in Nat
      /\ \A j \in 1 .. n : s[j] = a[j] /\ j \in 1 .. n + m
      /\ \A j \in 1 .. m : s[n + j] = b[j] /\ n + j \in 1 .. n + m
  BY JoinedSeq
<1>2. Distinct(s) /\ n = Len(a) /\ m = Len(b) /\ i \in 1 .. m
  OBVIOUS
<1>. HIDE DEF s, n, m
<1>3. Distinct(b)
  <2>1. ASSUME NEW j \in 1 .. m, NEW k \in 1 .. m, b[j] = b[k] PROVE j = k
    <3>1. s[n + j] = s[n + k] /\ n + j \in 1 .. Len(s) /\ n + k \in 1 .. Len(s)
      BY <1>1, <2>1
    <3>2. n + j = n + k
      BY <1>2, <3>1 DEF Distinct
    <3>3. QED
      BY <1>1, <3>2
  <2>2. QED
    BY <1>2, <2>1 DEF Distinct
<1>4. /\ r \in Seq(Pages) /\ Len(r) = m - 1
      /\ \A j \in 1 .. m - 1 : r[j] = IF j < i THEN b[j] ELSE b[j + 1]
  BY <1>2, <1>3, ElementRemoved
<1>5. /\ u \in Seq(Pages) /\ Len(u) = n + m - 1
      /\ \A j \in 1 .. n + m - 1 : u[j] = IF j < n + i THEN s[j] ELSE s[j + 1]
  <2> DEFINE k == n + i
  <2>1. k \in 1 .. Len(s) /\ b[i] = s[k] /\ s \in Seq(Pages) /\ Distinct(s)
    BY <1>1, <1>2
  <2>. HIDE DEF k
  <2>2. /\ u \in Seq(Pages) /\ Len(u) = Len(s) - 1
        /\ \A j \in 1 .. Len(s) - 1 : u[j] = IF j < k THEN s[j] ELSE s[j + 1]
    BY <2>1, ElementRemoved
  <2>3. QED
    BY <1>1, <2>2 DEF k
<1>. HIDE DEF r, u
<1>6. /\ v \in Seq(Pages) /\ Len(v) = n + m - 1
      /\ \A j \in 1 .. n : v[j] = a[j]
      /\ \A j \in 1 .. m - 1 : v[n + j] = r[j]
  <2>1. /\ v \in Seq(Pages) /\ Len(v) = n + Len(r)
        /\ \A j \in 1 .. n : v[j] = a[j]
        /\ \A j \in 1 .. Len(r) : v[n + j] = r[j]
    BY <1>2, <1>4, JoinedSeq
  <2>2. QED
    BY <1>1, <1>4, <2>1
<1>. HIDE DEF v
<1>7. ASSUME NEW j \in 1 .. n + m - 1 PROVE u[j] = v[j]
  <2>1. CASE j <= n
    <3>1. j \in 1 .. n /\ j < n + i
      BY <1>1, <1>2, <2>1
    <3>2. QED
      BY <1>1, <1>5, <1>6, <3>1
  <2>2. CASE j > n
    <3> DEFINE k == j - n
    <3>1. /\ k \in 1 .. m - 1 /\ k \in 1 .. m /\ k + 1 \in 1 .. m
          /\ j = n + k /\ j + 1 = n + (k + 1) /\ (j < n + i <=> k < i)
      BY <1>1, <1>2, <2>2
    <3>. HIDE DEF k
    <3>2. s[j] = b[k] /\ s[j + 1] = b[k + 1] /\ v[j] = r[k]
      BY <1>1, <1>6, <3>1
    <3>3. QED
      BY <1>4, <1>5, <3>1, <3>2
  <2>3. QED
    BY <1>1, <2>1, <2>2
<1>8. u = v
  BY <1>5, <1>6, <1>7, SameSeq
<1>9. QED
  BY <1>8 DEF s, r, u, v

LEMMA RemoveFromFirst ==
    ASSUME NEW a \in Seq(Pages), NEW b \in Seq(Pages), Distinct(a \o b), NEW e \in Pages,
           e \notin ToSet(b)
    PROVE  /\ RemoveFirst(a \o b, e) = RemoveFirst(a, e) \o b
           /\ RemoveFirst(a, e) \in Seq(Pages)
<1> DEFINE s == a \o b
           n == Len(a)
           m == Len(b)
<1>1. /\ s \in Seq(Pages) /\ Len(s) = n + m /\ n \in Nat /\ m \in Nat
      /\ \A j \in 1 .. n : s[j] = a[j] /\ j \in 1 .. n + m
      /\ \A j \in 1 .. m : s[n + j] = b[j] /\ n + j \in 1 .. n + m /\ b[j] # e
      /\ \A j \in 1 .. n + m : j > n => j - n \in 1 .. m /\ s[j] = b[j - n]
  BY JoinedSeq DEF ToSet
<1>. HIDE DEF s
<1>2. Distinct(s) /\ n = Len(a) /\ m = Len(b)
  BY DEF s
<1>. HIDE DEF n, m
<1>3. CASE ~\E i \in 1 .. n : a[i] = e
  <2>1. ~\E i \in 1 .. Len(s) : s[i] = e
    <3>1. \A j \in 1 .. n + m : j \in 1 .. n \/ j > n
      BY <1>1
    <3>2. QED
      BY <1>1, <1>3, <3>1
  <2>2. RemoveFirst(s, e) = s /\ RemoveFirst(a, e) = a
    BY <1>1, <1>2, <1>3, <2>1, RemoveFirstElement
  <2>3. QED
    BY <2>2 DEF s
<1>4. ASSUME NEW i \in 1 .. n, a[i] = e
      PROVE  RemoveFirst(s, e) = RemoveFirst(a, e) \o b /\ RemoveFirst(a, e) \in Seq(Pages)
  <2> DEFINE r == RemoveFirst(a, e)
             u == RemoveFirst(s, e)
             v == r \o b
  <2>1. Distinct(a)
    BY <1>1, <1>2 DEF Distinct
  <2>2. /\ r \in Seq(Pages) /\ Len(r) = n - 1
        /\ \A j \in 1 .. n - 1 : r[j] = IF j < i THEN a[j] ELSE a[j + 1]
    BY <1>2, <1>4, <2>1, ElementRemoved
  <2>3. /\ u \in Seq(Pages) /\ Len(u) = n + m - 1
        /\ \A j \in 1 .. n + m - 1 : u[j] = IF j < i THEN s[j] ELSE s[j + 1]
    <3>1. i \in 1 .. Len(s) /\ e = s[i] /\ s \in Seq(Pages) /\ Distinct(s)
      BY <1>1, <1>2, <1>4
    <3>2. /\ u \in Seq(Pages) /\ Len(u) = Len(s) - 1
          /\ \A j \in 1 .. Len(s) - 1 : u[j] = IF j < i THEN s[j] ELSE s[j + 1]
      BY <3>1, ElementRemoved
    <3>3. QED
      BY <1>1, <3>2
  <2>. HIDE DEF r, u
  <2>4. /\ v \in Seq(Pages) /\ Len(v) = n + m - 1
        /\ \A j \in 1 .. n - 1 : v[j] = r[j]
        /\ \A j \in 1 .. m : v[n - 1 + j] = b[j]
    <3>1. /\ v \in Seq(Pages) /\ Len(v) = Len(r) + m
          /\ \A j \in 1 .. Len(r) : v[j] = r[j]
          /\ \A j \in 1 .. m : v[Len(r) + j] = b[j]
      BY <1>2, <2>2, JoinedSeq
    <3>2. QED
      BY <1>1, <2>2, <3>1
  <2>. HIDE DEF v
  <2>5. ASSUME NEW j \in 1 .. n + m - 1 PROVE u[j] = v[j]
    <3>1. CASE j < n
      <4>1. j \in 1 .. n - 1 /\ j \in 1 .. n /\ j + 1 \in 1 .. n
        BY <1>1, <3>1
      <4>2. s[j] = a[j] /\ s[j + 1] = a[j + 1]
        BY <1>1, <4>1
      <4>3. QED
        BY <2>2, <2>3, <2>4, <4>1, <4>2
    <3>2. CASE ~(j < n)
      <4> DEFINE k == j - n + 1
      <4>1. k \in 1 .. m /\ j = n - 1 + k /\ j + 1 = n + k /\ ~(j < i)
        BY <1>1, <3>2
      <4>. HIDE DEF k
      <4>2. s[j + 1] = b[k] /\ v[j] = b[k]
        BY <1>1, <2>4, <4>1
      <4>3. QED
        BY <2>3, <4>1, <4>2
    <3>3. QED
      BY <3>1, <3>2
  <2>6. u = v
    BY <2>3, <2>4, <2>5, SameSeq
  <2>7. QED
    BY <2>2, <2>6 DEF r, u, v
<1>5. QED
  BY <1>3, <1>4 DEF s

LEMMA JoinedAppend ==
    ASSUME NEW a \in Seq(Pages), NEW b \in Seq(Pages), NEW e \in Pages
    PROVE  Append(a \o b, e) = a \o Append(b, e)
<1> DEFINE s == a \o b
           t == Append(b, e)
           u == Append(s, e)
           v == a \o t
           n == Len(a)
           m == Len(b)
<1>1. /\ s \in Seq(Pages) /\ Len(s) = n + m /\ n \in Nat /\ m \in Nat
      /\ \A j \in 1 .. n : s[j] = a[j] /\ j \in 1 .. n + m
      /\ \A j \in 1 .. m : s[n + j] = b[j] /\ n + j \in 1 .. n + m
  BY JoinedSeq
<1>2. /\ t \in Seq(Pages) /\ Len(t) = m + 1 /\ t[m + 1] = e /\ \A j \in 1 .. m : t[j] = b[j]
  OBVIOUS
<1>. HIDE DEF s, t
<1>3. /\ u \in Seq(Pages) /\ Len(u) = n + m + 1 /\ u[n + m + 1] = e
      /\ \A j \in 1 .. n + m : u[j] = s[j]
  <2>1. s \in Seq(Pages)
    BY <1>1
  <2>2. /\ u \in Seq(Pages) /\ Len(u) = Len(s) + 1 /\ u[Len(s) + 1] = e
        /\ \A j \in 1 .. Len(s) : u[j] = s[j]
    BY <2>1
  <2>3. QED
    BY <1>1, <2>2
<1>4. /\ v \in Seq(Pages) /\ Len(v) = n + Len(t)
      /\ \A j \in 1 .. n : v[j] = a[j]
      /\ \A j \in 1 .. Len(t) : v[n + j] = t[j]
  BY <1>2, JoinedSeq
<1>8. n \in Nat /\ m \in Nat
  OBVIOUS
<1>. HIDE DEF n, m, u, v
<1>5. ASSUME NEW j \in 1 .. n + m + 1 PROVE u[j] = v[j]
  <2>1. CASE j \in 1 .. n
    BY <1>1, <1>3, <1>4, <2>1
  <2>2. CASE j > n
    <3> DEFINE k == j - n
    <3>1. k \in 1 .. m + 1 /\ j = n + k /\ (k \in 1 .. m \/ (j = n + m + 1 /\ k = m + 1))
      BY <1>8, <2>2
    <3>. HIDE DEF k
    <3>2. v[j] = t[k]
      BY <1>2, <1>4, <3>1
    <3>3. QED
      BY <1>1, <1>2, <1>3, <3>1, <3>2
  <2>3. QED
    BY <1>1, <2>1, <2>2
<1>6. u = v
  <2>1. Len(u) = n + m + 1 /\ Len(v) = n + m + 1
    BY <1>1, <1>2, <1>3, <1>4
  <2>2. QED
    BY <1>3, <1>4, <1>5, <2>1, SameSeq
<1>7. QED
  BY <1>6 DEF s, t, u, v

LEMMA HeadJoined ==
    ASSUME NEW a \in Seq(Pages), NEW b \in Seq(Pages), b # << >>, NEW e \in Pages
    PROVE  /\ a \o Append(b, e) = Append(a, b[1]) \o Append(Tail(b), e)
           /\ Append(a, b[1]) \in Seq(Pages) /\ Append(Tail(b), e) \in Seq(Pages)
<1> DEFINE c == Append(a, b[1])
           d == Append(Tail(b), e)
           t == Append(b, e)
           u == a \o t
           v == c \o d
           n == Len(a)
           m == Len(b)
<1>1. n \in Nat /\ m \in Nat /\ m > 0 /\ b[1] \in Pages
  OBVIOUS
<1>2. /\ c \in Seq(Pages) /\ Len(c) = n + 1 /\ c[n + 1] = b[1]
      /\ \A j \in 1 .. n : c[j] = a[j]
  BY <1>1
<1>3. /\ d \in Seq(Pages) /\ Len(d) = m /\ d[m] = e
      /\ \A j \in 1 .. m - 1 : d[j] = b[j + 1]
  <2>1. /\ Tail(b) \in Seq(Pages) /\ Len(Tail(b)) = m - 1
        /\ \A j \in 1 .. m - 1 : Tail(b)[j] = b[j + 1]
    BY <1>1
  <2> DEFINE q == Tail(b)
  <2>. HIDE DEF q
  <2>2. /\ Append(q, e) \in Seq(Pages) /\ Len(Append(q, e)) = m /\ Append(q, e)[m] = e
        /\ \A j \in 1 .. m - 1 : Append(q, e)[j] = q[j]
    BY <1>1, <2>1 DEF q
  <2>3. QED
    BY <2>1, <2>2 DEF q
<1>4. /\ t \in Seq(Pages) /\ Len(t) = m + 1 /\ t[m + 1] = e /\ \A j \in 1 .. m : t[j] = b[j]
  OBVIOUS
<1>. HIDE DEF c, d, t
<1>5. /\ u \in Seq(Pages) /\ Len(u) = n + Len(t)
      /\ \A j \in 1 .. n : u[j] = a[j]
      /\ \A j \in 1 .. Len(t) : u[n + j] = t[j]
  BY <1>4, JoinedSeq
<1>6. /\ v \in Seq(Pages) /\ Len(v) = Len(c) + Len(d)
      /\ \A j \in 1 .. Len(c) : v[j] = c[j]
      /\ \A j \in 1 .. Len(d) : v[Len(c) + j] = d[j]
  BY <1>2, <1>3, JoinedSeq
<1>. HIDE DEF n, m, u, v
<1>7. ASSUME NEW j \in 1 .. n + m + 1 PROVE u[j] = v[j]
  <2>1. CASE j \in 1 .. n
    <3>1. j \in 1 .. Len(c)
      BY <1>1, <1>2, <2>1
    <3>2. QED
      BY <1>2, <1>5, <1>6, <2>1, <3>1
  <2>2. CASE j = n + 1
    <3>1. 1 \in 1 .. Len(t) /\ 1 \in 1 .. m /\ j \in 1 .. Len(c)
      BY <1>1, <1>2, <1>4, <2>2
    <3>2. u[n + 1] = t[1] /\ t[1] = b[1]
      BY <1>4, <1>5, <3>1
    <3>3. QED
      BY <1>2, <1>6, <2>2, <3>1, <3>2
  <2>3. CASE j > n + 1
    <3> DEFINE k == j - n
               i == j - (n + 1)
    <3>1. /\ k \in 1 .. Len(t) /\ j = n + k /\ i \in 1 .. Len(d) /\ j = Len(c) + i
          /\ k = i + 1 /\ ((i \in 1 .. m - 1 /\ k \in 1 .. m) \/ (i = m /\ k = m + 1))
      <4>1. n \in Nat /\ m \in Nat /\ Len(t) = m + 1 /\ Len(c) = n + 1 /\ Len(d) = m
        BY <1>1, <1>2, <1>3, <1>4
      <4>2. QED
        BY <2>3, <4>1
    <3>. HIDE DEF i, k
    <3>2. u[j] = t[k] /\ v[j] = d[i]
      BY <1>5, <1>6, <3>1
    <3>3. QED
      BY <1>3, <1>4, <3>1, <3>2
  <2>4. QED
    BY <1>1, <2>1, <2>2, <2>3
<1>8. u = v
  <2>1. Len(u) = n + m + 1 /\ Len(v) = n + m + 1
    BY <1>1, <1>2, <1>3, <1>4, <1>5, <1>6
  <2>2. QED
    BY <1>5, <1>6, <1>7, <2>1, SameSeq
<1>9. QED
  BY <1>2, <1>3, <1>8 DEF c, d, t, u, v

LEMMA MovedDistinct ==
    ASSUME NEW s \in Seq(Pages), Distinct(s), NEW e \in Pages
    PROVE  Distinct(Append(RemoveFirst(s, e), e))
<1> DEFINE r == RemoveFirst(s, e)
           n == Len(s)
<1>1. r \in Seq(Pages) /\ Distinct(r) /\ \A j \in 1 .. Len(r) : r[j] # e
  <2>1. CASE ~\E i \in 1 .. n : s[i] = e
    <3>1. r = s
      BY <2>1, RemoveFirstElement
    <3>. HIDE DEF r
    <3>2. QED
      BY <2>1, <3>1
  <2>2. ASSUME NEW k \in 1 .. n, s[k] = e
        PROVE  r \in Seq(Pages) /\ Distinct(r) /\ \A j \in 1 .. Len(r) : r[j] # e
    <3>1. /\ r \in Seq(Pages) /\ Len(r) = n - 1 /\ n \in Nat
          /\ \A j \in 1 .. n - 1 : r[j] = IF j < k THEN s[j] ELSE s[j + 1]
      BY <2>2, ElementRemoved
    <3>. HIDE DEF r
    <3> DEFINE from(j) == IF j < k THEN j ELSE j + 1
    <3>2. \A j \in 1 .. n - 1 : from(j) \in 1 .. n /\ from(j) # k /\ r[j] = s[from(j)]
      BY <3>1
    <3>3. \A i, j \in 1 .. n - 1 : from(i) = from(j) => i = j
      BY <3>1
    <3>. HIDE DEF from
    <3>4. \A j \in 1 .. n - 1 : r[j] # e
      BY <2>2, <3>2 DEF Distinct
    <3>5. Distinct(r)
      <4>1. ASSUME NEW i \in 1 .. n - 1, NEW j \in 1 .. n - 1, r[i] = r[j] PROVE i = j
        <5>1. from(i) = from(j)
          BY <3>2, <4>1 DEF Distinct
        <5>2. QED
          BY <3>3, <5>1
      <4>2. QED
        BY <3>1, <4>1 DEF Distinct
    <3>6. QED
      BY <3>1, <3>4, <3>5
  <2>3. QED
    BY <2>1, <2>2
<1>. HIDE DEF r
<1> DEFINE t == Append(r, e)
<1>2. /\ Len(r) \in Nat /\ Len(t) = Len(r) + 1 /\ t[Len(r) + 1] = e
      /\ \A j \in 1 .. Len(r) : t[j] = r[j]
  BY <1>1
<1>. HIDE DEF t
<1>3. \A j \in 1 .. Len(t) : j \in 1 .. Len(r) \/ j = Len(r) + 1
  BY <1>2
<1>4. Distinct(t)
  BY <1>1, <1>2, <1>3 DEF Distinct
<1>5. QED
  BY <1>4 DEF r, t

(***************************************************************************)
(* The order of the list is that of the last references: the pages in the  *)
(* frames are the end of the history.  older are the pages that were taken *)
(* away again.                                                             *)
(***************************************************************************)
RecentOrder ==
    /\ Distinct(recency)
    /\ \E older \in Seq(Pages) : recency = older \o ListedPages /\ (~Full => older = << >>)

LEMMA RecentHit ==
    ASSUME RecentOrder, recency \in Seq(Pages), ListedPages \in Seq(Pages),
           NEW page \in ToSet(ListedPages), UNCHANGED <<maxLen, len>>,
           recency' = Append(RemoveFirst(recency, page), page),
           ListedPages' = Append(RemoveFirst(ListedPages, page), page)
    PROVE  RecentOrder'
<1> DEFINE L == ListedPages
<1>1. PICK older \in Seq(Pages) : recency = older \o L /\ (~Full => older = << >>)
  BY DEF RecentOrder
<1>2. PICK i \in 1 .. Len(L) : L[i] = page
  BY DEF ToSet
<1>3. page \in Pages
  BY <1>2
<1>4. RemoveFirst(recency, page) = older \o RemoveFirst(L, page)
  <2>1. Distinct(older \o L)
    BY <1>1 DEF RecentOrder
  <2>2. L \in Seq(Pages)
    OBVIOUS
  <2>. HIDE DEF L
  <2>3. QED
    BY <1>1, <1>2, <2>1, <2>2, RemoveFromSecond
<1>5. RemoveFirst(L, page) \in Seq(Pages)
  <2>1. PICK k \in 1 .. Len(L) : RemoveFirst(L, page) = RemoveAt(L, k)
    BY <1>2, RemoveFirstElement
  <2>2. QED
    BY <2>1, RemoveElement
<1>6. recency' = older \o ListedPages'
  <2> DEFINE r == RemoveFirst(L, page)
  <2>1. r \in Seq(Pages) /\ recency' = Append(older \o r, page) /\ ListedPages' = Append(r, page)
    BY <1>4, <1>5
  <2>. HIDE DEF r
  <2>2. Append(older \o r, page) = older \o Append(r, page)
    BY <1>3, <2>1, JoinedAppend
  <2>3. QED
    BY <2>1, <2>2
<1>7. Distinct(recency')
  BY <1>3, MovedDistinct DEF RecentOrder
<1>8. QED
  BY <1>1, <1>6, <1>7 DEF RecentOrder, Full, Distinct

LEMMA RecentLoad ==
    ASSUME RecentOrder, recency \in Seq(Pages), ListedPages \in Seq(Pages), ~Full,
           NEW page \in Pages, page \notin ToSet(ListedPages),
           recency' = Append(RemoveFirst(recency, page), page),
           ListedPages' = Append(ListedPages, page)
    PROVE  RecentOrder'
<1>1. recency = ListedPages
  BY DEF RecentOrder
<1>2. RemoveFirst(recency, page) = recency
  BY <1>1, RemoveFirstElement DEF ToSet
<1>3. recency' = ListedPages'
  BY <1>1, <1>2
<1>4. << >> \in Seq(Pages) /\ ListedPages' \in Seq(Pages)
  OBVIOUS
<1>5. recency' = << >> \o ListedPages'
  BY <1>3, <1>4
<1>6. Distinct(recency')
  BY MovedDistinct DEF RecentOrder
<1>7. QED
  BY <1>4, <1>5, <1>6 DEF RecentOrder, Distinct

LEMMA RecentReplace ==
    ASSUME RecentOrder, recency \in Seq(Pages), ListedPages \in Seq(Pages), Full,
           NEW page \in Pages, page \notin ToSet(ListedPages), ListedPages # << >>,
           UNCHANGED <<maxLen, len>>,
           recency' = Append(RemoveFirst(recency, page), page),
           ListedPages' = Append(Tail(ListedPages), page)
    PROVE  RecentOrder'
<1> DEFINE L == ListedPages
<1>1. PICK older \in Seq(Pages) : recency = older \o L
  BY DEF RecentOrder
<1>2. L \in Seq(Pages) /\ page \notin ToSet(L) /\ L # << >> /\ Distinct(older \o L)
  BY <1>1 DEF RecentOrder
<1>3. Distinct(recency')
  BY MovedDistinct DEF RecentOrder
<1>. HIDE DEF L
<1> DEFINE older2 == RemoveFirst(older, page)
<1>4. RemoveFirst(recency, page) = older2 \o L /\ older2 \in Seq(Pages)
  BY <1>1, <1>2, RemoveFromFirst
<1>. HIDE DEF older2
<1>5. recency' = older2 \o Append(L, page)
  <2>1. Append(older2 \o L, page) = older2 \o Append(L, page)
    BY <1>2, <1>4, JoinedAppend
  <2>2. QED
    BY <1>4, <2>1
<1>6. /\ older2 \o Append(L, page) = Append(older2, L[1]) \o Append(Tail(L), page)
      /\ Append(older2, L[1]) \in Seq(Pages)
  BY <1>2, <1>4, HeadJoined
<1>7. recency' = Append(older2, L[1]) \o ListedPages'
  BY <1>5, <1>6 DEF L
<1>8. QED
  BY <1>3, <1>6, <1>7 DEF RecentOrder, Full, Distinct

\* The most recent pages are then those in the frames.
LEMMA RecentPages ==
    ASSUME RecentOrder, FrameTypesOK, recency \in Seq(Pages), ListedPages \in Seq(Pages),
           Len(ListedPages) = len
    PROVE  MostRecent(maxLen) = ToSet(ListedPages)
<1> DEFINE k == Len(recency)
           from == IF k > maxLen THEN k - maxLen + 1 ELSE 1
           L == ListedPages
<1>1. PICK older \in Seq(Pages) : recency = older \o L /\ (~Full => older = << >>)
  BY DEF RecentOrder
<1>2. /\ k \in Nat /\ Len(older) \in Nat /\ len \in Nat /\ maxLen \in Nat /\ len <= maxLen
      /\ k = Len(older) + len /\ (len < maxLen => Len(older) = 0)
      /\ \A j \in 1 .. len : recency[Len(older) + j] = L[j]
  <2>1. L \in Seq(Pages) /\ Len(L) = len
    OBVIOUS
  <2>. HIDE DEF L
  <2>2. k = Len(older) + len /\ \A j \in 1 .. len : recency[Len(older) + j] = L[j]
    BY <1>1, <2>1, JoinedSeq
  <2>3. k \in Nat /\ Len(older) \in Nat /\ (older = << >> => Len(older) = 0)
    OBVIOUS
  <2>4. QED
    BY <1>1, <2>2, <2>3 DEF FrameTypesOK, Full
<1>3. from = Len(older) + 1
  BY <1>2
<1>4. SubSeq(recency, from, k) = L
  <2>1. /\ SubSeq(recency, from, k) \in Seq(Pages) /\ Len(SubSeq(recency, from, k)) = len
        /\ \A j \in 1 .. len : SubSeq(recency, from, k)[j] = recency[Len(older) + j]
    <3>. HIDE DEF from, k
    <3>1. from \in Nat /\ from >= 1 /\ from <= k + 1 /\ k - from + 1 = len
      BY <1>2, <1>3
    <3>2. \A j \in from .. k : recency[j] \in Pages
      BY <3>1 DEF k
    <3>6. from \in Int /\ k \in Int
      BY <1>2, <3>1
    <3>3. /\ SubSeq(recency, from, k) \in Seq(Pages) /\ Len(SubSeq(recency, from, k)) = k - from + 1
          /\ \A j \in 1 .. k - from + 1 : SubSeq(recency, from, k)[j] = recency[from + j - 1]
      BY <1>2, <3>1, <3>2, <3>6
    <3>4. \A j \in 1 .. len : from + j - 1 = Len(older) + j
      BY <1>2, <1>3
    <3>5. QED
      BY <3>1, <3>3, <3>4
  <2>. HIDE DEF from, k, L
  <2>2. L \in Seq(Pages) /\ Len(L) = len
    BY DEF L
  <2>3. QED
    BY <1>2, <2>1, <2>2, SameSeq
<1>5. MostRecent(maxLen) = ToSet(SubSeq(recency, from, k))
  BY DEF MostRecent
<1>6. QED
  BY <1>4, <1>5

===========================================================================
