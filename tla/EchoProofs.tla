----------------------------- MODULE EchoProofs -----------------------------
(***************************************************************************)
(* Theorems about EchoSystem, for every set of clients, every size of the  *)
(* buffers and of the files, and any limits on slots and descriptors.      *)
(***************************************************************************)
EXTENDS EchoSystem, SequenceTheorems, FiniteSetTheorems, FunctionTheorems, TLAPS

LineSet == Clients \X Nat

----------------------------------------------------------------------------
\* The inductive invariant.

ServerTypes ==
    /\ pc \in {"select", "accept", "slots", "write", "down"}
    /\ client \in [Slots -> Int] /\ maxi \in -1 .. FD_SETSIZE - 1 /\ maxfd \in Int
    /\ buf \in Seq(LineSet)

SocketTypes ==
    /\ backlog \in Seq(Clients)
    /\ clientEnd \in [Clients -> {"none", "open", "half", "closed", "aborted"}]
    /\ serverEnd \in [Clients -> {"none", "queued", "open", "closed"}]
    /\ toServer \in [Clients -> Seq(LineSet)]
    /\ toClient \in [Clients -> Seq(LineSet)]

ClientTypes ==
    /\ cpc \in [Clients -> {"idle", "loop", "send", "returned", "terminated", "killed"}]
    /\ sent \in [Clients -> Nat]
    /\ got \in [Clients -> Seq(LineSet)]

Types == ServerTypes /\ SocketTypes /\ ClientTypes

\* SlotsMatchConnections, by the element; that a slot is free follows.
SlotsInv ==
    /\ \A k \in Slots : client[k] >= 0 =>
          client[k] \in DOMAIN sock /\ k <= maxi /\ client[k] <= maxfd
    /\ \A k, l \in Slots : client[k] >= 0 /\ client[k] = client[l] => k = l
    /\ \A fd \in DOMAIN sock : \E k \in Slots : client[k] = fd
    /\ DOMAIN sock \subseteq listenfd + 1 .. OPEN_MAX - 1
    /\ allset = DOMAIN sock \cup {listenfd}
    /\ \A fd \in DOMAIN sock : sock[fd] \in Clients /\ serverEnd[sock[fd]] = "open"
    /\ \A fd, gd \in DOMAIN sock : sock[fd] = sock[gd] => fd = gd
    /\ \A c \in Clients : serverEnd[c] = "open" => \E fd \in DOMAIN sock : sock[fd] = c

QueueInv ==
    /\ \A i \in 1 .. Len(backlog) : serverEnd[backlog[i]] = "queued"
    /\ \A i, j \in 1 .. Len(backlog) : backlog[i] = backlog[j] => i = j
    /\ pc = "accept" => backlog # << >>
    /\ \A c \in Clients : cpc[c] = "idle" => serverEnd[c] = "none"

WriteInv == pc = "write" => slot \in UsedSlots /\ buf # << >>

ServerInv == Types /\ (pc # "down" => SlotsInv) /\ QueueInv /\ WriteInv

----------------------------------------------------------------------------
\* What a read takes and what it leaves.

\* Together they are the stream, and a read of a stream that is not empty takes
\* something.
LEMMA TakenRest ==
    ASSUME NEW S, NEW q \in Seq(S), NEW n \in Nat
    PROVE  /\ Taken(q, n) \in Seq(S)
           /\ Rest(q, n) \in Seq(S)
           /\ Len(Taken(q, n)) = IF Len(q) < n THEN Len(q) ELSE n
           /\ Len(Rest(q, n)) = Len(q) - Len(Taken(q, n))
           /\ Taken(q, n) \o Rest(q, n) = q
<1> DEFINE m == IF Len(q) < n THEN Len(q) ELSE n
<1>1. m \in 0 .. Len(q) /\ Len(q) \in Nat
  OBVIOUS
<1>2. \A i \in 1 .. Len(q) : q[i] \in S
  BY ElementOfSeq
<1>3. /\ SubSeq(q, 1, m) \in Seq(S)
      /\ Len(SubSeq(q, 1, m)) = m
  BY <1>1, <1>2, SubSeqProperties
<1>4. CASE Len(q) < n
  <2>1. SubSeq(q, n + 1, Len(q)) = << >>
    BY <1>4, SubSeqEmpty
  <2>2. SubSeq(q, 1, m) = q
    BY <1>4, SubSeqFull
  <2>3. /\ q \o << >> = q
        /\ << >> \in Seq(S) /\ Len(<< >>) = 0
    BY ConcatEmptySeq, EmptySeq
  <2>4. Taken(q, n) = q /\ Rest(q, n) = << >>
    BY <2>1, <2>2, <1>4 DEF Taken, Rest
  <2>5. QED
    BY <2>3, <2>4, <1>4
<1>5. CASE n <= Len(q)
  <2>1. /\ SubSeq(q, n + 1, Len(q)) \in Seq(S)
        /\ Len(SubSeq(q, n + 1, Len(q))) = IF n + 1 <= Len(q) THEN Len(q) - n ELSE 0
    BY <1>5, <1>2, SubSeqProperties
  <2>2. SubSeq(q, 1, n) \o SubSeq(q, n + 1, Len(q)) = SubSeq(q, 1, Len(q))
    <3>1. 1 \in 1 .. Len(q) + 1 /\ n \in 1 - 1 .. Len(q) /\ Len(q) \in n .. Len(q)
      BY <1>1, <1>5
    <3>2. QED
      BY <3>1, ConcatAdjacentSubSeq
  <2>3. SubSeq(q, 1, Len(q)) = q
    BY SubSeqFull
  <2>4. Taken(q, n) = SubSeq(q, 1, n) /\ Rest(q, n) = SubSeq(q, n + 1, Len(q))
    BY <1>5, <1>1 DEF Taken, Rest
  <2>5. SubSeq(q, 1, n) \in Seq(S) /\ Len(SubSeq(q, 1, n)) = n
    BY <1>5, <1>1, <1>2, SubSeqProperties
  <2>6. Len(SubSeq(q, n + 1, Len(q))) = Len(q) - n
    BY <2>1, <1>5, <1>1
  <2>7. Taken(q, n) \o Rest(q, n) = q
    BY <2>2, <2>3, <2>4
  <2>8. Len(Taken(q, n)) = n /\ Len(Rest(q, n)) = Len(q) - n
    BY <2>4, <2>5, <2>6
  <2>9. Taken(q, n) \in Seq(S) /\ Rest(q, n) \in Seq(S)
    BY <2>1, <2>4, <2>5
  <2>10. (IF Len(q) < n THEN Len(q) ELSE n) = n
    BY <1>5, <1>1
  <2>. QED
    BY <2>7, <2>8, <2>9, <2>10
<1>6. QED
  BY <1>4, <1>5

LEMMA TakenLengths ==
    ASSUME NEW S, NEW q \in Seq(S), NEW n \in Nat
    PROVE  /\ Len(q) \in Nat /\ Len(Taken(q, n)) \in Nat /\ Len(Rest(q, n)) \in Nat
           /\ Len(Taken(q, n)) <= n
           /\ Len(Taken(q, n)) + Len(Rest(q, n)) = Len(q)
<1>1. Len(q) \in Nat /\ Len(Rest(q, n)) \in Nat
  BY TakenRest
<1>2. Len(Taken(q, n)) = IF Len(q) < n THEN Len(q) ELSE n
  BY TakenRest
<1>3. Len(Rest(q, n)) = Len(q) - Len(Taken(q, n))
  BY TakenRest
<1>4. QED
  BY <1>1, <1>2, <1>3

LEMMA InitServerInv == Init => ServerInv
  BY SocketsAssumption, ServerAssumption, ClientsAssumption
  DEF Init, SockInit, ServerInit, ClientsInit, ServerInv, Types, ServerTypes, SocketTypes,
      ClientTypes, SlotsInv, QueueInv, WriteInv, Slots, None, listenfd, UsedSlots

----------------------------------------------------------------------------
\* The steps of the server.

LEMMA AcceptStep == ServerInv /\ Accept /\ UNCHANGED clientVars => ServerInv'
<1> SUFFICES ASSUME ServerInv, Accept, UNCHANGED clientVars
             PROVE  ServerInv'
  OBVIOUS
<1>1. PICK connfd \in FreeDescriptors, k \in FreeSlots :
          /\ sock' = [fd \in DOMAIN sock \cup {connfd} |->
                         IF fd = connfd THEN Head(backlog) ELSE sock[fd]]
          /\ client' = [client EXCEPT ![k] = connfd]
          /\ allset' = allset \cup {connfd}
          /\ maxfd' = Raised(connfd)
          /\ maxi' = RaisedSlot(k)
  BY DEF Accept
<1>2. /\ pc = "accept" /\ pc' \in {"select", "slots"}
      /\ serverEnd' = [serverEnd EXCEPT ![Head(backlog)] = "open"]
      /\ backlog' = Tail(backlog)
      /\ UNCHANGED <<slot, buf, clientEnd, toServer, toClient, reset>>
  BY DEF Accept, Served
<1>3. Types /\ SlotsInv /\ QueueInv /\ backlog # << >>
  BY <1>2 DEF ServerInv, QueueInv
<1>4. /\ connfd \in listenfd + 1 .. OPEN_MAX - 1 /\ connfd \notin DOMAIN sock
      /\ connfd \in Int /\ connfd >= 0
      /\ k \in Slots /\ client[k] < 0 /\ k \in Int
  BY ServerAssumption DEF FreeDescriptors, FreeSlots, Slots, listenfd
<1>5. /\ Head(backlog) = backlog[1] /\ Head(backlog) \in Clients
      /\ Tail(backlog) \in Seq(Clients) /\ Len(Tail(backlog)) = Len(backlog) - 1
      /\ \A i \in 1 .. Len(Tail(backlog)) : Tail(backlog)[i] = backlog[i + 1]
      /\ Len(backlog) \in Nat \ {0}
  BY <1>3, HeadTailProperties, EmptySeq DEF Types, SocketTypes
<1> DEFINE c == Head(backlog)
<1>6. serverEnd[c] = "queued"
  BY <1>3, <1>5 DEF QueueInv
<1>7. Types'
  BY <1>1, <1>2, <1>3, <1>4, <1>5 DEF Types, ServerTypes, SocketTypes, ClientTypes, clientVars,
     Raised, RaisedSlot, FreeSlots, Slots
<1>8. SlotsInv'
  <2>1. DOMAIN sock' = DOMAIN sock \cup {connfd}
    BY <1>1
  <2>2. /\ sock'[connfd] = c
        /\ \A fd \in DOMAIN sock : fd # connfd /\ sock'[fd] = sock[fd]
    BY <1>1, <1>4
  <2>3. /\ client'[k] = connfd
        /\ \A l \in Slots : l # k => client'[l] = client[l]
    BY <1>1, <1>3, <1>4 DEF Types, ServerTypes
  <2>4. /\ serverEnd'[c] = "open"
        /\ \A d \in Clients : d # c => serverEnd'[d] = serverEnd[d]
    BY <1>2, <1>3, <1>5 DEF Types, SocketTypes
  <2>5. /\ maxfd' >= connfd /\ maxfd' >= maxfd /\ maxi' >= k /\ maxi' >= maxi
        /\ maxfd \in Int /\ maxi \in Int /\ maxfd' \in Int /\ maxi' \in Int
    BY <1>1, <1>3, <1>4 DEF Types, ServerTypes, Raised, RaisedSlot
  <2>6. \A fd \in DOMAIN sock : sock[fd] # c
    BY <1>3, <1>6 DEF SlotsInv
  <2>7. \A l \in Slots : client'[l] >= 0 =>
            client'[l] \in DOMAIN sock' /\ l <= maxi' /\ client'[l] <= maxfd'
    BY <2>1, <2>3, <2>5, <1>3, <1>4 DEF SlotsInv, Slots, Types, ServerTypes
  <2>8. \A j, l \in Slots : client'[j] >= 0 /\ client'[j] = client'[l] => j = l
    BY <2>3, <1>3, <1>4 DEF SlotsInv, Types, ServerTypes
  <2>9. \A fd \in DOMAIN sock' : \E l \in Slots : client'[l] = fd
    <3>1. ASSUME NEW fd \in DOMAIN sock PROVE \E l \in Slots : client'[l] = fd
      <4>1. PICK l \in Slots : client[l] = fd
        BY <1>3 DEF SlotsInv
      <4>2. fd >= 0
        BY <1>3 DEF SlotsInv, listenfd
      <4>3. l # k
        BY <4>1, <4>2, <1>3, <1>4 DEF Types, ServerTypes
      <4>4. QED
        BY <4>1, <4>3, <2>3
    <3>2. QED
      BY <3>1, <2>1, <2>3, <1>4
  <2>10. DOMAIN sock' \subseteq listenfd + 1 .. OPEN_MAX - 1
    BY <2>1, <1>3, <1>4 DEF SlotsInv
  <2>11. allset' = DOMAIN sock' \cup {listenfd}
    BY <1>1, <1>3, <2>1 DEF SlotsInv
  <2>12. \A fd \in DOMAIN sock' : sock'[fd] \in Clients /\ serverEnd'[sock'[fd]] = "open"
    BY <2>1, <2>2, <2>4, <2>6, <1>3, <1>5 DEF SlotsInv
  <2>13. \A fd, gd \in DOMAIN sock' : sock'[fd] = sock'[gd] => fd = gd
    BY <2>1, <2>2, <2>6, <1>3 DEF SlotsInv
  <2>14. \A d \in Clients : serverEnd'[d] = "open" => \E fd \in DOMAIN sock' : sock'[fd] = d
    BY <2>1, <2>2, <2>4, <1>3 DEF SlotsInv
  <2>15. QED
    BY <2>7, <2>8, <2>9, <2>10, <2>11, <2>12, <2>13, <2>14 DEF SlotsInv
<1>9. QueueInv'
  <2>1. \A i \in 1 .. Len(backlog') :
            /\ i + 1 \in 1 .. Len(backlog) /\ backlog'[i] = backlog[i + 1]
            /\ backlog[i + 1] # c /\ backlog[i + 1] \in Clients
    BY <1>2, <1>3, <1>5 DEF QueueInv, Types, SocketTypes
  <2>2. \A d \in Clients : d # c => serverEnd'[d] = serverEnd[d]
    BY <1>2, <1>3, <1>5 DEF Types, SocketTypes
  <2>3. \A i \in 1 .. Len(backlog') : serverEnd'[backlog'[i]] = "queued"
    <3>1. TAKE i \in 1 .. Len(backlog')
    <3>2. DEFINE d == backlog'[i]
    <3>3. d \in Clients /\ d # c /\ serverEnd[d] = "queued"
      BY <2>1, <1>3 DEF QueueInv
    <3>4. QED
      BY <3>3, <2>2
  <2>4. \A i, j \in 1 .. Len(backlog') : backlog'[i] = backlog'[j] => i = j
    BY <2>1, <1>3 DEF QueueInv
  <2>5. \A d \in Clients : cpc'[d] = "idle" => serverEnd'[d] = "none"
    BY <2>2, <1>3, <1>5, <1>6 DEF QueueInv, clientVars
  <2>6. QED
    BY <2>3, <2>4, <2>5, <1>2 DEF QueueInv
<1>10. QED
  BY <1>2, <1>7, <1>8, <1>9 DEF ServerInv, WriteInv

\* SlotsInv looks at nothing but slotVars and at which connections are open.
LEMMA SlotsKept ==
    ASSUME SlotsInv, UNCHANGED slotVars,
           \A c \in Clients : serverEnd'[c] = "open" <=> serverEnd[c] = "open"
    PROVE  SlotsInv'
  BY DEF SlotsInv, slotVars

LEMMA QueueKept ==
    ASSUME QueueInv, UNCHANGED <<backlog, serverEnd>>, pc' = "accept" => pc = "accept",
           \A c \in Clients : cpc'[c] = "idle" => cpc[c] = "idle"
    PROVE  QueueInv'
  BY DEF QueueInv

LEMMA SelectStep == ServerInv /\ Select /\ UNCHANGED clientVars => ServerInv'
<1> SUFFICES ASSUME ServerInv, Select, UNCHANGED clientVars
             PROVE  ServerInv'
  OBVIOUS
<1>1. /\ UNCHANGED <<slotVars, slot, buf, sockVars>> /\ pc = "select"
      /\ pc' \in {"accept", "slots"}
  BY DEF Select
<1>2. Types'
  BY <1>1 DEF ServerInv, Types, ServerTypes, SocketTypes, ClientTypes, slotVars, sockVars, clientVars
<1>3. SlotsInv'
  BY <1>1, SlotsKept DEF ServerInv, sockVars
<1>4. pc' = "accept" => backlog # << >>
  <2>1. pc' = "accept" => listenfd \in ReadyNow
    BY DEF Select
  <2>2. QED
    BY <2>1 DEF ReadyNow, Ready
<1>5. QueueInv'
  BY <1>1, <1>4 DEF ServerInv, QueueInv, sockVars, clientVars
<1>6. QED
  BY <1>1, <1>2, <1>3, <1>5 DEF ServerInv, WriteInv

LEMMA DieStep ==
    ASSUME Types, QueueInv, Die, UNCHANGED clientVars
    PROVE  ServerInv'
<1>1. Types'
  <2>1. << >> \in Seq(LineSet) /\ << >> \in Seq(Clients)
    BY EmptySeq
  <2>2. SocketTypes'
    BY <2>1 DEF Types, SocketTypes, Die, CloseAll
  <2>3. ServerTypes' /\ ClientTypes'
    BY <2>1, ServerAssumption DEF Types, ServerTypes, ClientTypes, Die, clientVars, listenfd
  <2>4. QED
    BY <2>2, <2>3 DEF Types
<1>2. QueueInv'
  BY EmptySeq DEF Types, SocketTypes, QueueInv, Die, CloseAll, clientVars
<1>3. QED
  BY <1>1, <1>2 DEF ServerInv, WriteInv, Die

LEMMA AcceptFailsStep == ServerInv /\ AcceptFails /\ UNCHANGED clientVars => ServerInv'
<1> SUFFICES ASSUME ServerInv, AcceptFails, UNCHANGED clientVars
             PROVE  ServerInv'
  OBVIOUS
<1>1. pc = "accept" /\ Types /\ SlotsInv /\ QueueInv
  BY DEF AcceptFails, ServerInv
<1>2. CASE Die
  BY <1>1, <1>2, DieStep
<1>3. ASSUME NEW k \in FreeSlots, maxi' = RaisedSlot(k), Served(listenfd),
             UNCHANGED <<client, maxfd, allset, sock, slot, buf, sockVars>>
      PROVE  ServerInv'
  <2>1. maxi \in Int /\ maxi' \in -1 .. FD_SETSIZE - 1 /\ maxi' >= maxi
    BY <1>1, <1>3, ServerAssumption DEF Types, ServerTypes, RaisedSlot, FreeSlots, Slots
  <2>2. pc' \in {"select", "slots"}
    BY <1>3 DEF Served
  <2>3. Types'
    BY <1>1, <1>3, <2>1, <2>2 DEF Types, ServerTypes, SocketTypes, ClientTypes, clientVars, sockVars
  <2>4. \A l \in Slots : client[l] >= 0 => l <= maxi'
    BY <1>1, <2>1, ServerAssumption DEF SlotsInv, Slots
  <2>5. SlotsInv'
    BY <1>1, <1>3, <2>4 DEF SlotsInv, sockVars
  <2>6. QueueInv'
    BY <1>1, <1>3, <2>2 DEF QueueInv, sockVars, clientVars
  <2>7. QED
    BY <2>2, <2>3, <2>5, <2>6 DEF ServerInv, WriteInv
<1>4. QED
  BY <1>2, <1>3 DEF AcceptFails

LEMMA CloseSlotStep ==
    ASSUME ServerInv, pc = "slots", NEW k \in ReadySlots, CloseSlot(k), UNCHANGED clientVars
    PROVE  ServerInv'
<1> DEFINE fd == client[k]
<1> DEFINE c == sock[fd]
<1>1. Types /\ SlotsInv /\ QueueInv
  BY DEF ServerInv
<1>2. /\ serverEnd' = [serverEnd EXCEPT ![c] = "closed"]
      /\ sock' = Restrict(sock, DOMAIN sock \ {fd})
      /\ allset' = allset \ {fd}
      /\ client' = [client EXCEPT ![k] = -1]
      /\ UNCHANGED <<maxi, maxfd, slot, buf, backlog, clientEnd, toServer, toClient>>
      /\ pc' \in {"select", "slots"}
  BY DEF CloseSlot, Served, Cleared
<1>3. k \in Slots /\ fd >= 0 /\ client[k] >= 0
  <2>1. k \in 0 .. maxi /\ fd >= 0
    BY DEF ReadySlots
  <2>2. QED
    BY <2>1, <1>1, ServerAssumption DEF Types, ServerTypes, Slots
<1>4. fd \in DOMAIN sock /\ c \in Clients /\ serverEnd[c] = "open" /\ fd # listenfd
  BY <1>1, <1>3, ServerAssumption DEF SlotsInv, listenfd
<1>5. /\ DOMAIN sock' = DOMAIN sock \ {fd}
      /\ \A gd \in DOMAIN sock' : sock'[gd] = sock[gd]
  BY <1>2 DEF Restrict
<1>6. /\ client'[k] = -1
      /\ \A l \in Slots : l # k => client'[l] = client[l]
  BY <1>1, <1>2, <1>3 DEF Types, ServerTypes
<1>7. /\ serverEnd'[c] = "closed"
      /\ \A d \in Clients : d # c => serverEnd'[d] = serverEnd[d]
  BY <1>1, <1>2, <1>4 DEF Types, SocketTypes
<1>8. Types'
  BY <1>1, <1>2, <1>3, <1>4 DEF Types, ServerTypes, SocketTypes, ClientTypes, clientVars
<1>9. SlotsInv'
  <2>1. \A l \in Slots : client'[l] >= 0 => l # k /\ client'[l] = client[l]
    BY <1>6
  <2>2. \A l \in Slots : l # k /\ client[l] >= 0 => client[l] # fd
    BY <1>1, <1>3 DEF SlotsInv
  <2>3. \A l \in Slots : client'[l] >= 0 =>
            client'[l] \in DOMAIN sock' /\ l <= maxi' /\ client'[l] <= maxfd'
    BY <2>1, <2>2, <1>1, <1>2, <1>5 DEF SlotsInv
  <2>4. \A j, l \in Slots : client'[j] >= 0 /\ client'[j] = client'[l] => j = l
    BY <2>1, <1>1 DEF SlotsInv
  <2>5. \A gd \in DOMAIN sock' : \E l \in Slots : client'[l] = gd
    BY <1>1, <1>5, <1>6 DEF SlotsInv
  <2>6. /\ DOMAIN sock' \subseteq listenfd + 1 .. OPEN_MAX - 1
        /\ allset' = DOMAIN sock' \cup {listenfd}
    <3>1. /\ DOMAIN sock \subseteq listenfd + 1 .. OPEN_MAX - 1
          /\ allset = DOMAIN sock \cup {listenfd}
      BY <1>1 DEF SlotsInv
    <3>2. allset' = (DOMAIN sock \ {fd}) \cup {listenfd}
      BY <3>1, <1>2, <1>4
    <3>3. QED
      BY <3>1, <3>2, <1>5
  <2>7. \A gd \in DOMAIN sock' : sock'[gd] \in Clients /\ serverEnd'[sock'[gd]] = "open"
    <3>1. \A gd \in DOMAIN sock' : sock[gd] # c /\ sock[gd] \in Clients
      BY <1>1, <1>4, <1>5 DEF SlotsInv
    <3>2. \A gd \in DOMAIN sock' : sock'[gd] = sock[gd] /\ serverEnd[sock[gd]] = "open"
      BY <1>1, <1>5 DEF SlotsInv
    <3>3. QED
      BY <3>1, <3>2, <1>7
  <2>8. \A gd, hd \in DOMAIN sock' : sock'[gd] = sock'[hd] => gd = hd
    BY <1>1, <1>5 DEF SlotsInv
  <2>9. \A d \in Clients : serverEnd'[d] = "open" => \E gd \in DOMAIN sock' : sock'[gd] = d
    BY <1>1, <1>5, <1>7 DEF SlotsInv
  <2>10. QED
    BY <2>3, <2>4, <2>5, <2>6, <2>7, <2>8, <2>9 DEF SlotsInv
<1>10. QueueInv'
  <2>1. \A i \in 1 .. Len(backlog) : backlog[i] \in Clients /\ backlog[i] # c
    BY <1>1, <1>4 DEF QueueInv, Types, SocketTypes
  <2>2. \A i \in 1 .. Len(backlog') : serverEnd'[backlog'[i]] = "queued"
    BY <2>1, <1>1, <1>2, <1>7 DEF QueueInv
  <2>3. \A d \in Clients : cpc'[d] = "idle" => serverEnd'[d] = "none"
    BY <1>1, <1>4, <1>7 DEF QueueInv, clientVars
  <2>4. QED
    BY <2>2, <2>3, <1>1, <1>2 DEF QueueInv
<1>11. QED
  BY <1>2, <1>8, <1>9, <1>10 DEF ServerInv, WriteInv

\* Steps that open and close nothing.
LEMMA ServerInvKept ==
    ASSUME ServerInv, Types', UNCHANGED <<slotVars, backlog, serverEnd>>,
           pc # "down", pc' # "accept", pc' # "down", WriteInv',
           \A c \in Clients : cpc'[c] = "idle" => cpc[c] = "idle"
    PROVE  ServerInv'
<1>1. SlotsInv'
  BY SlotsKept DEF ServerInv
<1>2. QueueInv'
  BY QueueKept DEF ServerInv
<1>3. QED
  BY <1>1, <1>2 DEF ServerInv

LEMMA ReadFailsStep ==
    ASSUME ServerInv, pc = "slots", NEW k \in ReadySlots, ReadFails(k), UNCHANGED clientVars
    PROVE  ServerInv'
<1>1. /\ UNCHANGED <<slotVars, slot, buf, backlog, clientEnd, serverEnd, toServer, toClient>>
      /\ pc' \in {"select", "slots"}
  BY DEF ReadFails, Served
<1>2. Types'
  BY <1>1 DEF ServerInv, Types, ServerTypes, SocketTypes, ClientTypes, slotVars, clientVars
<1>3. QED
  BY <1>1, <1>2, ServerInvKept DEF clientVars, WriteInv

LEMMA ReadStep ==
    ASSUME ServerInv, pc = "slots", NEW k \in ReadySlots, Read(k), UNCHANGED clientVars
    PROVE  ServerInv'
<1> DEFINE c == sock[client[k]]
<1>1. Types /\ SlotsInv
  BY DEF ServerInv
<1>2. /\ toServer[c] # << >>
      /\ buf' = Taken(toServer[c], MAXLINE)
      /\ toServer' = [toServer EXCEPT ![c] = Rest(@, MAXLINE)]
      /\ slot' = k /\ pc' = "write"
      /\ UNCHANGED <<slotVars, rset, nready, backlog, clientEnd, serverEnd, toClient, reset>>
  BY DEF Read
<1>3. k \in UsedSlots /\ c \in Clients
  <2>1. k \in 0 .. maxi /\ client[k] >= 0
    BY DEF ReadySlots
  <2>2. k \in Slots
    BY <2>1, <1>1, ServerAssumption DEF Types, ServerTypes, Slots
  <2>3. QED
    BY <2>1, <2>2, <1>1 DEF SlotsInv, UsedSlots
<1>4. toServer[c] \in Seq(LineSet) /\ MAXLINE \in Nat \ {0}
  BY <1>1, <1>3, SocketsAssumption DEF Types, SocketTypes
<1>5. /\ Taken(toServer[c], MAXLINE) \in Seq(LineSet)
      /\ Rest(toServer[c], MAXLINE) \in Seq(LineSet)
      /\ Taken(toServer[c], MAXLINE) # << >>
  <2>1. Len(toServer[c]) \in Nat \ {0}
    BY <1>2, <1>4, EmptySeq
  <2>2. Len(Taken(toServer[c], MAXLINE)) # 0
    BY <2>1, <1>4, TakenRest
  <2>3. QED
    BY <2>2, <1>4, TakenRest, EmptySeq
<1>6. Types'
  BY <1>1, <1>2, <1>3, <1>5 DEF Types, ServerTypes, SocketTypes, ClientTypes, slotVars, clientVars
<1>7. WriteInv'
  BY <1>2, <1>3, <1>5 DEF WriteInv, UsedSlots, slotVars
<1>8. QED
  BY <1>2, <1>6, <1>7, ServerInvKept DEF clientVars

LEMMA ServeSlotStep == ServerInv /\ ServeSlot /\ UNCHANGED clientVars => ServerInv'
  BY CloseSlotStep, ReadFailsStep, ReadStep DEF ServeSlot

\* The write has been done.
LEMMA WrittenStep ==
    ASSUME ServerInv, pc = "write", Written, UNCHANGED <<backlog, clientEnd, serverEnd, toServer>>,
           toClient' \in [Clients -> Seq(LineSet)], UNCHANGED clientVars
    PROVE  ServerInv'
<1>1. pc' \in {"select", "slots"} /\ buf' = << >> /\ UNCHANGED slotVars
  BY DEF Written, Served
<1>2. Types'
  BY <1>1, EmptySeq
  DEF ServerInv, Types, ServerTypes, SocketTypes, ClientTypes, slotVars, clientVars
<1>3. QED
  BY <1>1, <1>2, ServerInvKept DEF clientVars, WriteInv

LEMMA PeerConnected == ServerInv /\ pc = "write" => Peer(slot) \in Clients
  BY DEF ServerInv, WriteInv, SlotsInv, UsedSlots, Peer

LEMMA EchoStep == ServerInv /\ Echo /\ UNCHANGED clientVars => ServerInv'
<1> SUFFICES ASSUME ServerInv, Echo, UNCHANGED clientVars
             PROVE  ServerInv'
  OBVIOUS
<1> DEFINE c == Peer(slot)
           room == DownRoom - Len(toClient[c])
<1>1. /\ pc = "write" /\ room > 0
      /\ toClient' = [toClient EXCEPT ![c] = @ \o Taken(buf, room)]
      /\ UNCHANGED <<backlog, clientEnd, serverEnd, toServer, reset>>
  BY DEF Echo
<1>2. Types /\ c \in Clients /\ buf \in Seq(LineSet) /\ toClient[c] \in Seq(LineSet)
  BY <1>1, PeerConnected DEF ServerInv, Types, ServerTypes, SocketTypes
<1>3. Len(toClient[c]) \in Nat /\ Len(buf) \in Nat /\ room \in Nat
  BY <1>1, <1>2, SocketsAssumption
<1>4. Taken(buf, room) \in Seq(LineSet) /\ Rest(buf, room) \in Seq(LineSet)
  BY <1>2, <1>3, TakenRest
<1>5. toClient' \in [Clients -> Seq(LineSet)]
  <2>1. toClient[c] \o Taken(buf, room) \in Seq(LineSet)
    BY <1>2, <1>4, ConcatProperties
  <2>2. QED
    BY <2>1, <1>1, <1>2 DEF Types, SocketTypes
<1>6. CASE Len(buf) <= room /\ Written
  BY <1>1, <1>5, <1>6, WrittenStep
<1>7. CASE Len(buf) > room /\ buf' = Rest(buf, room) /\ UNCHANGED <<pc, slotVars, rset, nready, slot>>
  <2>1. Rest(buf, room) # << >>
    <3>1. Len(Rest(buf, room)) = Len(buf) - room
      BY <1>2, <1>3, <1>7, TakenRest
    <3>2. QED
      BY <3>1, <1>3, <1>7, EmptySeq
  <2>2. Types'
    BY <1>1, <1>2, <1>4, <1>5, <1>7
    DEF Types, ServerTypes, SocketTypes, ClientTypes, slotVars, clientVars
  <2>3. WriteInv'
    BY <2>1, <1>1, <1>7 DEF ServerInv, WriteInv, UsedSlots, slotVars
  <2>4. QED
    BY <2>2, <2>3, <1>1, <1>7, ServerInvKept DEF clientVars
<1>8. QED
  BY <1>6, <1>7 DEF Echo

LEMMA EchoLostStep == ServerInv /\ EchoLost /\ UNCHANGED clientVars => ServerInv'
  BY WrittenStep DEF EchoLost, ServerInv, Types, SocketTypes

LEMMA EchoFailsStep == ServerInv /\ EchoFails /\ UNCHANGED clientVars => ServerInv'
  BY WrittenStep, DieStep DEF EchoFails, ServerInv, Types, SocketTypes

LEMMA ServerStepInv == ServerInv /\ ServerStep /\ UNCHANGED clientVars => ServerInv'
  BY SelectStep, AcceptStep, AcceptFailsStep, ServeSlotStep, EchoStep, EchoLostStep, EchoFailsStep
  DEF ServerStep

----------------------------------------------------------------------------
\* The steps of the clients.

LEMMA ConnectStep ==
    ASSUME ServerInv, NEW c \in Clients, Connect(c), UNCHANGED serverVars
    PROVE  ServerInv'
<1>1. /\ cpc[c] = "idle" /\ cpc' = [cpc EXCEPT ![c] = "loop"]
      /\ clientEnd' = [clientEnd EXCEPT ![c] = "open"]
      /\ serverEnd' = [serverEnd EXCEPT ![c] = "queued"]
      /\ backlog' = Append(backlog, c)
      /\ UNCHANGED <<toServer, toClient, sent, got>>
  BY DEF Connect, Establish
<1>2. Types /\ QueueInv /\ WriteInv /\ UNCHANGED <<pc, slotVars, slot, buf>>
  BY DEF ServerInv, serverVars, slotVars
<1>3. serverEnd[c] = "none"
  BY <1>1, <1>2 DEF QueueInv
<1>4. /\ backlog' \in Seq(Clients) /\ Len(backlog') = Len(backlog) + 1 /\ Len(backlog) \in Nat
      /\ \A i \in 1 .. Len(backlog) : backlog'[i] = backlog[i] /\ backlog[i] \in Clients
      /\ backlog'[Len(backlog) + 1] = c
  BY <1>1, <1>2, AppendProperties, ElementOfSeq DEF Types, SocketTypes
<1>5. /\ serverEnd'[c] = "queued"
      /\ \A d \in Clients : d # c => serverEnd'[d] = serverEnd[d] /\ cpc'[d] = cpc[d]
      /\ cpc'[c] = "loop"
  BY <1>1, <1>2 DEF Types, SocketTypes, ClientTypes
<1>6. Types'
  BY <1>1, <1>2, <1>4 DEF Types, ServerTypes, SocketTypes, ClientTypes, slotVars
<1>7. SlotsInv => SlotsInv'
  BY <1>2, <1>3, <1>5, SlotsKept
<1>8. QueueInv'
  <2>1. \A i \in 1 .. Len(backlog) : serverEnd[backlog[i]] = "queued" /\ backlog[i] # c
    BY <1>2, <1>3 DEF QueueInv
  <2>2. \A i \in 1 .. Len(backlog') : i \in 1 .. Len(backlog) \/ i = Len(backlog) + 1
    BY <1>4
  <2>3. \A i \in 1 .. Len(backlog') : serverEnd'[backlog'[i]] = "queued"
    BY <2>1, <2>2, <1>4, <1>5
  <2>4. \A i, j \in 1 .. Len(backlog') : backlog'[i] = backlog'[j] => i = j
    BY <2>1, <2>2, <1>2, <1>4 DEF QueueInv
  <2>5. \A d \in Clients : cpc'[d] = "idle" => serverEnd'[d] = "none"
    BY <1>2, <1>5 DEF QueueInv
  <2>6. backlog' # << >>
    BY <1>4, EmptySeq
  <2>7. QED
    BY <2>3, <2>4, <2>5, <2>6 DEF QueueInv
<1>9. WriteInv'
  BY <1>2 DEF WriteInv, UsedSlots, slotVars
<1>10. QED
  BY <1>2, <1>6, <1>7, <1>8, <1>9 DEF ServerInv

\* Any other step of a client, its user or its connection.
LEMMA ClientsKeep ==
    ASSUME ServerInv, Types', UNCHANGED <<serverVars, backlog, serverEnd>>,
           \A c \in Clients : cpc'[c] = "idle" => cpc[c] = "idle"
    PROVE  ServerInv'
<1>1. UNCHANGED <<pc, slotVars, slot, buf>>
  BY DEF serverVars, slotVars
<1>2. SlotsInv => SlotsInv'
  BY <1>1, SlotsKept
<1>3. QueueInv'
  BY <1>1, QueueKept DEF ServerInv
<1>4. WriteInv'
  BY <1>1 DEF ServerInv, WriteInv, UsedSlots, slotVars
<1>5. QED
  BY <1>1, <1>2, <1>3, <1>4 DEF ServerInv

\* What a step of a client may change of what ServerInv looks at.
ClientChange ==
    /\ UNCHANGED <<backlog, serverEnd>>
    /\ SocketTypes' /\ ClientTypes'
    /\ \A c \in Clients : cpc'[c] = "idle" => cpc[c] = "idle"

LEMMA ClientChangeStep ==
    ASSUME ServerInv, ClientChange, UNCHANGED serverVars
    PROVE  ServerInv'
<1>1. ServerTypes'
  BY DEF ServerInv, Types, ServerTypes, serverVars
<1>2. QED
  BY <1>1, ClientsKeep DEF ClientChange, Types

LEMMA EndStep ==
    ASSUME SocketTypes, ClientTypes, NEW c \in Clients, NEW how \in {"returned", "terminated", "killed"},
           End(c, how), got' = got, sent' \in [Clients -> Nat]
    PROVE  ClientChange
  BY EmptySeq DEF End, Leave, CloseClient, SocketTypes, ClientTypes, ClientChange

LEMMA SendStep ==
    ASSUME SocketTypes, ClientTypes, NEW c \in Clients, Send(c)
    PROVE  ClientChange
<1>1. sent[c] \in Nat /\ toServer[c] \in Seq(LineSet) /\ Line(c, sent[c] + 1) \in LineSet
  BY DEF SocketTypes, ClientTypes, Line, LineSet
<1>2. Append(toServer[c], Line(c, sent[c] + 1)) \in Seq(LineSet)
  BY <1>1, AppendProperties
<1>3. QED
  BY <1>1, <1>2 DEF Send, SocketTypes, ClientTypes, ClientChange

LEMMA SendFailsStep ==
    ASSUME SocketTypes, ClientTypes, NEW c \in Clients, SendFails(c)
    PROVE  ClientChange
<1>1. sent' \in [Clients -> Nat]
  BY DEF SendFails, ClientTypes
<1>2. CASE End(c, "killed")
  BY <1>1, <1>2, EndStep DEF SendFails
<1>3. CASE cpc' = [cpc EXCEPT ![c] = "loop"] /\ UNCHANGED <<inputVars, sockVars>>
  BY <1>1, <1>3 DEF SendFails, SocketTypes, ClientTypes, ClientChange, sockVars
<1>4. QED
  BY <1>2, <1>3 DEF SendFails

LEMMA ReceiveStep ==
    ASSUME SocketTypes, ClientTypes, NEW c \in Clients, NEW n \in Nat,
           Receive(c, n) \/ NoReceive
    PROVE  got' \in [Clients -> Seq(LineSet)] /\ toClient' \in [Clients -> Seq(LineSet)]
<1>1. got[c] \in Seq(LineSet) /\ toClient[c] \in Seq(LineSet)
  BY DEF SocketTypes, ClientTypes
<1>2. Taken(toClient[c], n) \in Seq(LineSet) /\ Rest(toClient[c], n) \in Seq(LineSet)
  BY <1>1, TakenRest
<1>3. got[c] \o Taken(toClient[c], n) \in Seq(LineSet)
  BY <1>1, <1>2, ConcatProperties
<1>4. CASE Receive(c, n)
  BY <1>2, <1>3, <1>4 DEF Receive, SocketTypes, ClientTypes
<1>5. CASE NoReceive
  BY <1>5 DEF NoReceive, SocketTypes, ClientTypes
<1>6. QED
  BY <1>4, <1>5

LEMMA LoopStep ==
    ASSUME SocketTypes, ClientTypes, NEW c \in Clients, ShutLoop(c) \/ WriteLoop(c)
    PROVE  ClientChange
<1>1. got' \in [Clients -> Seq(LineSet)] /\ toClient' \in [Clients -> Seq(LineSet)]
  BY ReceiveStep, SocketsAssumption DEF ShutLoop, WriteLoop
<1>2. UNCHANGED <<sent, backlog, serverEnd, toServer>>
  BY DEF ShutLoop, WriteLoop
<1>3. /\ cpc' \in {cpc, [cpc EXCEPT ![c] = "send"]}
      /\ clientEnd' \in {clientEnd, [clientEnd EXCEPT ![c] = "half"]}
  BY DEF ShutLoop, ShutdownWrite, WriteLoop
<1>4. QED
  BY <1>1, <1>2, <1>3 DEF SocketTypes, ClientTypes, ClientChange

LEMMA WriteReturnStep ==
    ASSUME SocketTypes, ClientTypes, NEW c \in Clients, WriteReturn(c)
    PROVE  ClientChange
<1>1. got[c] \in Seq(LineSet) /\ toClient[c] \in Seq(LineSet)
  BY DEF SocketTypes, ClientTypes
<1>2. got[c] \o Taken(toClient[c], 1) \in Seq(LineSet) /\ << >> \in Seq(LineSet)
  BY <1>1, TakenRest, ConcatProperties, EmptySeq
<1>3. QED
  BY <1>2 DEF WriteReturn, Leave, SocketTypes, ClientTypes, ClientChange

LEMMA ClientStepChange ==
    ASSUME SocketTypes, ClientTypes, NEW c \in Clients, ClientStep(c)
    PROVE  ClientChange
<1>1. CASE ShutEnd(c)
  BY <1>1, EndStep DEF ShutEnd, ClientTypes
<1>2. CASE WriteEnd(c)
  BY <1>2, EndStep DEF WriteEnd, ClientTypes
<1>3. QED
  BY <1>1, <1>2, SendStep, SendFailsStep, LoopStep, WriteReturnStep DEF ClientStep

LEMMA OtherStepChange ==
    ASSUME SocketTypes, ClientTypes, NEW c \in Clients,
           User(c) \/ (ResetArrives(c) /\ UNCHANGED clientVars)
    PROVE  ClientChange
  BY DEF User, Type, CloseInput, ResetArrives, sockVars, clientVars, SocketTypes, ClientTypes,
         ClientChange

LEMMA NextServerInv == ServerInv /\ [Next]_vars => ServerInv'
<1> SUFFICES ASSUME ServerInv, [Next]_vars
             PROVE  ServerInv'
  OBVIOUS
<1>1. SocketTypes /\ ClientTypes
  BY DEF ServerInv, Types
<1>2. CASE ServerStep /\ UNCHANGED clientVars
  BY <1>2, ServerStepInv
<1>3. ASSUME NEW c \in Clients, Connect(c), UNCHANGED serverVars
      PROVE  ServerInv'
  BY <1>3, ConnectStep
<1>4. ASSUME NEW c \in Clients, ClientStep(c), UNCHANGED serverVars
      PROVE  ServerInv'
  BY <1>1, <1>4, ClientStepChange, ClientChangeStep
<1>5. ASSUME NEW c \in Clients, UNCHANGED serverVars,
             User(c) \/ (ResetArrives(c) /\ UNCHANGED clientVars)
      PROVE  ServerInv'
  BY <1>1, <1>5, OtherStepChange, ClientChangeStep
<1>6. CASE UNCHANGED vars
  <2>1. UNCHANGED <<pc, client, maxi, maxfd, allset, slot, buf, sock>>
    BY <1>6 DEF vars, serverVars
  <2>2. UNCHANGED <<backlog, clientEnd, serverEnd, toServer, toClient, cpc, sent, got>>
    BY <1>6 DEF vars, sockVars, clientVars
  <2>3. Types'
    BY <2>1, <2>2 DEF ServerInv, Types, ServerTypes, SocketTypes, ClientTypes
  <2>4. pc # "down" => SlotsInv'
    BY <2>1, <2>2, SlotsKept DEF ServerInv, slotVars
  <2>5. QueueInv'
    BY <2>1, <2>2, QueueKept DEF ServerInv
  <2>6. WriteInv'
    BY <2>1 DEF ServerInv, WriteInv, UsedSlots
  <2>7. QED
    BY <2>1, <2>3, <2>4, <2>5, <2>6 DEF ServerInv
<1>7. CASE Stop
  BY <1>6, <1>7 DEF Stop
<1>8. QED
  BY <1>2, <1>3, <1>4, <1>5, <1>6, <1>7 DEF Next

LEMMA ServerInvariance == Spec => []ServerInv
<1>1. QED
  BY InitServerInv, NextServerInv, PTL DEF Spec

----------------------------------------------------------------------------
\* Theorems about the server's tables.

\* There are more slots than descriptors a connection can have.
LEMMA SlotIsFree == ServerInv /\ pc # "down" => FreeSlots # {}
<1> SUFFICES ASSUME ServerInv, pc # "down", FreeSlots = {}
             PROVE  FALSE
  OBVIOUS
<1> DEFINE Descriptors == 4 .. OPEN_MAX - 1
<1>1. client \in [Slots -> Int] /\ SlotsInv
  BY DEF ServerInv, Types, ServerTypes
<1>2. \A k \in Slots : client[k] >= 0
  BY <1>1 DEF FreeSlots
<1>3. \A k \in Slots : client[k] \in Descriptors
  BY <1>1, <1>2 DEF SlotsInv, listenfd
<1>4. client \in Injection(Slots, Descriptors)
  BY <1>1, <1>2, <1>3 DEF SlotsInv, Injection, IsInjective
<1>5. /\ FD_SETSIZE \in Nat /\ OPEN_MAX \in Nat
      /\ 3 < OPEN_MAX /\ OPEN_MAX <= FD_SETSIZE
  BY ServerAssumption DEF listenfd
<1>6. /\ IsFiniteSet(Slots) /\ Cardinality(Slots) = FD_SETSIZE
  BY <1>5, FS_Interval DEF Slots
<1>7. /\ IsFiniteSet(Descriptors) /\ Cardinality(Descriptors) = OPEN_MAX - 4
  BY <1>5, FS_Interval
<1>8. Cardinality(Slots) <= Cardinality(Descriptors)
  BY <1>4, <1>6, <1>7, FS_Injection
<1>9. QED
  BY <1>5, <1>6, <1>7, <1>8

\* client[], allset, maxi and maxfd always agree with the open connections, and
\* the exit for too many clients is never taken.
THEOREM SlotsCorrect == Spec => []SlotsMatchConnections
<1>1. ServerInv => SlotsMatchConnections
  <2> SUFFICES ASSUME ServerInv, pc # "down"
               PROVE  SlotsMatchConnections
    BY DEF SlotsMatchConnections
  <2>1. SlotsInv
    BY DEF ServerInv
  <2>2. {client[k] : k \in UsedSlots} = DOMAIN sock
    <3>1. \A fd \in DOMAIN sock : fd >= 0
      BY <2>1, ServerAssumption DEF SlotsInv, listenfd
    <3>2. ASSUME NEW fd \in DOMAIN sock PROVE \E k \in UsedSlots : fd = client[k]
      <4>1. PICK k \in Slots : client[k] = fd
        BY <2>1 DEF SlotsInv
      <4>2. k \in UsedSlots
        BY <4>1, <3>1 DEF UsedSlots
      <4>3. QED
        BY <4>1, <4>2
    <3>3. \A k \in UsedSlots : client[k] \in DOMAIN sock
      BY <2>1 DEF SlotsInv, UsedSlots
    <3>4. QED
      BY <3>2, <3>3
  <2>3. Range(sock) = {c \in Clients : serverEnd[c] = "open"}
    BY <2>1 DEF SlotsInv, Range
  <2>4. QED
    BY <2>1, <2>2, <2>3, SlotIsFree DEF SlotsMatchConnections, SlotsInv, UsedSlots
<1>2. QED
  BY <1>1, ServerInvariance, PTL

----------------------------------------------------------------------------
\* What is under way between a client and the server.

\* A client sends only while at most a full read and a full socket of its lines
\* are under way.  The server adds nothing to what is under way.
UnderWay(c) == Len(toClient[c]) + Len(Echoing(c)) + Len(toServer[c])

FlowAt(c) ==
    /\ Len(toServer[c]) <= UpRoom /\ Len(Echoing(c)) <= MAXLINE
    /\ cpc[c] = "send" => UnderWay(c) <= MAXLINE + UpRoom
    /\ cpc[c] \in {"idle", "loop"} => UnderWay(c) <= MAXLINE + UpRoom + 1

FlowInv == \A c \in Clients : FlowAt(c)

LEMMA Lengths ==
    ASSUME ServerTypes, SocketTypes, NEW c \in Clients
    PROVE  /\ Len(toClient[c]) \in Nat /\ Len(toServer[c]) \in Nat /\ Len(buf) \in Nat
           /\ Echoing(c) \in Seq(LineSet) /\ Len(Echoing(c)) \in 0 .. Len(buf)
           /\ UnderWay(c) \in Nat
<1>1. /\ toClient[c] \in Seq(LineSet) /\ toServer[c] \in Seq(LineSet) /\ buf \in Seq(LineSet)
      /\ << >> \in Seq(LineSet) /\ Len(<< >>) = 0
  BY EmptySeq DEF ServerTypes, SocketTypes
<1>2. Len(toClient[c]) \in Nat /\ Len(toServer[c]) \in Nat /\ Len(buf) \in Nat
  BY <1>1
<1>3. Echoing(c) \in {buf, << >>}
  BY DEF Echoing
<1>4. Len(Echoing(c)) \in Nat /\ Len(Echoing(c)) <= Len(buf) /\ Echoing(c) \in Seq(LineSet)
  <2>1. CASE Echoing(c) = buf
    BY <2>1, <1>1, <1>2
  <2>2. CASE Echoing(c) = << >>
    BY <2>2, <1>1, <1>2
  <2>3. QED
    BY <2>1, <2>2, <1>3
<1>5. UnderWay(c) = Len(toClient[c]) + Len(Echoing(c)) + Len(toServer[c])
  BY DEF UnderWay
<1>6. Len(Echoing(c)) \in 0 .. Len(buf)
  BY <1>2, <1>4
<1>7. \A i, j, n \in Nat : i + j + n \in Nat
  OBVIOUS
<1>8. UnderWay(c) \in Nat
  BY <1>2, <1>4, <1>5, <1>7
<1>9. QED
  BY <1>2, <1>4, <1>6, <1>8

\* Stated of a state, and so of the next one too.
LEMMA LengthsNat ==
    ServerInv => \A c \in Clients : UnderWay(c) \in Nat /\ Len(toServer[c]) \in Nat
  BY Lengths DEF ServerInv, Types

LEMMA LengthsNatNext ==
    (ServerInv => \A c \in Clients : UnderWay(c) \in Nat /\ Len(toServer[c]) \in Nat)'
  BY LengthsNat, PTL

\* What a step of the server may do to a connection.
NoMore(c) ==
    /\ UnderWay(c)' <= UnderWay(c)
    /\ Len(toServer'[c]) <= Len(toServer[c])
    /\ Len(Echoing(c)') <= MAXLINE

\* Steps before and after which the server is not writing.
LEMMA QuietStep ==
    ASSUME ServerTypes, SocketTypes, NEW c \in Clients, Len(Echoing(c)) <= MAXLINE,
           pc # "write", pc' # "write", UNCHANGED <<toServer, toClient, buf>>
    PROVE  NoMore(c)
<1>1. Echoing(c) = << >> /\ Echoing(c)' = << >>
  BY DEF Echoing
<1>2. Len(<< >>) = 0 /\ MAXLINE \in Nat
  BY EmptySeq, SocketsAssumption
<1>3. QED
  BY <1>1, <1>2, Lengths DEF NoMore, UnderWay

\* The server's read only moves lines, and its write takes them out of its buffer.
LEMMA ReadFlow ==
    ASSUME ServerInv, pc = "slots", NEW k \in ReadySlots, Read(k), NEW c \in Clients
    PROVE  NoMore(c)
<1> DEFINE d == sock[client[k]]
           q == toServer[c]
<1>1. /\ buf' = Taken(toServer[d], MAXLINE)
      /\ toServer' = [toServer EXCEPT ![d] = Rest(@, MAXLINE)]
      /\ slot' = k /\ pc' = "write"
      /\ UNCHANGED <<client, sock, toClient>>
  BY DEF Read, slotVars
<1>2. /\ ServerTypes /\ SocketTypes /\ Peer(slot)' = d
      /\ Echoing(c) = << >> /\ Len(<< >>) = 0
  BY <1>1, EmptySeq DEF ServerInv, Types, Echoing, Peer
<1>3. d \in Clients
  <2>1. k \in 0 .. maxi /\ client[k] >= 0
    BY DEF ReadySlots
  <2>2. k \in Slots
    BY <2>1, <1>2, ServerAssumption DEF ServerTypes, Slots
  <2>3. QED
    BY <2>1, <2>2 DEF ServerInv, SlotsInv
<1>4. MAXLINE \in Nat /\ toServer[d] \in Seq(LineSet) /\ q \in Seq(LineSet)
  BY <1>2, <1>3, SocketsAssumption DEF SocketTypes
<1>5. Len(buf') <= MAXLINE
  BY <1>1, <1>4, TakenLengths
<1>6. CASE c = d
  <2>1. Echoing(c)' = buf' /\ toServer'[c] = Rest(q, MAXLINE) /\ buf' = Taken(q, MAXLINE)
    BY <1>1, <1>2, <1>6 DEF Echoing, SocketTypes
  <2>2. /\ Len(Taken(q, MAXLINE)) + Len(Rest(q, MAXLINE)) = Len(q)
        /\ Len(Taken(q, MAXLINE)) \in Nat /\ Len(Rest(q, MAXLINE)) \in Nat
    BY <1>4, TakenLengths
  <2>3. Len(toClient[c]) \in Nat /\ UnderWay(c) = Len(toClient[c]) + Len(q)
    BY <1>2, <1>4, <2>2, Lengths DEF UnderWay
  <2>4. UnderWay(c)' = Len(toClient[c]) + Len(buf') + Len(toServer'[c])
    BY <1>1, <2>1 DEF UnderWay
  <2>5. \A n, i, j \in Nat : n + i + j <= n + (i + j) /\ j <= i + j
    OBVIOUS
  <2>6. UnderWay(c)' <= UnderWay(c) /\ Len(toServer'[c]) <= Len(toServer[c])
    BY <2>1, <2>2, <2>3, <2>4, <2>5
  <2>7. QED
    BY <2>1, <2>6, <1>5 DEF NoMore
<1>7. CASE c # d
  <2>1. Echoing(c)' = << >> /\ toServer'[c] = toServer[c]
    BY <1>1, <1>2, <1>7 DEF Echoing, SocketTypes
  <2>2. QED
    BY <2>1, <1>1, <1>2, <1>4, Lengths DEF NoMore, UnderWay
<1>8. QED
  BY <1>6, <1>7

\* The write returns, whatever became of its last lines.
LEMMA WrittenFlow ==
    ASSUME ServerInv, pc = "write", Written, UNCHANGED toServer, NEW c \in Clients,
           NEW n \in Nat, n <= Len(Echoing(c)), Len(toClient'[c]) = Len(toClient[c]) + n
    PROVE  NoMore(c)
<1>1. Echoing(c)' = << >> /\ Len(<< >>) = 0 /\ MAXLINE \in Nat
  BY EmptySeq, SocketsAssumption DEF Written, Served, Echoing
<1>2. ServerTypes /\ SocketTypes
  BY DEF ServerInv, Types
<1>3. QED
  BY <1>1, <1>2, Lengths DEF NoMore, UnderWay

LEMMA EchoFlow ==
    ASSUME ServerInv, Echo, NEW c \in Clients, Len(Echoing(c)) <= MAXLINE
    PROVE  NoMore(c)
<1> DEFINE d == Peer(slot)
           room == DownRoom - Len(toClient[d])
<1>1. /\ pc = "write" /\ room > 0
      /\ toClient' = [toClient EXCEPT ![d] = @ \o Taken(buf, room)]
      /\ UNCHANGED toServer
  BY DEF Echo
<1>2. /\ ServerTypes /\ SocketTypes /\ d \in Clients
      /\ buf \in Seq(LineSet) /\ toClient[d] \in Seq(LineSet)
  BY <1>1, PeerConnected DEF ServerInv, Types, ServerTypes, SocketTypes
<1>3. room \in Nat /\ Len(buf) \in Nat /\ MAXLINE \in Nat
  BY <1>1, <1>2, SocketsAssumption
<1>4. /\ Taken(buf, room) \in Seq(LineSet) /\ Len(Taken(buf, room)) \in Nat
      /\ Len(Taken(buf, room)) + Len(Rest(buf, room)) = Len(buf)
      /\ Len(Rest(buf, room)) \in Nat /\ Len(Taken(buf, room)) <= Len(buf)
  BY <1>2, <1>3, TakenRest, TakenLengths
<1>5. Len(toClient'[d]) = Len(toClient[d]) + Len(Taken(buf, room))
  BY <1>1, <1>2, <1>4, ConcatProperties DEF SocketTypes
<1>6. c # d => toClient'[c] = toClient[c]
  BY <1>1, <1>2 DEF SocketTypes
<1>7. c = d => Echoing(c) = buf
  BY <1>1 DEF Echoing
<1>8. CASE Written
  <2>1. CASE c = d
    BY <2>1, <1>1, <1>4, <1>5, <1>7, <1>8, WrittenFlow
  <2>2. CASE c # d
    <3>1. Len(toClient'[c]) = Len(toClient[c]) + 0 /\ 0 <= Len(Echoing(c))
      BY <2>2, <1>2, <1>6, Lengths
    <3>2. QED
      BY <3>1, <1>1, <1>8, WrittenFlow
  <2>3. QED
    BY <2>1, <2>2
<1>9. CASE buf' = Rest(buf, room) /\ UNCHANGED <<pc, slotVars, rset, nready, slot>>
  <2>1. Peer(slot)' = d /\ pc' = "write"
    BY <1>1, <1>9 DEF slotVars, Peer
  <2>2. Len(buf') \in Nat /\ Len(buf') <= Len(buf)
    BY <1>3, <1>4, <1>9
  <2>3. CASE c = d
    <3>1. Echoing(c)' = buf'
      BY <2>1, <2>3 DEF Echoing
    <3>2. UnderWay(c)' = Len(toClient'[c]) + Len(buf') + Len(toServer[c])
      BY <1>1, <3>1 DEF UnderWay
    <3>3. /\ UnderWay(c) = Len(toClient[c]) + Len(buf) + Len(toServer[c])
          /\ Len(toClient[c]) \in Nat /\ Len(toServer[c]) \in Nat
      BY <1>2, <1>7, <2>3, Lengths DEF UnderWay
    <3>4. \A n, i, j, m \in Nat : (n + i) + j + m <= n + (i + j) + m
      OBVIOUS
    <3>5. UnderWay(c)' <= UnderWay(c)
      <4> DEFINE n == Len(toClient[c])
                 i == Len(Taken(buf, room))
                 j == Len(Rest(buf, room))
                 m == Len(toServer[c])
      <4>1. UnderWay(c)' = (n + i) + j + m
        BY <2>3, <3>2, <1>5, <1>9
      <4>2. UnderWay(c) = n + (i + j) + m
        BY <3>3, <1>4
      <4>3. n \in Nat /\ i \in Nat /\ j \in Nat /\ m \in Nat
        BY <3>3, <1>4
      <4>4. QED
        BY <4>1, <4>2, <4>3, <3>4
    <3>6. Len(toServer'[c]) <= Len(toServer[c])
      BY <1>1, <3>3
    <3>7. Len(buf') <= MAXLINE
      BY <2>2, <2>3, <1>3, <1>7
    <3>8. QED
      BY <3>1, <3>5, <3>6, <3>7 DEF NoMore
  <2>4. CASE c # d
    <3>1. Echoing(c)' = << >> /\ Echoing(c) = << >>
      BY <2>1, <2>4 DEF Echoing
    <3>2. QED
      BY <3>1, <2>4, <1>1, <1>2, <1>3, <1>6, Lengths DEF NoMore, UnderWay
  <2>5. QED
    BY <2>3, <2>4
<1>10. QED
  BY <1>8, <1>9 DEF Echo

LEMMA ServerFlow ==
    ASSUME ServerInv, ServerStep, NEW c \in Clients, Len(Echoing(c)) <= MAXLINE
    PROVE  NoMore(c)
<1>1. ServerTypes /\ SocketTypes
  BY DEF ServerInv, Types
<1>2. CASE Select
  BY <1>1, <1>2, QuietStep DEF Select, sockVars
<1>3. CASE Accept
  BY <1>1, <1>3, QuietStep DEF Accept, Served
<1>4. CASE Die
  <2>1. /\ toServer'[c] = << >> /\ Echoing(c)' = << >> /\ toClient' = toClient
        /\ Len(<< >>) = 0 /\ MAXLINE \in Nat
    BY <1>4, EmptySeq, SocketsAssumption DEF Die, CloseAll, Echoing
  <2>2. UnderWay(c)' = Len(toClient[c]) + 0 + 0
    BY <2>1 DEF UnderWay
  <2>3. /\ UnderWay(c) = Len(toClient[c]) + Len(Echoing(c)) + Len(toServer[c])
        /\ Len(toClient[c]) \in Nat /\ Len(Echoing(c)) \in Nat /\ Len(toServer[c]) \in Nat
    BY <1>1, Lengths DEF UnderWay
  <2>4. \A n, i, j \in Nat : n + 0 + 0 <= n + i + j
    OBVIOUS
  <2>5. UnderWay(c)' <= UnderWay(c)
    BY <2>2, <2>3, <2>4
  <2>6. Len(toServer'[c]) = 0 /\ Len(Echoing(c)') = 0
    BY <2>1
  <2>7. Len(toServer'[c]) <= Len(toServer[c]) /\ Len(Echoing(c)') <= MAXLINE
    BY <2>1, <2>3, <2>6
  <2>8. QED
    BY <2>5, <2>7 DEF NoMore
<1>5. CASE AcceptFails
  BY <1>1, <1>4, <1>5, QuietStep DEF AcceptFails, Served, sockVars
<1>6. CASE ServeSlot
  <2>1. PICK k \in ReadySlots : CloseSlot(k) \/ ReadFails(k) \/ Read(k)
    BY <1>6 DEF ServeSlot
  <2>2. pc = "slots"
    BY <1>6 DEF ServeSlot
  <2>3. CASE CloseSlot(k)
    BY <2>2, <2>3, <1>1, QuietStep DEF CloseSlot, Served
  <2>4. CASE ReadFails(k)
    BY <2>2, <2>4, <1>1, QuietStep DEF ReadFails, Served
  <2>5. CASE Read(k)
    BY <2>2, <2>5, ReadFlow
  <2>6. QED
    BY <2>1, <2>3, <2>4, <2>5
<1>7. CASE Echo
  BY <1>7, EchoFlow
<1>8. Len(toClient[c]) = Len(toClient[c]) + 0 /\ 0 <= Len(Echoing(c))
  BY <1>1, Lengths
<1>9. CASE EchoLost
  BY <1>8, <1>9, WrittenFlow DEF EchoLost
<1>10. CASE EchoFails
  BY <1>4, <1>8, <1>10, WrittenFlow DEF EchoFails
<1>11. QED
  BY <1>2, <1>3, <1>5, <1>6, <1>7, <1>9, <1>10 DEF ServerStep

LEMMA ServerStepFlow ==
    ASSUME ServerInv, FlowInv, ServerStep, UNCHANGED clientVars, ServerInv'
    PROVE  FlowInv'
<1>1. ASSUME NEW c \in Clients PROVE FlowAt(c)'
  <2>1. cpc'[c] = cpc[c] /\ FlowAt(c)
    BY DEF FlowInv, clientVars
  <2>2. NoMore(c)
    BY <2>1, ServerFlow DEF FlowAt
  <2>3. /\ UnderWay(c) \in Nat /\ Len(toServer[c]) \in Nat
        /\ UnderWay(c)' \in Nat /\ Len(toServer'[c]) \in Nat
    BY LengthsNat, LengthsNatNext
  <2>4. MAXLINE + UpRoom \in Nat /\ UpRoom \in Nat
    BY SocketsAssumption
  <2>5. QED
    BY <2>1, <2>2, <2>3, <2>4 DEF NoMore, FlowAt
<1>2. QED
  BY <1>1 DEF FlowInv

\* A step of client d or its connection leaves those of the others alone.
OthersKept(d) ==
    /\ UNCHANGED serverVars
    /\ \A c \in Clients \ {d} :
          toClient'[c] = toClient[c] /\ toServer'[c] = toServer[c] /\ cpc'[c] = cpc[c]

LEMMA EchoingKept == UNCHANGED serverVars => \A c \in Clients : Echoing(c)' = Echoing(c)
  BY DEF serverVars, Echoing, Peer

LEMMA FlowFrom ==
    ASSUME FlowInv, NEW d \in Clients, OthersKept(d), FlowAt(d)'
    PROVE  FlowInv'
<1>1. ASSUME NEW c \in Clients \ {d} PROVE FlowAt(c)'
  <2>1. /\ toClient'[c] = toClient[c] /\ toServer'[c] = toServer[c] /\ cpc'[c] = cpc[c]
        /\ Echoing(c)' = Echoing(c) /\ FlowAt(c)
    BY EchoingKept DEF OthersKept, FlowInv
  <2>2. QED
    BY <2>1 DEF FlowAt, UnderWay
<1>2. QED
  BY <1>1 DEF FlowInv

\* What is under way is the same, or the client has ended.
LEMMA SameFlow ==
    ASSUME FlowInv, NEW d \in Clients, UNCHANGED serverVars, toServer'[d] = toServer[d],
           \/ cpc'[d] \in {"returned", "terminated", "killed"}
           \/ toClient'[d] = toClient[d] /\ cpc'[d] = cpc[d]
           \/ toClient'[d] = toClient[d] /\ cpc[d] = "idle" /\ cpc'[d] = "loop"
    PROVE  FlowAt(d)'
<1>1. Echoing(d)' = Echoing(d) /\ FlowAt(d)
  BY EchoingKept DEF FlowInv
<1>2. QED
  BY <1>1 DEF FlowAt, UnderWay

LEMMA SendFlow ==
    ASSUME ServerInv, FlowInv, NEW d \in Clients, Send(d), UNCHANGED serverVars
    PROVE  FlowAt(d)'
<1>1. /\ cpc[d] = "send" /\ cpc'[d] = "loop" /\ Len(toServer[d]) < UpRoom
      /\ toServer'[d] = Append(toServer[d], Line(d, sent[d] + 1))
      /\ toClient' = toClient
  BY DEF Send, ServerInv, Types, SocketTypes, ClientTypes
<1>2. /\ Echoing(d)' = Echoing(d) /\ FlowAt(d)
      /\ Len(toClient[d]) \in Nat /\ Len(toServer[d]) \in Nat /\ Len(Echoing(d)) \in Nat
  BY EchoingKept, Lengths DEF FlowInv, ServerInv, Types
<1>3. Len(toServer'[d]) = Len(toServer[d]) + 1
  <2>1. toServer[d] \in Seq(LineSet) /\ Line(d, sent[d] + 1) \in LineSet
    BY DEF ServerInv, Types, SocketTypes, ClientTypes, Line, LineSet
  <2>2. QED
    BY <1>1, <2>1, AppendProperties
<1>4. MAXLINE \in Nat /\ UpRoom \in Nat
  BY SocketsAssumption
<1>5. UnderWay(d)' = UnderWay(d) + 1 /\ UnderWay(d) \in Nat
  <2> DEFINE n == Len(toClient[d])
             i == Len(Echoing(d))
             j == Len(toServer[d])
  <2>1. UnderWay(d) = n + i + j /\ UnderWay(d)' = n + i + (j + 1)
    BY <1>1, <1>2, <1>3 DEF UnderWay
  <2>2. n \in Nat /\ i \in Nat /\ j \in Nat
    BY <1>2
  <2>3. \A x, y, z \in Nat : x + y + (z + 1) = x + y + z + 1 /\ x + y + z \in Nat
    OBVIOUS
  <2>4. n + i + (j + 1) = n + i + j + 1 /\ n + i + j \in Nat
    BY <2>2, <2>3
  <2>5. QED
    BY <2>1, <2>4
<1>6. UnderWay(d) <= MAXLINE + UpRoom /\ Len(Echoing(d)) <= MAXLINE
  BY <1>1, <1>2 DEF FlowAt
<1>7. UnderWay(d)' <= MAXLINE + UpRoom + 1 /\ Len(toServer'[d]) <= UpRoom
  BY <1>1, <1>2, <1>3, <1>4, <1>5, <1>6
<1>8. QED
  BY <1>1, <1>2, <1>6, <1>7 DEF FlowAt

\* A round of a client's loop reads, unless there is nothing to read.
LEMMA LoopFlow ==
    ASSUME ServerInv, FlowInv, NEW d \in Clients, UNCHANGED serverVars, cpc[d] = "loop",
           NEW n \in Nat \ {0}, Receive(d, n) \/ (NoReceive /\ toClient[d] = << >>),
           toServer' = toServer
    PROVE  FlowAt(d)'
<1>1. toClient[d] \in Seq(LineSet) /\ toClient \in [Clients -> Seq(LineSet)]
  BY DEF ServerInv, Types, SocketTypes
<1>2. /\ Echoing(d)' = Echoing(d) /\ FlowAt(d)
      /\ Len(toClient[d]) \in Nat /\ Len(toServer[d]) \in Nat /\ Len(Echoing(d)) \in Nat
  BY EchoingKept, Lengths DEF FlowInv, ServerInv, Types
<1>3. /\ Len(toClient'[d]) \in Nat
      /\ Len(toClient'[d]) = 0 \/ Len(toClient'[d]) + 1 <= Len(toClient[d])
  <2>1. CASE Receive(d, n)
    <3>1. toClient'[d] = Rest(toClient[d], n)
      BY <2>1, <1>1 DEF Receive
    <3>2. /\ Len(Taken(toClient[d], n)) = IF Len(toClient[d]) < n THEN Len(toClient[d]) ELSE n
          /\ Len(Rest(toClient[d], n)) = Len(toClient[d]) - Len(Taken(toClient[d], n))
      BY <1>1, TakenRest
    <3>3. QED
      BY <3>1, <3>2, <1>2
  <2>2. CASE NoReceive /\ toClient[d] = << >>
    BY <2>2, EmptySeq DEF NoReceive
  <2>3. QED
    BY <2>1, <2>2
<1>4. MAXLINE \in Nat /\ UpRoom \in Nat
  BY SocketsAssumption
<1>5. UnderWay(d)' <= MAXLINE + UpRoom /\ UnderWay(d)' \in Nat
  <2> DEFINE m == Len(toClient[d])
             p == Len(toClient'[d])
             i == Len(Echoing(d))
             j == Len(toServer[d])
  <2>1. UnderWay(d) = m + i + j /\ UnderWay(d)' = p + i + j
    BY <1>2 DEF UnderWay
  <2>2. /\ m \in Nat /\ p \in Nat /\ i \in Nat /\ j \in Nat
        /\ p = 0 \/ p + 1 <= m
    BY <1>2, <1>3
  <2>3. i <= MAXLINE /\ j <= UpRoom /\ m + i + j <= MAXLINE + UpRoom + 1
    BY <1>2, <2>1 DEF FlowAt
  <2>4. \A x, y, v, w \in Nat :
           /\ y + v + w \in Nat
           /\ y = 0 /\ v <= MAXLINE /\ w <= UpRoom => y + v + w <= MAXLINE + UpRoom
           /\ y + 1 <= x /\ x + v + w <= MAXLINE + UpRoom + 1 => y + v + w <= MAXLINE + UpRoom
    BY <1>4
  <2>5. p + i + j \in Nat /\ p + i + j <= MAXLINE + UpRoom
    BY <2>2, <2>3, <2>4
  <2>6. QED
    BY <2>1, <2>5
<1>6. UnderWay(d)' <= MAXLINE + UpRoom + 1
  BY <1>4, <1>5
<1>7. QED
  BY <1>2, <1>5, <1>6 DEF FlowAt

LEMMA ClientFlow ==
    ASSUME ServerInv, FlowInv, NEW d \in Clients, UNCHANGED serverVars, ClientStep(d)
    PROVE  FlowInv'
<1>1. ClientTypes /\ SocketTypes
  BY DEF ServerInv, Types
<1>2. CASE Send(d)
  <2>1. OthersKept(d)
    BY <1>1, <1>2 DEF Send, OthersKept, SocketTypes, ClientTypes
  <2>2. QED
    BY <2>1, <1>2, SendFlow, FlowFrom
<1>3. ASSUME NEW how \in {"returned", "terminated", "killed"}, End(d, how)
      PROVE  FlowInv'
  <2>1. OthersKept(d) /\ cpc'[d] = how /\ toServer' = toServer
    BY <1>1, <1>3 DEF End, Leave, CloseClient, OthersKept, SocketTypes, ClientTypes
  <2>2. QED
    BY <2>1, SameFlow, FlowFrom
<1>4. CASE SendFails(d)
  <2>1. CASE End(d, "killed")
    BY <2>1, <1>3
  <2>2. CASE cpc' = [cpc EXCEPT ![d] = "loop"] /\ UNCHANGED <<inputVars, sockVars>>
    <3>1. /\ OthersKept(d) /\ cpc[d] = "send" /\ cpc'[d] = "loop"
          /\ toServer' = toServer /\ toClient' = toClient
      BY <1>1, <1>4, <2>2 DEF SendFails, OthersKept, sockVars, ClientTypes
    <3>2. FlowAt(d) /\ Echoing(d)' = Echoing(d) /\ UnderWay(d) \in Nat
      BY EchoingKept, LengthsNat DEF FlowInv
    <3>3. UnderWay(d)' = UnderWay(d) /\ MAXLINE \in Nat /\ UpRoom \in Nat
      BY <3>1, <3>2, SocketsAssumption DEF UnderWay
    <3>4. UnderWay(d)' <= MAXLINE + UpRoom + 1
      BY <3>1, <3>2, <3>3 DEF FlowAt
    <3>5. FlowAt(d)'
      BY <3>1, <3>2, <3>4 DEF FlowAt
    <3>6. QED
      BY <3>1, <3>5, FlowFrom
  <2>3. QED
    BY <1>4, <2>1, <2>2 DEF SendFails
<1>5. CASE ShutEnd(d) \/ WriteEnd(d)
  BY <1>3, <1>5 DEF ShutEnd, WriteEnd
<1>6. CASE ShutLoop(d)
  <2>1. OthersKept(d) /\ cpc[d] = "loop" /\ toServer' = toServer
    BY <1>1, <1>6 DEF ShutLoop, Receive, NoReceive, OthersKept, SocketTypes, ClientTypes
  <2>2. Receive(d, MAXLINE) \/ (NoReceive /\ toClient[d] = << >>)
    BY <1>6 DEF ShutLoop, SocketReady, ClientReadable
  <2>3. QED
    BY <2>1, <2>2, LoopFlow, FlowFrom, SocketsAssumption
<1>7. CASE WriteLoop(d)
  <2>1. OthersKept(d) /\ cpc[d] = "loop" /\ toServer' = toServer
    BY <1>1, <1>7 DEF WriteLoop, Receive, NoReceive, OthersKept, SocketTypes, ClientTypes
  <2>2. Receive(d, 1) \/ (NoReceive /\ toClient[d] = << >>)
    BY <1>7 DEF WriteLoop
  <2>3. QED
    BY <2>1, <2>2, LoopFlow, FlowFrom
<1>8. CASE WriteReturn(d)
  <2>1. OthersKept(d) /\ cpc'[d] = "returned" /\ toServer' = toServer
    BY <1>1, <1>8 DEF WriteReturn, Leave, OthersKept, SocketTypes, ClientTypes
  <2>2. QED
    BY <2>1, SameFlow, FlowFrom
<1>9. QED
  BY <1>2, <1>4, <1>5, <1>6, <1>7, <1>8 DEF ClientStep

LEMMA NextFlow == ServerInv /\ FlowInv /\ [Next]_vars => FlowInv'
<1> SUFFICES ASSUME ServerInv, FlowInv, [Next]_vars
             PROVE  FlowInv'
  OBVIOUS
<1>1. ServerInv' /\ ClientTypes /\ SocketTypes
  BY NextServerInv DEF ServerInv, Types
<1>2. CASE ServerStep /\ UNCHANGED clientVars
  BY <1>1, <1>2, ServerStepFlow
<1>3. ASSUME NEW d \in Clients, Connect(d), UNCHANGED serverVars
      PROVE  FlowInv'
  <2>1. /\ OthersKept(d) /\ toServer' = toServer /\ toClient' = toClient
        /\ cpc[d] = "idle" /\ cpc'[d] = "loop"
    BY <1>1, <1>3 DEF Connect, Establish, OthersKept, ClientTypes
  <2>2. QED
    BY <1>3, <2>1, SameFlow, FlowFrom
<1>4. ASSUME NEW d \in Clients, ClientStep(d), UNCHANGED serverVars
      PROVE  FlowInv'
  BY <1>4, ClientFlow
<1>5. ASSUME UNCHANGED serverVars, UNCHANGED <<toServer, toClient, cpc>>
      PROVE  FlowInv'
  <2>1. ASSUME NEW c \in Clients PROVE FlowAt(c)'
    <3>1. Echoing(c)' = Echoing(c) /\ FlowAt(c)
      BY <1>5, EchoingKept DEF FlowInv
    <3>2. QED
      BY <3>1, <1>5 DEF FlowAt, UnderWay
  <2>2. QED
    BY <2>1 DEF FlowInv
<1>6. ASSUME NEW d \in Clients, UNCHANGED serverVars,
             User(d) \/ (ResetArrives(d) /\ UNCHANGED clientVars)
      PROVE  FlowInv'
  BY <1>5, <1>6 DEF User, Type, CloseInput, ResetArrives, sockVars, clientVars
<1>7. CASE UNCHANGED vars
  BY <1>5, <1>7 DEF vars, sockVars, clientVars
<1>8. CASE Stop
  BY <1>7, <1>8 DEF Stop
<1>9. QED
  BY <1>2, <1>3, <1>4, <1>6, <1>7, <1>8 DEF Next

LEMMA InitFlow == Init => FlowInv
<1> SUFFICES ASSUME Init
             PROVE  FlowInv
  OBVIOUS
<1>1. ASSUME NEW c \in Clients PROVE FlowAt(c)
  <2>1. toClient[c] = << >> /\ toServer[c] = << >> /\ Echoing(c) = << >> /\ cpc[c] = "idle"
    BY DEF Init, SockInit, ServerInit, ClientsInit, Echoing
  <2>2. Len(<< >>) = 0 /\ MAXLINE \in Nat /\ UpRoom \in Nat
    BY EmptySeq, SocketsAssumption
  <2>3. UnderWay(c) = 0 + 0 + 0
    BY <2>1, <2>2 DEF UnderWay
  <2>4. QED
    BY <2>1, <2>2, <2>3 DEF FlowAt
<1>2. QED
  BY <1>1 DEF FlowInv

\* The server in its write and a client in its Writen never wait for each other,
\* as long as the way back holds what the server reads at once.
THEOREM NeverAStandoff == Spec => []NoStandoff
<1>1. ServerInv /\ FlowInv => NoStandoff
  <2> SUFFICES ASSUME ServerInv, FlowInv, pc = "write", ~Gone(Peer(slot)),
                      Len(toClient[Peer(slot)]) = DownRoom, cpc[Peer(slot)] = "send",
                      Len(toServer[Peer(slot)]) = UpRoom
               PROVE  FALSE
    BY DEF NoStandoff
  <2> DEFINE c == Peer(slot)
  <2>1. c \in Clients /\ buf # << >> /\ buf \in Seq(LineSet)
    BY PeerConnected DEF ServerInv, WriteInv, Types, ServerTypes
  <2>2. Echoing(c) = buf /\ Len(buf) \in Nat \ {0}
    BY <2>1, EmptySeq DEF Echoing
  <2>3. UnderWay(c) = DownRoom + Len(buf) + UpRoom
    BY <2>2 DEF UnderWay
  <2>4. UnderWay(c) <= MAXLINE + UpRoom
    BY <2>1 DEF FlowInv, FlowAt
  <2>5. QED
    BY <2>2, <2>3, <2>4, SocketsAssumption
<1>2. Spec => []FlowInv
  <2>1. Init => ServerInv /\ FlowInv
    BY InitServerInv, InitFlow
  <2>2. (ServerInv /\ FlowInv) /\ [Next]_vars => (ServerInv /\ FlowInv)'
    BY NextServerInv, NextFlow
  <2>3. QED
    BY <2>1, <2>2, PTL DEF Spec
<1>3. QED
  BY <1>1, <1>2, ServerInvariance, PTL

----------------------------------------------------------------------------
(***************************************************************************)
(* That the server loses, doubles, reorders and misdirects no line, that   *)
(* its count of reported descriptors is right in every round, and what can *)
(* end its process.                                                        *)
(***************************************************************************)

\* The two ends of a connection.

ConnAt(c) ==
    /\ cpc[c] = "idle" => /\ clientEnd[c] = "none" /\ sent[c] = 0 /\ got[c] = << >>
                          /\ toClient[c] = << >> /\ toServer[c] = << >>
    /\ clientEnd[c] = "none" => cpc[c] = "idle"
    /\ cpc[c] = "loop" => clientEnd[c] \in {"open", "half"}
    /\ cpc[c] = "loop" /\ ~stdineof[c] => clientEnd[c] = "open"
    /\ cpc[c] = "send" => clientEnd[c] = "open" /\ ~stdineof[c]
    /\ c \in WriteClients => ~stdineof[c]
    /\ reset[c] # "none" => Gone(c)
    /\ serverEnd[c] = "closed" /\ pc # "down" => clientEnd[c] # "open"

ConnInv ==
    /\ stdineof \in [Clients -> BOOLEAN]
    /\ reset \in [Clients -> {"none", "due", "raised", "reported"}]
    /\ \A c \in Clients : ConnAt(c)

\* What select reported stays so until the loop comes to it: there is a line to
\* read, or the client sends no more.
Waiting(fd) == toServer[sock[fd]] # << >> \/ clientEnd[sock[fd]] # "open"

ReadyInv ==
    pc \in {"accept", "slots", "write"} =>
        /\ rset \subseteq allset
        /\ \A fd \in rset \ {listenfd} : Waiting(fd) \/ (pc = "write" /\ fd = client[slot])

LEMMA InitConn == Init => ConnInv /\ ReadyInv
  BY SocketsAssumption
  DEF Init, SockInit, ServerInit, ClientsInit, ConnInv, ConnAt, ReadyInv, Gone

LEMMA NotIdle ==
    ASSUME ServerInv, pc # "down"
    PROVE  \A fd \in DOMAIN sock : sock[fd] \in Clients /\ cpc[sock[fd]] # "idle"
                                   /\ serverEnd[sock[fd]] = "open"
  BY DEF ServerInv, SlotsInv, QueueInv

\* What a step of the server may change for a client.
ServerChange(c) ==
    /\ cpc[c] = "idle" => toClient'[c] = << >> /\ toServer'[c] = << >>
    /\ reset'[c] # "none" => Gone(c)
    /\ serverEnd'[c] = "closed" /\ pc' # "down" => clientEnd[c] # "open"

LEMMA ConnFromServer ==
    ASSUME ConnInv, UNCHANGED <<clientVars, clientEnd>>,
           reset' \in [Clients -> {"none", "due", "raised", "reported"}],
           \A c \in Clients : ServerChange(c)
    PROVE  ConnInv'
<1>1. stdineof' = stdineof /\ cpc' = cpc /\ sent' = sent /\ got' = got /\ clientEnd' = clientEnd
  BY DEF clientVars
<1>2. ASSUME NEW c \in Clients PROVE ConnAt(c)'
  <2>1. ConnAt(c) /\ ServerChange(c)
    BY DEF ConnInv
  <2>2. QED
    BY <1>1, <2>1 DEF ConnAt, ServerChange, Gone
<1>3. QED
  BY <1>1, <1>2 DEF ConnInv

\* Steps that close nothing and leave the streams of all but one connection alone.
LEMMA ConnKept ==
    ASSUME ServerInv, ConnInv, pc # "down", UNCHANGED <<clientVars, clientEnd>>,
           NEW fd \in DOMAIN sock,
           \A c \in Clients \ {sock[fd]} : toClient'[c] = toClient[c] /\ toServer'[c] = toServer[c],
           \A c \in Clients : serverEnd'[c] = "closed" => serverEnd[c] = "closed",
           reset' \in [Clients -> {"none", "due", "raised", "reported"}],
           \A c \in Clients : reset'[c] # "none" => reset[c] # "none" \/ Gone(c)
    PROVE  ConnInv'
<1>1. ASSUME NEW c \in Clients PROVE ServerChange(c)
  <2>1. ConnAt(c) /\ (cpc[c] = "idle" => c # sock[fd])
    BY NotIdle DEF ConnInv
  <2>2. QED
    BY <2>1 DEF ConnAt, ServerChange
<1>2. QED
  BY <1>1, ConnFromServer

\* Served takes a descriptor out, and leaves the rest as select reported them.
LEMMA ReadyServed ==
    ASSUME ReadyInv, pc \in {"accept", "slots", "write"}, NEW fd, Served(fd),
           pc = "write" => fd = client[slot],
           allset \ {fd} \subseteq allset',
           \A gd \in rset \ {fd, listenfd} : Waiting(gd) => Waiting(gd)'
    PROVE  ReadyInv'
<1>1. rset' = rset \ {fd} /\ pc' \in {"select", "slots"}
  BY DEF Served
<1>2. QED
  BY <1>1 DEF ReadyInv

OrderBase == ServerInv /\ ConnInv /\ ReadyInv

\* Steps of the server that leave the connections alone.
LEMMA ConnUntouched ==
    ASSUME ConnInv, pc # "down", UNCHANGED <<clientVars, sockVars>>
    PROVE  ConnInv'
<1>1. ASSUME NEW c \in Clients PROVE ServerChange(c)
  BY DEF ConnInv, ConnAt, ServerChange, sockVars
<1>2. QED
  BY <1>1, ConnFromServer DEF ConnInv, sockVars

LEMMA SelectOrder ==
    ASSUME OrderBase, Select, UNCHANGED clientVars
    PROVE  ConnInv' /\ ReadyInv'
<1>1. /\ rset' = ReadyNow /\ pc = "select" /\ pc' \in {"accept", "slots"}
      /\ UNCHANGED <<allset, sock, sockVars>>
  BY DEF Select, slotVars
<1>2. ConnInv'
  BY <1>1, ConnUntouched DEF OrderBase
<1>3. ASSUME NEW fd \in ReadyNow \ {listenfd} PROVE Waiting(fd)'
  <2>1. fd \in DOMAIN sock /\ ServerReadable(sock[fd])
    BY <1>1, <1>3 DEF ReadyNow, Ready, OrderBase, ServerInv, SlotsInv
  <2>2. sock[fd] \in Clients
    BY <2>1, <1>1, NotIdle DEF OrderBase
  <2>3. ConnAt(sock[fd])
    BY <2>2 DEF OrderBase, ConnInv
  <2>4. Waiting(fd)
    BY <2>1, <2>3 DEF ServerReadable, Waiting, ConnAt, Gone
  <2>5. QED
    BY <2>4, <1>1 DEF Waiting, sockVars
<1>4. ReadyInv'
  BY <1>1, <1>3 DEF ReadyInv, ReadyNow
<1>5. QED
  BY <1>2, <1>4

LEMMA AcceptOrder ==
    ASSUME OrderBase, Accept, UNCHANGED clientVars
    PROVE  ConnInv' /\ ReadyInv'
<1>1. PICK connfd \in FreeDescriptors :
          /\ sock' = [fd \in DOMAIN sock \cup {connfd} |->
                         IF fd = connfd THEN Head(backlog) ELSE sock[fd]]
          /\ allset' = allset \cup {connfd}
  BY DEF Accept
<1>2. /\ pc = "accept" /\ Served(listenfd)
      /\ serverEnd' = [serverEnd EXCEPT ![Head(backlog)] = "open"]
      /\ UNCHANGED <<clientEnd, toServer, toClient, reset>>
  BY DEF Accept
<1>3. ASSUME NEW c \in Clients PROVE ServerChange(c)
  <2>1. ConnAt(c) /\ (serverEnd'[c] = "closed" => serverEnd[c] = "closed")
    BY <1>2 DEF OrderBase, ConnInv, ServerInv, Types, SocketTypes
  <2>2. QED
    BY <2>1, <1>2 DEF ConnAt, ServerChange
<1>4. ConnInv'
  BY <1>2, <1>3, ConnFromServer DEF OrderBase, ConnInv
<1>5. ASSUME NEW gd \in rset \ {listenfd}, Waiting(gd) PROVE Waiting(gd)'
  <2>1. gd \in DOMAIN sock /\ gd # connfd
    BY <1>2, <1>5, <1>1 DEF OrderBase, ReadyInv, ServerInv, SlotsInv, FreeDescriptors
  <2>2. sock'[gd] = sock[gd]
    BY <2>1, <1>1
  <2>3. QED
    BY <2>2, <1>2, <1>5 DEF Waiting
<1>6. ReadyInv'
  BY <1>1, <1>2, <1>5, ReadyServed DEF OrderBase
<1>7. QED
  BY <1>4, <1>6

LEMMA DieOrder ==
    ASSUME OrderBase, Die, UNCHANGED clientVars
    PROVE  ConnInv' /\ ReadyInv'
<1>1. /\ pc' = "down" /\ reset' = [c \in Clients |-> "none"]
      /\ toServer' = [c \in Clients |-> << >>] /\ UNCHANGED <<clientEnd, toClient>>
  BY DEF Die, CloseAll
<1>2. ASSUME NEW c \in Clients PROVE ServerChange(c)
  BY <1>1 DEF OrderBase, ConnInv, ConnAt, ServerChange
<1>3. ConnInv'
  BY <1>1, <1>2, ConnFromServer DEF OrderBase
<1>4. QED
  BY <1>1, <1>3 DEF ReadyInv

LEMMA AcceptFailsOrder ==
    ASSUME OrderBase, AcceptFails, UNCHANGED clientVars
    PROVE  ConnInv' /\ ReadyInv'
<1>1. CASE Die
  BY <1>1, DieOrder
<1>2. CASE Served(listenfd) /\ UNCHANGED <<client, maxfd, allset, sock, slot, buf, sockVars>>
  <2>1. pc = "accept"
    BY DEF AcceptFails
  <2>2. ConnInv'
    BY <2>1, <1>2, ConnUntouched DEF OrderBase
  <2>3. \A gd \in rset : Waiting(gd) => Waiting(gd)'
    BY <1>2 DEF Waiting, sockVars
  <2>4. ReadyInv'
    BY <2>1, <2>3, <1>2, ReadyServed DEF OrderBase
  <2>5. QED
    BY <2>2, <2>4
<1>3. QED
  BY <1>1, <1>2 DEF AcceptFails

\* The reported slot that is served is that of a connection.
LEMMA SlotConnected ==
    ASSUME ServerInv, pc = "slots", NEW k \in ReadySlots
    PROVE  /\ k \in Slots /\ client[k] \in DOMAIN sock /\ client[k] \in rset
           /\ client[k] # listenfd /\ sock[client[k]] \in Clients
<1>1. k \in 0 .. maxi /\ client[k] >= 0 /\ client[k] \in rset
  BY DEF ReadySlots
<1>2. k \in Slots
  BY <1>1, ServerAssumption DEF ServerInv, Types, ServerTypes, Slots
<1>3. client[k] \in DOMAIN sock /\ client[k] \in listenfd + 1 .. OPEN_MAX - 1
  BY <1>1, <1>2 DEF ServerInv, SlotsInv
<1>4. client[k] # listenfd
  BY <1>3 DEF listenfd
<1>5. QED
  BY <1>1, <1>2, <1>3, <1>4 DEF ServerInv, SlotsInv

LEMMA CloseSlotOrder ==
    ASSUME OrderBase, pc = "slots", NEW k \in ReadySlots, CloseSlot(k), UNCHANGED clientVars
    PROVE  ConnInv' /\ ReadyInv'
<1> DEFINE fd == client[k]
           d == sock[fd]
<1>1. /\ toServer[d] = << >> /\ Served(fd)
      /\ serverEnd' = [serverEnd EXCEPT ![d] = "closed"]
      /\ sock' = Restrict(sock, DOMAIN sock \ {fd})
      /\ allset' = allset \ {fd}
      /\ reset' = [reset EXCEPT ![d] = "none"]
      /\ UNCHANGED <<clientEnd, toServer, toClient>>
  BY DEF CloseSlot, Cleared
<1>2. fd \in DOMAIN sock /\ fd \in rset /\ fd # listenfd /\ d \in Clients
  BY SlotConnected DEF OrderBase
<1>3. clientEnd[d] # "open"
  <2>1. Waiting(fd)
    BY <1>2 DEF OrderBase, ReadyInv
  <2>2. QED
    BY <2>1, <1>1 DEF Waiting
<1>4. ASSUME NEW c \in Clients PROVE ServerChange(c)
  <2>1. /\ ConnAt(c) /\ (serverEnd'[c] = "closed" => c = d \/ serverEnd[c] = "closed")
        /\ reset'[c] # "none" => reset[c] # "none"
    BY <1>1, <1>2 DEF OrderBase, ConnInv, ServerInv, Types, SocketTypes
  <2>2. QED
    BY <2>1, <1>1, <1>3 DEF ConnAt, ServerChange
<1>5. ConnInv'
  BY <1>1, <1>4, ConnFromServer DEF OrderBase, ConnInv
<1>6. ASSUME NEW gd \in rset \ {fd, listenfd}, Waiting(gd) PROVE Waiting(gd)'
  <2>1. gd \in DOMAIN sock \ {fd}
    BY <1>6 DEF OrderBase, ReadyInv, ServerInv, SlotsInv
  <2>2. sock'[gd] = sock[gd]
    BY <2>1, <1>1 DEF Restrict
  <2>3. QED
    BY <2>2, <1>1, <1>6 DEF Waiting
<1>7. ReadyInv'
  BY <1>1, <1>6, ReadyServed DEF OrderBase
<1>8. QED
  BY <1>5, <1>7

LEMMA ReadFailsOrder ==
    ASSUME OrderBase, pc = "slots", NEW k \in ReadySlots, ReadFails(k), UNCHANGED clientVars
    PROVE  ConnInv' /\ ReadyInv'
<1> DEFINE fd == client[k]
           d == sock[fd]
<1>1. /\ Served(fd) /\ reset[d] = "raised" /\ reset' = [reset EXCEPT ![d] = "reported"]
      /\ UNCHANGED <<slotVars, clientEnd, serverEnd, toServer, toClient>>
  BY DEF ReadFails
<1>2. fd \in DOMAIN sock /\ d \in Clients
  BY SlotConnected DEF OrderBase
<1>3. \A c \in Clients : reset'[c] # "none" => reset[c] # "none"
  BY <1>1, <1>2 DEF OrderBase, ConnInv
<1>4. ConnInv'
  BY <1>1, <1>2, <1>3, ConnKept DEF OrderBase, ConnInv
<1>5. \A gd \in rset : Waiting(gd) => Waiting(gd)'
  BY <1>1 DEF Waiting, slotVars
<1>6. ReadyInv'
  BY <1>1, <1>5, ReadyServed DEF OrderBase, slotVars
<1>7. QED
  BY <1>4, <1>6

LEMMA ReadOrder ==
    ASSUME OrderBase, pc = "slots", NEW k \in ReadySlots, Read(k), UNCHANGED clientVars
    PROVE  ConnInv' /\ ReadyInv'
<1> DEFINE fd == client[k]
           d == sock[fd]
<1>1. /\ toServer' = [toServer EXCEPT ![d] = Rest(@, MAXLINE)]
      /\ slot' = k /\ pc' = "write"
      /\ UNCHANGED <<slotVars, rset, clientEnd, serverEnd, toClient, reset>>
  BY DEF Read
<1>2. fd \in DOMAIN sock /\ d \in Clients
  BY SlotConnected DEF OrderBase
<1>3. \A c \in Clients \ {d} : toServer'[c] = toServer[c]
  BY <1>1 DEF OrderBase, ServerInv, Types, SocketTypes
<1>4. ConnInv'
  BY <1>1, <1>2, <1>3, ConnKept DEF OrderBase, ConnInv
<1>5. ASSUME NEW gd \in rset \ {listenfd}, gd # fd PROVE Waiting(gd)'
  <2>1. gd \in DOMAIN sock /\ Waiting(gd)
    BY <1>5 DEF OrderBase, ReadyInv, ServerInv, SlotsInv
  <2>2. sock[gd] \in Clients /\ sock[gd] # d
    BY <2>1, <1>2, <1>5 DEF OrderBase, ServerInv, SlotsInv
  <2>3. QED
    BY <2>1, <2>2, <1>1, <1>3 DEF Waiting, slotVars
<1>6. ReadyInv'
  BY <1>1, <1>5 DEF OrderBase, ReadyInv, slotVars
<1>7. QED
  BY <1>4, <1>6

LEMMA WriterConnected ==
    ASSUME ServerInv, pc = "write"
    PROVE  /\ client[slot] \in DOMAIN sock /\ Peer(slot) = sock[client[slot]]
           /\ Peer(slot) \in Clients
  BY DEF ServerInv, WriteInv, SlotsInv, UsedSlots, Peer

\* The write is over, and nothing but the peer's way back and reset has changed.
LEMMA WrittenOrder ==
    ASSUME OrderBase, pc = "write", Written, UNCHANGED <<clientVars, clientEnd, serverEnd, toServer>>,
           \A c \in Clients \ {Peer(slot)} : toClient'[c] = toClient[c],
           reset' \in [Clients -> {"none", "due", "raised", "reported"}],
           \A c \in Clients : reset'[c] # "none" => reset[c] # "none" \/ Gone(c)
    PROVE  ConnInv' /\ ReadyInv'
<1>1. Served(client[slot]) /\ UNCHANGED slotVars
  BY DEF Written
<1>2. ConnInv'
  BY WriterConnected, ConnKept DEF OrderBase
<1>3. \A gd \in rset : Waiting(gd) => Waiting(gd)'
  BY <1>1 DEF Waiting, slotVars
<1>4. ReadyInv'
  BY <1>1, <1>3, ReadyServed DEF OrderBase, slotVars
<1>5. QED
  BY <1>2, <1>4

LEMMA EchoOrder ==
    ASSUME OrderBase, Echo, UNCHANGED clientVars
    PROVE  ConnInv' /\ ReadyInv'
<1> DEFINE d == Peer(slot)
           room == DownRoom - Len(toClient[d])
<1>1. /\ pc = "write" /\ toClient' = [toClient EXCEPT ![d] = @ \o Taken(buf, room)]
      /\ UNCHANGED <<clientEnd, serverEnd, toServer, reset>>
  BY DEF Echo
<1>2. \A c \in Clients \ {d} : toClient'[c] = toClient[c]
  BY <1>1 DEF OrderBase, ServerInv, Types, SocketTypes
<1>3. CASE Written
  BY <1>1, <1>2, <1>3, WrittenOrder DEF OrderBase, ConnInv
<1>4. CASE UNCHANGED <<pc, slotVars, rset, nready, slot>>
  <2>1. ConnInv'
    BY <1>1, <1>2, WriterConnected, ConnKept DEF OrderBase, ConnInv
  <2>2. ReadyInv'
    BY <1>1, <1>4 DEF OrderBase, ReadyInv, Waiting, slotVars
  <2>3. QED
    BY <2>1, <2>2
<1>5. QED
  BY <1>3, <1>4 DEF Echo

LEMMA EchoLostOrder ==
    ASSUME OrderBase, EchoLost, UNCHANGED clientVars
    PROVE  ConnInv' /\ ReadyInv'
<1>1. /\ pc = "write" /\ Written /\ Gone(Peer(slot)) /\ Peer(slot) \in Clients
      /\ reset' = [reset EXCEPT ![Peer(slot)] = "due"]
      /\ UNCHANGED <<clientEnd, serverEnd, toServer, toClient>>
  BY WriterConnected DEF EchoLost, OrderBase
<1>2. reset \in [Clients -> {"none", "due", "raised", "reported"}]
  BY DEF OrderBase, ConnInv
<1>3. /\ reset' \in [Clients -> {"none", "due", "raised", "reported"}]
      /\ \A c \in Clients : reset'[c] # "none" => reset[c] # "none" \/ Gone(c)
  BY <1>1, <1>2
<1>4. QED
  BY <1>1, <1>3, WrittenOrder

LEMMA EchoFailsOrder ==
    ASSUME OrderBase, EchoFails, UNCHANGED clientVars
    PROVE  ConnInv' /\ ReadyInv'
<1>1. CASE Die
  BY <1>1, DieOrder
<1>2. CASE /\ reset[Peer(slot)] = "raised"
           /\ reset' = [reset EXCEPT ![Peer(slot)] = "reported"] /\ Written
           /\ UNCHANGED <<backlog, clientEnd, serverEnd, toServer, toClient>>
  <2>1. pc = "write" /\ Peer(slot) \in Clients
    BY WriterConnected DEF EchoFails, OrderBase
  <2>2. reset \in [Clients -> {"none", "due", "raised", "reported"}]
    BY DEF OrderBase, ConnInv
  <2>3. /\ reset' \in [Clients -> {"none", "due", "raised", "reported"}]
        /\ \A c \in Clients : reset'[c] # "none" => reset[c] # "none" \/ Gone(c)
    BY <1>2, <2>1, <2>2
  <2>4. QED
    BY <1>2, <2>1, <2>3, WrittenOrder
<1>3. QED
  BY <1>1, <1>2 DEF EchoFails

LEMMA ServerStepOrder ==
    ASSUME OrderBase, ServerStep, UNCHANGED clientVars
    PROVE  ConnInv' /\ ReadyInv'
<1>1. CASE ServeSlot
  <2>1. PICK k \in ReadySlots : CloseSlot(k) \/ ReadFails(k) \/ Read(k)
    BY <1>1 DEF ServeSlot
  <2>2. pc = "slots"
    BY <1>1 DEF ServeSlot
  <2>3. QED
    BY <2>1, <2>2, CloseSlotOrder, ReadFailsOrder, ReadOrder
<1>2. QED
  BY <1>1, SelectOrder, AcceptOrder, AcceptFailsOrder, EchoOrder, EchoLostOrder, EchoFailsOrder
  DEF ServerStep

----------------------------------------------------------------------------
\* The clients' steps, which all belong to one client d.

\* What such a step may do to the streams and ends that the server looks at.
LEMMA ReadyFromClient ==
    ASSUME ServerInv, ReadyInv, UNCHANGED serverVars, NEW d \in Clients,
           cpc[d] = "idle" \/ toServer[d] = << >> \/ toServer'[d] # << >>,
           cpc[d] = "idle" \/ clientEnd[d] = "open" \/ clientEnd'[d] # "open",
           \A c \in Clients \ {d} : toServer'[c] = toServer[c] /\ clientEnd'[c] = clientEnd[c]
    PROVE  ReadyInv'
<1>1. UNCHANGED <<pc, allset, rset, slot, client, sock>>
  BY DEF serverVars
<1>2. ASSUME NEW fd \in allset \ {listenfd}, pc # "down", Waiting(fd) PROVE Waiting(fd)'
  <2>1. fd \in DOMAIN sock
    BY <1>2 DEF ServerInv, SlotsInv
  <2>2. sock[fd] \in Clients /\ cpc[sock[fd]] # "idle"
    BY <2>1, <1>2, NotIdle
  <2>3. QED
    BY <2>2, <1>1, <1>2 DEF Waiting
<1>3. QED
  BY <1>1, <1>2 DEF ReadyInv

OnlyOf(d) ==
    /\ UNCHANGED serverVars
    /\ stdineof' \in [Clients -> BOOLEAN]
    /\ reset' \in [Clients -> {"none", "due", "raised", "reported"}]
    /\ \A c \in Clients \ {d} :
          /\ cpc'[c] = cpc[c] /\ sent'[c] = sent[c] /\ got'[c] = got[c]
          /\ stdineof'[c] = stdineof[c] /\ clientEnd'[c] = clientEnd[c]
          /\ serverEnd'[c] = serverEnd[c] /\ reset'[c] = reset[c]
          /\ toClient'[c] = toClient[c] /\ toServer'[c] = toServer[c]

\* What it may do to d's.
ClientAt(d) ==
    /\ ConnAt(d)'
    /\ cpc[d] = "idle" \/ toServer[d] = << >> \/ toServer'[d] # << >>
    /\ cpc[d] = "idle" \/ clientEnd[d] = "open" \/ clientEnd'[d] # "open"

LEMMA FromClient ==
    ASSUME OrderBase, NEW d \in Clients, OnlyOf(d), ClientAt(d)
    PROVE  ConnInv' /\ ReadyInv'
<1>1. ASSUME NEW c \in Clients \ {d} PROVE ConnAt(c)'
  <2>1. ConnAt(c) /\ pc' = pc
    BY DEF OrderBase, ConnInv, OnlyOf, serverVars
  <2>2. QED
    BY <2>1 DEF ConnAt, Gone, OnlyOf
<1>2. ConnInv'
  BY <1>1 DEF ConnInv, ClientAt, OnlyOf
<1>3. QED
  BY <1>2, ReadyFromClient DEF OrderBase, OnlyOf, ClientAt

\* The types the lemmas below need.
EndTypes == SocketTypes /\ ClientTypes /\ ConnInv

LEMMA ConnectOrder ==
    ASSUME EndTypes, NEW d \in Clients, Connect(d), UNCHANGED serverVars
    PROVE  OnlyOf(d) /\ ClientAt(d)
<1>1. /\ cpc[d] = "idle" /\ cpc' = [cpc EXCEPT ![d] = "loop"]
      /\ clientEnd' = [clientEnd EXCEPT ![d] = "open"]
      /\ serverEnd' = [serverEnd EXCEPT ![d] = "queued"]
      /\ UNCHANGED <<toServer, toClient, reset, sent, got, stdineof>>
  BY DEF Connect, Establish, inputVars
<1>2. OnlyOf(d)
  BY <1>1 DEF EndTypes, SocketTypes, ClientTypes, ConnInv, OnlyOf
<1>3. cpc'[d] = "loop" /\ clientEnd'[d] = "open" /\ serverEnd'[d] = "queued" /\ ConnAt(d)
  BY <1>1 DEF EndTypes, SocketTypes, ClientTypes, ConnInv
<1>4. ConnAt(d)'
  BY <1>1, <1>3 DEF ConnAt, Gone
<1>5. QED
  BY <1>1, <1>2, <1>4 DEF ClientAt

\* The client's process ends.
LEMMA EndOrder ==
    ASSUME EndTypes, NEW d \in Clients, NEW how \in {"returned", "terminated", "killed"},
           cpc[d] # "idle", Leave(d, how), UNCHANGED <<serverVars, backlog, serverEnd, toServer>>,
           toClient' = [toClient EXCEPT ![d] = << >>],
           \E end \in {"closed", "aborted"} : clientEnd' = [clientEnd EXCEPT ![d] = end],
           reset' \in {reset, [reset EXCEPT ![d] = "due"]},
           \A c \in Clients \ {d} : sent'[c] = sent[c] /\ got'[c] = got[c]
    PROVE  OnlyOf(d) /\ ClientAt(d)
<1>1. stdineof' = stdineof /\ cpc' = [cpc EXCEPT ![d] = how] /\ pc' = pc
  BY DEF Leave, serverVars
<1>2. OnlyOf(d)
  <2>1. stdineof' \in [Clients -> BOOLEAN] /\ reset' \in [Clients -> {"none", "due", "raised", "reported"}]
    BY <1>1 DEF EndTypes, ConnInv
  <2>2. ASSUME NEW c \in Clients \ {d}
        PROVE  cpc'[c] = cpc[c] /\ clientEnd'[c] = clientEnd[c] /\ toClient'[c] = toClient[c]
    BY <1>1 DEF EndTypes, SocketTypes, ClientTypes
  <2>3. ASSUME NEW c \in Clients \ {d}
        PROVE  reset'[c] = reset[c]
    BY DEF EndTypes, ConnInv
  <2>4. QED
    BY <1>1, <2>1, <2>2, <2>3 DEF OnlyOf
<1>3. /\ cpc'[d] = how /\ clientEnd'[d] \in {"closed", "aborted"}
      /\ ConnAt(d)
  BY <1>1 DEF EndTypes, SocketTypes, ClientTypes, ConnInv
<1>4. ConnAt(d)'
  BY <1>1, <1>3 DEF ConnAt, Gone
<1>5. QED
  BY <1>2, <1>3, <1>4 DEF ClientAt

LEMMA SendOrder ==
    ASSUME EndTypes, NEW d \in Clients, Send(d), UNCHANGED serverVars
    PROVE  OnlyOf(d) /\ ClientAt(d)
<1>1. /\ cpc[d] = "send" /\ cpc' = [cpc EXCEPT ![d] = "loop"]
      /\ toServer' = [toServer EXCEPT ![d] = Append(@, Line(d, sent[d] + 1))]
      /\ sent' = [sent EXCEPT ![d] = @ + 1]
      /\ UNCHANGED <<got, stdineof, clientEnd, serverEnd, toClient, reset, pc>>
  BY DEF Send, inputVars, serverVars
<1>2. OnlyOf(d)
  BY <1>1 DEF EndTypes, SocketTypes, ClientTypes, ConnInv, OnlyOf
<1>3. cpc'[d] = "loop" /\ ConnAt(d)
  BY <1>1 DEF EndTypes, ClientTypes, ConnInv
<1>4. toServer'[d] # << >>
  <2>1. toServer[d] \in Seq(LineSet) /\ Line(d, sent[d] + 1) \in LineSet
    BY DEF EndTypes, SocketTypes, ClientTypes, Line, LineSet
  <2>2. toServer'[d] = Append(toServer[d], Line(d, sent[d] + 1))
    BY <1>1 DEF EndTypes, SocketTypes
  <2>3. QED
    BY <2>1, <2>2, AppendProperties
<1>5. ConnAt(d)'
  BY <1>1, <1>3 DEF ConnAt, Gone
<1>6. QED
  BY <1>1, <1>2, <1>4, <1>5 DEF ClientAt

LEMMA SendFailsOrder ==
    ASSUME EndTypes, NEW d \in Clients, SendFails(d), UNCHANGED serverVars
    PROVE  OnlyOf(d) /\ ClientAt(d)
<1>1. /\ cpc[d] = "send" /\ sent' = [sent EXCEPT ![d] = @ + 1] /\ got' = got
      /\ \A c \in Clients \ {d} : sent'[c] = sent[c]
  BY DEF SendFails, EndTypes, ClientTypes
<1>2. CASE End(d, "killed")
  <2>1. reset' \in {reset, [reset EXCEPT ![d] = "due"]}
    BY <1>2 DEF End, CloseClient, EndTypes, ConnInv
  <2>2. QED
    BY <1>1, <1>2, <2>1, EndOrder DEF End, CloseClient
<1>3. CASE cpc' = [cpc EXCEPT ![d] = "loop"] /\ UNCHANGED <<inputVars, sockVars>>
  <2>1. UNCHANGED <<stdineof, clientEnd, serverEnd, toServer, toClient, reset, pc>>
    BY <1>3 DEF inputVars, sockVars, serverVars
  <2>2. OnlyOf(d)
    BY <1>1, <1>3, <2>1 DEF EndTypes, ClientTypes, ConnInv, OnlyOf
  <2>3. cpc'[d] = "loop" /\ ConnAt(d)
    BY <1>3 DEF EndTypes, ClientTypes, ConnInv
  <2>4. ConnAt(d)'
    BY <1>1, <2>1, <2>3 DEF ConnAt, Gone
  <2>5. QED
    BY <2>1, <2>2, <2>4 DEF ClientAt
<1>4. QED
  BY <1>2, <1>3 DEF SendFails

\* A round of either loop in which the client does not end.
LEMMA LoopOrder ==
    ASSUME EndTypes, NEW d \in Clients, UNCHANGED serverVars,
           \/ d \in ShutClients /\ ShutLoop(d)
           \/ d \in WriteClients /\ WriteLoop(d)
    PROVE  OnlyOf(d) /\ ClientAt(d)
<1>1. ConnAt(d)
  BY DEF EndTypes, ConnInv
<1>2. /\ cpc[d] = "loop" /\ UNCHANGED <<sent, serverEnd, toServer, reset, pc>>
      /\ \A c \in Clients \ {d} : got'[c] = got[c] /\ toClient'[c] = toClient[c]
  BY DEF ShutLoop, WriteLoop, Receive, NoReceive, serverVars, EndTypes, SocketTypes, ClientTypes
<1>3. \/ cpc' = cpc /\ UNCHANGED <<stdineof, clientEnd>>
      \/ cpc' = [cpc EXCEPT ![d] = "send"] /\ UNCHANGED <<stdineof, clientEnd>> /\ ~stdineof[d]
      \/ /\ cpc' = cpc /\ d \notin WriteClients
         /\ stdineof' = [stdineof EXCEPT ![d] = TRUE]
         /\ clientEnd' = [clientEnd EXCEPT ![d] = "half"]
  <2>1. CASE d \in ShutClients /\ ShutLoop(d)
    BY <2>1, SocketsAssumption DEF ShutLoop, ShutdownWrite
  <2>2. CASE d \in WriteClients /\ WriteLoop(d)
    BY <2>2, <1>1 DEF WriteLoop, ConnAt
  <2>3. QED
    BY <2>1, <2>2
<1>4. OnlyOf(d)
  <2>1. stdineof' \in [Clients -> BOOLEAN] /\ reset' \in [Clients -> {"none", "due", "raised", "reported"}]
    BY <1>2, <1>3 DEF EndTypes, ConnInv
  <2>2. ASSUME NEW c \in Clients \ {d}
        PROVE  cpc'[c] = cpc[c] /\ stdineof'[c] = stdineof[c] /\ clientEnd'[c] = clientEnd[c]
    BY <1>3 DEF EndTypes, SocketTypes, ClientTypes, ConnInv
  <2>3. QED
    BY <1>2, <2>1, <2>2 DEF OnlyOf
<1>5. CASE cpc' = cpc /\ UNCHANGED <<stdineof, clientEnd>>
  BY <1>1, <1>2, <1>4, <1>5 DEF ClientAt, ConnAt, Gone
<1>6. CASE cpc' = [cpc EXCEPT ![d] = "send"] /\ UNCHANGED <<stdineof, clientEnd>> /\ ~stdineof[d]
  <2>1. cpc'[d] = "send"
    BY <1>6 DEF EndTypes, ClientTypes
  <2>2. QED
    BY <2>1, <1>1, <1>2, <1>4, <1>6 DEF ClientAt, ConnAt, Gone
<1>7. CASE /\ cpc' = cpc /\ d \notin WriteClients
           /\ stdineof' = [stdineof EXCEPT ![d] = TRUE]
           /\ clientEnd' = [clientEnd EXCEPT ![d] = "half"]
  <2>1. stdineof'[d] /\ clientEnd'[d] = "half" /\ cpc'[d] = "loop"
    BY <1>2, <1>7 DEF EndTypes, SocketTypes, ConnInv
  <2>2. reset[d] = "none"
    BY <1>1, <1>2 DEF ConnAt, Gone
  <2>3. QED
    BY <2>1, <2>2, <1>1, <1>2, <1>4, <1>7 DEF ClientAt, ConnAt, Gone
<1>8. QED
  BY <1>3, <1>5, <1>6, <1>7

LEMMA WriteReturnOrder ==
    ASSUME EndTypes, NEW d \in Clients, WriteReturn(d), UNCHANGED serverVars
    PROVE  OnlyOf(d) /\ ClientAt(d)
<1>1. /\ cpc[d] = "loop" /\ Leave(d, "returned") /\ UNCHANGED <<sent, backlog, serverEnd, toServer>>
      /\ toClient' = [toClient EXCEPT ![d] = << >>]
      /\ \E end \in {"closed", "aborted"} : clientEnd' = [clientEnd EXCEPT ![d] = end]
      /\ \A c \in Clients \ {d} : got'[c] = got[c]
  BY DEF WriteReturn, EndTypes, ClientTypes
<1>2. reset' \in {reset, [reset EXCEPT ![d] = "due"]}
  BY DEF WriteReturn, EndTypes, ConnInv
<1>3. QED
  BY <1>1, <1>2, EndOrder

LEMMA ClientStepOrder ==
    ASSUME EndTypes, NEW d \in Clients, ClientStep(d), UNCHANGED serverVars
    PROVE  OnlyOf(d) /\ ClientAt(d)
<1>1. ASSUME NEW how \in {"returned", "terminated", "killed"}, End(d, how),
             cpc[d] = "loop", UNCHANGED <<sent, got>>
      PROVE  OnlyOf(d) /\ ClientAt(d)
  <2>1. reset' \in {reset, [reset EXCEPT ![d] = "due"]}
    BY <1>1 DEF End, CloseClient, EndTypes, ConnInv
  <2>2. QED
    BY <1>1, <2>1, EndOrder DEF End, CloseClient
<1>2. CASE ShutEnd(d) \/ WriteEnd(d)
  BY <1>1, <1>2 DEF ShutEnd, WriteEnd
<1>3. QED
  BY <1>2, SendOrder, SendFailsOrder, LoopOrder, WriteReturnOrder DEF ClientStep

LEMMA OtherStepOrder ==
    ASSUME EndTypes, NEW d \in Clients, UNCHANGED serverVars,
           User(d) \/ (ResetArrives(d) /\ UNCHANGED clientVars)
    PROVE  OnlyOf(d) /\ ClientAt(d)
<1>1. UNCHANGED <<cpc, sent, got, stdineof, clientEnd, serverEnd, toClient, toServer, pc>>
  BY DEF User, Type, CloseInput, ResetArrives, sockVars, clientVars, serverVars
<1>2. /\ reset' \in [Clients -> {"none", "due", "raised", "reported"}]
      /\ \A c \in Clients \ {d} : reset'[c] = reset[c]
      /\ reset'[d] # "none" => reset[d] # "none"
  BY DEF User, Type, CloseInput, ResetArrives, sockVars, EndTypes, ConnInv
<1>3. ConnAt(d)
  BY DEF EndTypes, ConnInv
<1>4. OnlyOf(d)
  BY <1>1, <1>2 DEF EndTypes, ConnInv, OnlyOf
<1>5. ConnAt(d)'
  BY <1>1, <1>2, <1>3 DEF ConnAt, Gone
<1>6. QED
  BY <1>1, <1>4, <1>5 DEF ClientAt

LEMMA NextConn == OrderBase /\ [Next]_vars => ConnInv' /\ ReadyInv'
<1> SUFFICES ASSUME OrderBase, [Next]_vars
             PROVE  ConnInv' /\ ReadyInv'
  OBVIOUS
<1>1. EndTypes
  BY DEF EndTypes, OrderBase, ServerInv, Types
<1>2. CASE ServerStep /\ UNCHANGED clientVars
  BY <1>2, ServerStepOrder
<1>3. ASSUME NEW d \in Clients, UNCHANGED serverVars,
             \/ Connect(d) \/ ClientStep(d) \/ User(d)
             \/ ResetArrives(d) /\ UNCHANGED clientVars
      PROVE  ConnInv' /\ ReadyInv'
  BY <1>1, <1>3, ConnectOrder, ClientStepOrder, OtherStepOrder, FromClient
<1>4. CASE UNCHANGED vars
  <2>1. UNCHANGED <<pc, slot, client, allset, rset, sock, stdineof, cpc, sent, got>>
    BY <1>4 DEF vars, serverVars, clientVars
  <2>2. UNCHANGED <<clientEnd, serverEnd, toServer, toClient, reset>>
    BY <1>4 DEF vars, sockVars
  <2>3. QED
    BY <2>1, <2>2 DEF OrderBase, ConnInv, ConnAt, Gone, ReadyInv, Waiting
<1>5. CASE Stop
  BY <1>4, <1>5 DEF Stop
<1>6. QED
  BY <1>2, <1>3, <1>4, <1>5 DEF Next

----------------------------------------------------------------------------
\* Where the lines are.

Account(c) == got[c] \o toClient[c] \o Echoing(c) \o toServer[c]

\* For a connection that lasts, all that was sent is accounted for; for any, what
\* was printed and what is on its way back is the beginning of what was sent.
Lasts(c) == clientEnd[c] \in {"open", "half"} /\ pc # "down"

OrderAt(c) ==
    /\ Lasts(c) => Account(c) = AllSent(c)
    /\ \E rest \in Seq(LineSet) : (got[c] \o toClient[c]) \o rest = AllSent(c)

OrderInv == \A c \in Clients : OrderAt(c)

LEMMA Streams ==
    ASSUME Types, NEW c \in Clients
    PROVE  /\ got[c] \in Seq(LineSet) /\ toClient[c] \in Seq(LineSet)
           /\ Echoing(c) \in Seq(LineSet) /\ toServer[c] \in Seq(LineSet) /\ buf \in Seq(LineSet)
           /\ << >> \in Seq(LineSet)
           /\ got[c] \o toClient[c] \in Seq(LineSet)
<1>1. /\ got[c] \in Seq(LineSet) /\ toClient[c] \in Seq(LineSet)
      /\ toServer[c] \in Seq(LineSet) /\ buf \in Seq(LineSet) /\ << >> \in Seq(LineSet)
  BY EmptySeq DEF Types, ServerTypes, SocketTypes, ClientTypes
<1>2. Echoing(c) \in Seq(LineSet)
  BY <1>1 DEF Echoing
<1>3. got[c] \o toClient[c] \in Seq(LineSet)
  BY <1>1, ConcatProperties
<1>4. QED
  BY <1>1, <1>2, <1>3

LEMMA ConcatType == \A x, y \in Seq(LineSet) : x \o y \in Seq(LineSet)
  BY ConcatProperties

LEMMA ConcatNone == \A x \in Seq(LineSet) : x \o << >> = x
  BY ConcatEmptySeq

LEMMA Assoc == \A x, y, z \in Seq(LineSet) : (x \o y) \o z = x \o (y \o z)
  BY ConcatAssociative

\* The server's read: lines go from the stream to the buffer.
LEMMA MoveToBuffer ==
    ASSUME NEW x \in Seq(LineSet), NEW h \in Seq(LineSet), NEW r \in Seq(LineSet)
    PROVE  x \o << >> \o (h \o r) = x \o h \o r
<1>1. x \o << >> = x
  BY ConcatNone
<1>2. x \o (h \o r) = x \o h \o r
  BY Assoc
<1>3. QED
  BY <1>1, <1>2

SentUpTo(c, n) == [i \in 1 .. n |-> Line(c, i)]

LEMMA OneMore ==
    ASSUME NEW c \in Clients, NEW n \in Nat
    PROVE  /\ SentUpTo(c, n) \in Seq(LineSet)
           /\ Line(c, n + 1) \in LineSet
           /\ SentUpTo(c, n + 1) = Append(SentUpTo(c, n), Line(c, n + 1))
           /\ SentUpTo(c, n) \o <<Line(c, n + 1)>> = SentUpTo(c, n + 1)
           /\ <<Line(c, n + 1)>> \in Seq(LineSet)
<1>1. \A m \in Nat : SentUpTo(c, m) \in Seq(LineSet) /\ Len(SentUpTo(c, m)) = m
  BY DEF SentUpTo, Line, LineSet
<1>2. Line(c, n + 1) \in LineSet
  BY DEF Line, LineSet
<1> DEFINE s == Append(SentUpTo(c, n), Line(c, n + 1))
<1>3. /\ s \in Seq(LineSet) /\ Len(s) = n + 1
      /\ \A i \in 1 .. n : s[i] = SentUpTo(c, n)[i]
      /\ s[n + 1] = Line(c, n + 1)
  BY <1>1, <1>2, AppendProperties
<1>4. \A i \in 1 .. n + 1 : SentUpTo(c, n + 1)[i] = s[i]
  <2>1. \A i \in 1 .. n + 1 : SentUpTo(c, n + 1)[i] = Line(c, i)
    BY DEF SentUpTo
  <2>2. \A i \in 1 .. n : SentUpTo(c, n)[i] = Line(c, i)
    BY DEF SentUpTo
  <2>3. QED
    BY <2>1, <2>2, <1>3
<1>5. SentUpTo(c, n + 1) = s
  <2>1. n + 1 \in Nat /\ SentUpTo(c, n + 1) \in Seq(LineSet) /\ Len(SentUpTo(c, n + 1)) = n + 1
    BY <1>1
  <2>2. QED
    BY <2>1, <1>3, <1>4, SeqEqual
<1>6. s = SentUpTo(c, n) \o <<Line(c, n + 1)>>
  BY <1>1, <1>2, AppendIsConcat
<1>7. <<Line(c, n + 1)>> \in Seq(LineSet)
  BY <1>2
<1>8. SentUpTo(c, n) \in Seq(LineSet)
  BY <1>1
<1>9. QED
  BY <1>2, <1>5, <1>6, <1>7, <1>8

\* A step that sends nothing, and moves nothing or only what was on its way back.
LEMMA OrderFrom ==
    ASSUME NEW c, OrderAt(c), sent'[c] = sent[c],
           got'[c] \o toClient'[c] = got[c] \o toClient[c],
           Lasts(c)' => Lasts(c) /\ Echoing(c)' \o toServer'[c] = Echoing(c) \o toServer[c],
           got[c] \o toClient[c] \in Seq(LineSet),
           Echoing(c) \in Seq(LineSet), toServer[c] \in Seq(LineSet),
           Lasts(c)' => Echoing(c)' \in Seq(LineSet) /\ toServer'[c] \in Seq(LineSet)
    PROVE  OrderAt(c)'
<1>1. AllSent(c)' = AllSent(c)
  BY DEF AllSent
<1>2. ASSUME Lasts(c)' PROVE Account(c)' = Account(c)
  <2> DEFINE x == got[c] \o toClient[c]
  <2>1. (x \o Echoing(c)) \o toServer[c] = x \o (Echoing(c) \o toServer[c])
    BY Assoc
  <2>2. x \o Echoing(c)' \o toServer'[c] = x \o (Echoing(c)' \o toServer'[c])
    <3>1. Echoing(c)' \in Seq(LineSet) /\ toServer'[c] \in Seq(LineSet)
      BY <1>2
    <3>2. QED
      BY <3>1, Assoc
  <2>3. Account(c)' = x \o Echoing(c)' \o toServer'[c]
    BY DEF Account
  <2>4. Account(c) = x \o Echoing(c) \o toServer[c]
    BY DEF Account
  <2>5. QED
    BY <1>2, <2>1, <2>2, <2>3, <2>4
<1>3. QED
  BY <1>1, <1>2 DEF OrderAt

----------------------------------------------------------------------------
\* The server's steps keep the order.

LEMMA DieKeepsOrder ==
    ASSUME OrderBase, Die, UNCHANGED clientVars, NEW c \in Clients, OrderAt(c)
    PROVE  OrderAt(c)'
<1>1. pc' = "down" /\ toClient' = toClient /\ got' = got /\ sent' = sent
  BY DEF Die, CloseAll, clientVars
<1>2. ~Lasts(c)'
  BY <1>1 DEF Lasts
<1>3. QED
  BY <1>1, <1>2 DEF OrderAt, AllSent

\* Before and after the step the server is not writing.
LEMMA QuietOrder ==
    ASSUME OrderBase, pc # "write", pc' # "write", pc # "down", NEW c \in Clients, OrderAt(c),
           UNCHANGED <<clientVars, clientEnd, toServer, toClient>>
    PROVE  OrderAt(c)'
<1>1. Echoing(c) = << >> /\ Echoing(c)' = << >>
  BY DEF Echoing
<1>2. Types
  BY DEF OrderBase, ServerInv
<1>3. sent' = sent /\ got' = got
  BY DEF clientVars
<1>4. Lasts(c)' => Lasts(c)
  BY DEF Lasts
<1>5. QED
  BY <1>1, <1>2, <1>3, <1>4, Streams, OrderFrom

LEMMA ReadKeepsOrder ==
    ASSUME OrderBase, pc = "slots", NEW k \in ReadySlots, Read(k), UNCHANGED clientVars,
           NEW c \in Clients, OrderAt(c)
    PROVE  OrderAt(c)'
<1> DEFINE d == sock[client[k]]
<1>1. /\ buf' = Taken(toServer[d], MAXLINE)
      /\ toServer' = [toServer EXCEPT ![d] = Rest(@, MAXLINE)]
      /\ slot' = k /\ pc' = "write"
      /\ UNCHANGED <<client, sock, clientEnd, toClient>>
  BY DEF Read, slotVars
<1>2. Types /\ d \in Clients /\ Peer(slot)' = d /\ Echoing(c) = << >>
  BY <1>1, SlotConnected DEF OrderBase, ServerInv, Echoing, Peer
<1>3. sent' = sent /\ got' = got /\ (Lasts(c)' => Lasts(c))
  BY <1>1 DEF clientVars, Lasts
<1>4. CASE c = d
  <2> DEFINE h == Taken(toServer[c], MAXLINE)
             r == Rest(toServer[c], MAXLINE)
             x == got[c] \o toClient[c]
  <2>1. Echoing(c)' = h /\ toServer'[c] = r
    BY <1>1, <1>2, <1>4 DEF Echoing, Types, SocketTypes
  <2>2. h \in Seq(LineSet) /\ r \in Seq(LineSet) /\ h \o r = toServer[c] /\ x \in Seq(LineSet)
    BY <1>2, Streams, TakenRest, SocketsAssumption
  <2>3. x \o << >> \o toServer[c] = x \o h \o r
    <3>. HIDE DEF x, h, r
    <3>1. x \o << >> \o (h \o r) = x \o h \o r
      BY <2>2, MoveToBuffer
    <3>2. QED
      BY <3>1, <2>2
  <2>4. Account(c)' = x \o h \o r /\ Account(c) = x \o << >> \o toServer[c]
    BY <1>1, <1>2, <1>3, <2>1 DEF Account
  <2>5. Account(c)' = Account(c)
    BY <2>3, <2>4
  <2>6. QED
    BY <2>5, <1>1, <1>3 DEF OrderAt, AllSent
<1>5. CASE c # d
  <2>1. Echoing(c)' = << >> /\ toServer'[c] = toServer[c]
    BY <1>1, <1>2, <1>5 DEF Echoing, Types, SocketTypes
  <2>2. QED
    BY <2>1, <1>1, <1>2, <1>3, Streams, OrderFrom
<1>6. QED
  BY <1>4, <1>5

\* The lines of a write whose client is gone are lost, with the connection.
LEMMA LostKeepsOrder ==
    ASSUME OrderBase, pc = "write", Written, Gone(Peer(slot)),
           UNCHANGED <<clientVars, clientEnd, toServer, toClient>>, NEW c \in Clients, OrderAt(c)
    PROVE  OrderAt(c)'
<1>1. pc' \in {"select", "slots"} /\ Echoing(c)' = << >>
  BY DEF Written, Served, Echoing
<1>2. Types /\ sent' = sent /\ got' = got
  BY DEF OrderBase, ServerInv, clientVars
<1>3. CASE c = Peer(slot)
  BY <1>1, <1>2, <1>3 DEF OrderAt, AllSent, Lasts, Gone
<1>4. CASE c # Peer(slot)
  <2>1. Echoing(c) = << >> /\ (Lasts(c)' => Lasts(c))
    BY <1>4 DEF Echoing, Lasts
  <2>2. QED
    BY <2>1, <1>1, <1>2, Streams, OrderFrom
<1>5. QED
  BY <1>3, <1>4

LEMMA EchoKeepsOrder ==
    ASSUME OrderBase, Echo, UNCHANGED clientVars, NEW c \in Clients, OrderAt(c)
    PROVE  OrderAt(c)'
<1> DEFINE d == Peer(slot)
           room == DownRoom - Len(toClient[d])
           h == Taken(buf, room)
           r == Rest(buf, room)
<1>1. /\ pc = "write" /\ ~Gone(d) /\ room > 0
      /\ toClient' = [toClient EXCEPT ![d] = @ \o h]
      /\ UNCHANGED <<clientEnd, toServer>>
  BY DEF Echo
<1>2. Types /\ d \in Clients /\ sent' = sent /\ got' = got
  BY <1>1, WriterConnected DEF OrderBase, ServerInv, clientVars
<1>3. toClient[d] \in Seq(LineSet) /\ buf \in Seq(LineSet) /\ << >> \in Seq(LineSet) /\ room \in Nat
  BY <1>1, <1>2, Streams, SocketsAssumption
<1>4. h \in Seq(LineSet) /\ r \in Seq(LineSet) /\ h \o r = buf
  BY <1>3, TakenRest
<1>5. \/ r = << >> /\ pc' \in {"select", "slots"}
      \/ buf' = r /\ pc' = "write" /\ Peer(slot)' = d
  <2>1. CASE Len(buf) <= room /\ Written
    <3>1. r = << >>
      BY <1>3, <2>1, SubSeqEmpty DEF Rest
    <3>2. QED
      BY <2>1, <3>1 DEF Written, Served
  <2>2. CASE Len(buf) > room /\ buf' = r /\ UNCHANGED <<pc, slotVars, rset, nready, slot>>
    BY <1>1, <2>2 DEF slotVars, Peer
  <2>3. QED
    BY <2>1, <2>2 DEF Echo
<1>6. c = d => Echoing(c)' = r
  BY <1>5 DEF Echoing
<1>7. CASE c = d
  <2>1. Lasts(c)
    <3>1. cpc[d] # "idle" /\ ConnAt(d)
      BY <1>1, <1>2, WriterConnected, NotIdle DEF OrderBase, ConnInv
    <3>2. clientEnd[d] \in {"none", "open", "half", "closed", "aborted"}
      BY <1>2 DEF Types, SocketTypes
    <3>3. QED
      BY <3>1, <3>2, <1>1, <1>7 DEF ConnAt, Lasts, Gone
  <2> DEFINE g == got[c]
             b == toClient[c]
             q == toServer[c]
  <2>2. g \in Seq(LineSet) /\ b \in Seq(LineSet) /\ q \in Seq(LineSet)
    BY <1>2, Streams
  <2>3. Echoing(c) = h \o r
    BY <1>1, <1>4, <1>7 DEF Echoing
  <2>4. Account(c) = g \o b \o (h \o r) \o q /\ Account(c)' = g \o (b \o h) \o r \o q
    <3>1. toClient'[c] = b \o h
      BY <1>1, <1>2, <1>7 DEF Types, SocketTypes
    <3>2. toServer'[c] = q /\ got'[c] = g
      BY <1>1, <1>2
    <3>3. Echoing(c)' = r
      BY <1>6, <1>7
    <3>. HIDE DEF h, r, g, b, q
    <3>4. Account(c)' = got'[c] \o toClient'[c] \o Echoing(c)' \o toServer'[c]
      BY DEF Account
    <3>5. Account(c) = g \o b \o Echoing(c) \o q
      BY DEF Account, g, b, q
    <3>6. QED
      BY <3>1, <3>2, <3>3, <3>4, <3>5, <2>3
  <2>5. /\ g \o b \o (h \o r) \o q = g \o (b \o h) \o r \o q
        /\ g \o (b \o h) \o r \o q = g \o (b \o h) \o (r \o q)
        /\ r \o q \in Seq(LineSet)
    <3>. HIDE DEF h, r, g, b, q
    <3>1. g \o b \o (h \o r) \o q = g \o (b \o h) \o r \o q
      <4>1. g \o b \in Seq(LineSet)
        BY <2>2, ConcatType
      <4>2. \A x \in Seq(LineSet) : (x \o h) \o r = x \o (h \o r)
        BY <1>4, Assoc
      <4>3. (g \o b) \o (h \o r) = ((g \o b) \o h) \o r
        BY <4>1, <4>2
      <4>4. (g \o b) \o h = g \o (b \o h)
        <5>1. g \in Seq(LineSet) /\ b \in Seq(LineSet) /\ h \in Seq(LineSet)
          BY <2>2, <1>4
        <5>2. QED
          BY <5>1, Assoc
      <4>5. QED
        BY <4>3, <4>4
    <3>2. b \o h \in Seq(LineSet) /\ r \o q \in Seq(LineSet)
      BY <2>2, <1>4, ConcatType
    <3>3. g \o (b \o h) \in Seq(LineSet)
      BY <2>2, <3>2, ConcatType
    <3>4. (g \o (b \o h) \o r) \o q = g \o (b \o h) \o (r \o q)
      BY <2>2, <1>4, <3>3, Assoc
    <3>5. QED
      BY <3>1, <3>2, <3>4
  <2>6. AllSent(c)' = AllSent(c) /\ Account(c) = AllSent(c)
    BY <1>2, <2>1 DEF AllSent, OrderAt
  <2>7. Account(c)' = AllSent(c)'
    BY <2>4, <2>5, <2>6
  <2>8. got'[c] \o toClient'[c] \o (r \o q) = AllSent(c)'
    <3>1. got'[c] = g /\ toClient'[c] = b \o h
      BY <1>1, <1>2, <1>7 DEF Types, SocketTypes
    <3>2. QED
      BY <3>1, <2>4, <2>5, <2>6
  <2>9. QED
    BY <2>5, <2>7, <2>8 DEF OrderAt
<1>8. CASE c # d
  <2>1. Echoing(c) = << >> /\ Echoing(c)' = << >>
    BY <1>1, <1>5, <1>8 DEF Echoing
  <2>2. toClient'[c] = toClient[c] /\ (Lasts(c)' => Lasts(c))
    BY <1>1, <1>2, <1>8 DEF Types, SocketTypes, Lasts
  <2>3. QED
    BY <2>1, <2>2, <1>1, <1>2, <1>3, Streams, OrderFrom
<1>9. QED
  BY <1>7, <1>8

LEMMA ServerStepKeepsOrder ==
    ASSUME OrderBase, ServerStep, UNCHANGED clientVars, NEW c \in Clients, OrderAt(c)
    PROVE  OrderAt(c)'
<1>1. CASE Select
  BY <1>1, QuietOrder DEF Select, sockVars
<1>2. CASE Accept
  BY <1>2, QuietOrder DEF Accept, Served
<1>3. CASE AcceptFails
  BY <1>3, QuietOrder, DieKeepsOrder DEF AcceptFails, Served, sockVars
<1>4. CASE ServeSlot
  <2>1. PICK k \in ReadySlots : CloseSlot(k) \/ ReadFails(k) \/ Read(k)
    BY <1>4 DEF ServeSlot
  <2>2. pc = "slots"
    BY <1>4 DEF ServeSlot
  <2>3. CASE CloseSlot(k)
    BY <2>2, <2>3, QuietOrder DEF CloseSlot, Served
  <2>4. CASE ReadFails(k)
    BY <2>2, <2>4, QuietOrder DEF ReadFails, Served
  <2>5. QED
    BY <2>1, <2>2, <2>3, <2>4, ReadKeepsOrder
<1>5. CASE EchoLost
  BY <1>5, LostKeepsOrder DEF EchoLost
<1>6. CASE EchoFails
  <2>1. CASE Die
    BY <2>1, DieKeepsOrder
  <2>2. CASE reset[Peer(slot)] = "raised" /\ Written /\ UNCHANGED <<clientEnd, toServer, toClient>>
    <3>1. pc = "write" /\ Gone(Peer(slot))
      BY <1>6, <2>2, WriterConnected DEF EchoFails, OrderBase, ConnInv, ConnAt
    <3>2. QED
      BY <3>1, <2>2, LostKeepsOrder
  <2>3. QED
    BY <1>6, <2>1, <2>2 DEF EchoFails
<1>7. QED
  BY <1>1, <1>2, <1>3, <1>4, <1>5, <1>6, EchoKeepsOrder DEF ServerStep

----------------------------------------------------------------------------
\* The clients' steps keep the order.

LEMMA OthersKeepOrder ==
    ASSUME Types, NEW d \in Clients, OnlyOf(d), NEW c \in Clients \ {d}, OrderAt(c)
    PROVE  OrderAt(c)'
<1>1. Echoing(c)' = Echoing(c) /\ pc' = pc
  BY EchoingKept DEF OnlyOf, serverVars
<1>2. /\ sent'[c] = sent[c] /\ got'[c] = got[c] /\ clientEnd'[c] = clientEnd[c]
      /\ toClient'[c] = toClient[c] /\ toServer'[c] = toServer[c]
  BY DEF OnlyOf
<1>3. QED
  BY <1>1, <1>2, Streams, OrderFrom DEF Lasts

LEMMA SentIs == ASSUME NEW c PROVE AllSent(c) = SentUpTo(c, sent[c])
  BY DEF AllSent, SentUpTo

\* What is the beginning of what was sent stays so when one more line is sent.
LEMMA PrintedMore ==
    ASSUME NEW c \in Clients, NEW n \in Nat, NEW x \in Seq(LineSet), NEW rest \in Seq(LineSet),
           x \o rest = SentUpTo(c, n)
    PROVE  \E more \in Seq(LineSet) : x \o more = SentUpTo(c, n + 1)
<1> DEFINE l == <<Line(c, n + 1)>>
<1>1. l \in Seq(LineSet) /\ SentUpTo(c, n) \o l = SentUpTo(c, n + 1)
  BY OneMore
<1>. HIDE DEF l
<1>2. (x \o rest) \o l = x \o (rest \o l)
  BY <1>1, Assoc
<1>3. rest \o l \in Seq(LineSet)
  BY <1>1, ConcatType
<1>4. QED
  BY <1>1, <1>2, <1>3

LEMMA ConnectKeepsOrder ==
    ASSUME OrderBase, NEW d \in Clients, Connect(d), UNCHANGED serverVars
    PROVE  OrderAt(d)'
<1>1. ConnAt(d) /\ cpc[d] = "idle" /\ UNCHANGED <<sent, got, toClient, toServer>>
  BY DEF Connect, Establish, OrderBase, ConnInv
<1>2. Echoing(d) = << >>
  BY <1>1, WriterConnected, NotIdle DEF OrderBase, Echoing
<1>3. Echoing(d)' = << >>
  BY <1>2, EchoingKept
<1>4. /\ sent'[d] = 0 /\ got'[d] = << >> /\ toClient'[d] = << >> /\ toServer'[d] = << >>
  BY <1>1 DEF ConnAt
<1>5. << >> \in Seq(LineSet) /\ << >> \o << >> = << >>
  BY EmptySeq, ConcatNone
<1>6. AllSent(d)' = << >>
  BY <1>4 DEF AllSent
<1>7. Account(d)' = << >>
  BY <1>3, <1>4, <1>5 DEF Account
<1>8. (got'[d] \o toClient'[d]) \o << >> = AllSent(d)'
  BY <1>4, <1>5, <1>6
<1>9. QED
  BY <1>5, <1>6, <1>7, <1>8 DEF OrderAt

\* The process ends: what it printed stays the beginning of what it sent.
LEMMA EndKeepsOrder ==
    ASSUME Types, NEW d \in Clients, OrderAt(d), clientEnd'[d] \notin {"open", "half"},
           toClient'[d] = << >>, got'[d] \in Seq(LineSet), NEW r \in Seq(LineSet),
           got'[d] \o r = got[d] \o toClient[d],
           sent'[d] = sent[d] \/ sent'[d] = sent[d] + 1
    PROVE  OrderAt(d)'
<1> DEFINE g == got'[d]
<1>1. PICK rest \in Seq(LineSet) : (got[d] \o toClient[d]) \o rest = SentUpTo(d, sent[d])
  BY SentIs DEF OrderAt
<1>2. r \o rest \in Seq(LineSet)
  BY ConcatType
<1>3. g \o (r \o rest) = SentUpTo(d, sent[d])
  <2>1. (g \o r) \o rest = g \o (r \o rest)
    <3>. HIDE DEF g
    <3>1. g \in Seq(LineSet)
      BY DEF g
    <3>2. QED
      BY <3>1, Assoc
  <2>2. QED
    BY <2>1, <1>1
<1>4. sent[d] \in Nat
  BY DEF Types, ClientTypes
<1>5. \E more \in Seq(LineSet) : g \o more = SentUpTo(d, sent'[d])
  <2>1. CASE sent'[d] = sent[d]
    BY <2>1, <1>2, <1>3
  <2>2. CASE sent'[d] = sent[d] + 1
    <3>. HIDE DEF g
    <3>1. g \in Seq(LineSet)
      BY DEF g
    <3>2. \E more \in Seq(LineSet) : g \o more = SentUpTo(d, sent[d] + 1)
      BY <3>1, <1>2, <1>3, <1>4, PrintedMore
    <3>3. QED
      BY <2>2, <3>2
  <2>3. QED
    BY <2>1, <2>2
<1>6. AllSent(d)' = SentUpTo(d, sent'[d])
  BY DEF AllSent, SentUpTo
<1>7. got'[d] \o toClient'[d] = g
  BY ConcatNone
<1>8. QED
  BY <1>5, <1>6, <1>7 DEF OrderAt, Lasts

LEMMA SendKeepsOrder ==
    ASSUME OrderBase, NEW d \in Clients, Send(d), UNCHANGED serverVars, OrderAt(d)
    PROVE  OrderAt(d)'
<1> DEFINE x == got[d] \o toClient[d] \o Echoing(d)
           n == sent[d]
           q == toServer[d]
           l == Line(d, n + 1)
<1>1. Types /\ n \in Nat
  BY DEF OrderBase, ServerInv, Types, ClientTypes
<1>2. /\ toServer'[d] = Append(q, l) /\ sent'[d] = n + 1
      /\ UNCHANGED <<got, toClient, clientEnd, pc>>
  BY <1>1 DEF Send, Types, SocketTypes, ClientTypes, serverVars
<1>3. Echoing(d)' = Echoing(d)
  BY EchoingKept
<1>4. /\ got[d] \o toClient[d] \in Seq(LineSet) /\ Echoing(d) \in Seq(LineSet)
      /\ q \in Seq(LineSet)
  BY <1>1, Streams
<1>5. x \in Seq(LineSet)
  BY <1>4, ConcatType
<1>6. /\ l \in LineSet /\ <<l>> \in Seq(LineSet)
      /\ SentUpTo(d, n) \o <<l>> = SentUpTo(d, n + 1)
  BY <1>1, OneMore
<1>7. Append(q, l) = q \o <<l>>
  BY <1>4, <1>6, AppendIsConcat
<1>8. Account(d) = x \o q /\ Account(d)' = x \o Append(q, l)
  BY <1>2, <1>3 DEF Account
<1>9. AllSent(d)' = SentUpTo(d, n + 1) /\ AllSent(d) = SentUpTo(d, n)
  BY <1>2 DEF AllSent, SentUpTo
<1>10. Lasts(d)' => Account(d)' = AllSent(d)'
  <2>1. (x \o q) \o <<l>> = x \o (q \o <<l>>)
    <3>. HIDE DEF x, q, l
    <3>1. QED
      BY <1>4, <1>5, <1>6, Assoc
  <2>2. Lasts(d)' => Account(d) = AllSent(d)
    BY <1>2 DEF OrderAt, Lasts
  <2>3. QED
    BY <2>1, <2>2, <1>6, <1>7, <1>8, <1>9
<1>11. \E more \in Seq(LineSet) : (got[d] \o toClient[d]) \o more = SentUpTo(d, n + 1)
  BY <1>1, <1>4, <1>9, PrintedMore DEF OrderAt
<1>12. QED
  BY <1>2, <1>9, <1>10, <1>11 DEF OrderAt

LEMMA SendFailsKeepsOrder ==
    ASSUME OrderBase, NEW d \in Clients, SendFails(d), UNCHANGED serverVars, OrderAt(d)
    PROVE  OrderAt(d)'
<1>1. /\ cpc[d] = "send" /\ serverEnd[d] = "closed" /\ sent'[d] = sent[d] + 1
      /\ got' = got /\ sent[d] \in Nat /\ Types /\ pc' = pc
  BY DEF SendFails, OrderBase, ServerInv, Types, ClientTypes, serverVars
<1>2. /\ got[d] \in Seq(LineSet) /\ toClient[d] \in Seq(LineSet)
      /\ got[d] \o toClient[d] \in Seq(LineSet)
  BY <1>1, Streams
<1>3. CASE End(d, "killed")
  <2>1. clientEnd'[d] \in {"closed", "aborted"} /\ toClient'[d] = << >>
    BY <1>1, <1>3 DEF End, CloseClient, Types, SocketTypes
  <2>2. QED
    BY <2>1, <1>1, <1>2, EndKeepsOrder
<1>4. CASE cpc' = [cpc EXCEPT ![d] = "loop"] /\ UNCHANGED <<inputVars, sockVars>>
  <2>1. toClient' = toClient /\ clientEnd' = clientEnd
    BY <1>4 DEF sockVars
  <2>2. ~Lasts(d)'
    BY <2>1, <1>1 DEF OrderBase, ConnInv, ConnAt, Lasts
  <2>3. \E more \in Seq(LineSet) : (got[d] \o toClient[d]) \o more = SentUpTo(d, sent[d] + 1)
    BY <1>1, <1>2, PrintedMore, SentIs DEF OrderAt
  <2>4. AllSent(d)' = SentUpTo(d, sent[d] + 1)
    BY <1>1 DEF AllSent, SentUpTo
  <2>5. QED
    BY <2>1, <2>2, <2>3, <2>4, <1>1 DEF OrderAt
<1>5. QED
  BY <1>3, <1>4 DEF SendFails

\* What is read was on its way.
LEMMA LoopKeepsOrder ==
    ASSUME OrderBase, NEW d \in Clients, NEW n \in Nat, Receive(d, n) \/ NoReceive,
           UNCHANGED <<serverVars, sent, toServer>>, OrderAt(d),
           clientEnd'[d] \in {"open", "half"} => clientEnd[d] \in {"open", "half"}
    PROVE  OrderAt(d)'
<1>1. Types /\ Echoing(d)' = Echoing(d) /\ pc' = pc
  BY EchoingKept DEF OrderBase, ServerInv, serverVars
<1>2. /\ got[d] \in Seq(LineSet) /\ toClient[d] \in Seq(LineSet)
  BY <1>1, Streams
<1>3. got'[d] \o toClient'[d] = got[d] \o toClient[d]
  <2>1. CASE Receive(d, n)
    <3> DEFINE g == got[d]
               h == Taken(toClient[d], n)
               r == Rest(toClient[d], n)
    <3>1. got'[d] = g \o h /\ toClient'[d] = r
      BY <2>1, <1>1 DEF Receive, Types, SocketTypes, ClientTypes
    <3>2. h \in Seq(LineSet) /\ r \in Seq(LineSet) /\ h \o r = toClient[d] /\ g \in Seq(LineSet)
      BY <1>2, TakenRest
    <3>3. (g \o h) \o r = g \o (h \o r)
      <4>. HIDE DEF g, h, r
      <4>1. QED
        BY <3>2, Assoc
    <3>4. QED
      BY <3>1, <3>2, <3>3
  <2>2. CASE NoReceive
    BY <2>2 DEF NoReceive
  <2>3. QED
    BY <2>1, <2>2
<1>4. Lasts(d)' => Lasts(d)
  BY <1>1 DEF Lasts
<1>5. QED
  BY <1>1, <1>3, <1>4, Streams, OrderFrom

LEMMA ClientStepKeepsOrder ==
    ASSUME OrderBase, NEW d \in Clients, ClientStep(d), UNCHANGED serverVars, OrderAt(d)
    PROVE  OrderAt(d)'
<1>1. Types /\ ConnAt(d)
  BY DEF OrderBase, ServerInv, ConnInv
<1>2. /\ got[d] \in Seq(LineSet) /\ toClient[d] \in Seq(LineSet)
  BY <1>1, Streams
<1>3. ASSUME NEW how \in {"returned", "terminated", "killed"}, End(d, how), UNCHANGED <<sent, got>>
      PROVE  OrderAt(d)'
  <2>1. clientEnd'[d] \in {"closed", "aborted"} /\ toClient'[d] = << >>
    BY <1>1, <1>3 DEF End, CloseClient, Types, SocketTypes
  <2>2. QED
    BY <2>1, <1>1, <1>2, <1>3, EndKeepsOrder
<1>4. CASE ShutEnd(d) \/ WriteEnd(d)
  BY <1>3, <1>4 DEF ShutEnd, WriteEnd
<1>5. CASE d \in ShutClients /\ ShutLoop(d)
  <2>1. clientEnd[d] \in {"open", "half"}
    BY <1>1, <1>5 DEF ShutLoop, ConnAt
  <2>2. QED
    BY <2>1, <1>5, LoopKeepsOrder, SocketsAssumption DEF ShutLoop
<1>6. CASE d \in WriteClients /\ WriteLoop(d)
  BY <1>6, LoopKeepsOrder DEF WriteLoop
<1>7. CASE WriteReturn(d)
  <2> DEFINE g == got[d]
             h == Taken(toClient[d], 1)
             r == Rest(toClient[d], 1)
  <2>1. /\ got'[d] = g \o h /\ toClient'[d] = << >> /\ sent' = sent
        /\ clientEnd'[d] \in {"closed", "aborted"}
    BY <1>1, <1>7 DEF WriteReturn, Types, SocketTypes, ClientTypes
  <2>2. h \in Seq(LineSet) /\ r \in Seq(LineSet) /\ h \o r = toClient[d] /\ g \in Seq(LineSet)
    BY <1>2, TakenRest
  <2>3. (g \o h) \o r = g \o (h \o r) /\ g \o h \in Seq(LineSet)
    <3>. HIDE DEF g, h, r
    <3>1. QED
      BY <2>2, Assoc, ConcatType
  <2>4. got'[d] \o r = got[d] \o toClient[d] /\ got'[d] \in Seq(LineSet)
    BY <2>1, <2>2, <2>3
  <2>5. QED
    BY <2>1, <2>2, <2>4, <1>1, EndKeepsOrder
<1>8. QED
  BY <1>4, <1>5, <1>6, <1>7, SendKeepsOrder, SendFailsKeepsOrder DEF ClientStep

LEMMA NextOrder == OrderBase /\ OrderInv /\ [Next]_vars => OrderInv'
<1> SUFFICES ASSUME OrderBase, OrderInv, [Next]_vars, NEW c \in Clients
             PROVE  OrderAt(c)'
  BY DEF OrderInv
<1>1. Types /\ EndTypes /\ OrderAt(c)
  BY DEF EndTypes, OrderBase, OrderInv, ServerInv, Types
<1>2. CASE ServerStep /\ UNCHANGED clientVars
  BY <1>1, <1>2, ServerStepKeepsOrder
<1>3. ASSUME UNCHANGED <<serverVars, sent, got, clientEnd, toClient, toServer>>
      PROVE  OrderAt(c)'
  <2>1. Echoing(c)' = Echoing(c) /\ pc' = pc
    BY <1>3, EchoingKept DEF serverVars
  <2>2. QED
    BY <2>1, <1>1, <1>3 DEF OrderAt, Lasts, Account, AllSent
<1>4. ASSUME NEW d \in Clients, UNCHANGED serverVars,
             \/ Connect(d) \/ ClientStep(d) \/ User(d)
             \/ ResetArrives(d) /\ UNCHANGED clientVars
      PROVE  OrderAt(c)'
  <2>1. CASE c # d
    <3>1. OnlyOf(d)
      BY <1>1, <1>4, ConnectOrder, ClientStepOrder, OtherStepOrder
    <3>2. QED
      BY <2>1, <3>1, <1>1, OthersKeepOrder
  <2>2. CASE c = d
    <3>1. CASE Connect(d)
      BY <2>2, <3>1, <1>4, ConnectKeepsOrder
    <3>2. CASE ClientStep(d)
      BY <2>2, <3>2, <1>1, <1>4, ClientStepKeepsOrder
    <3>3. CASE User(d)
      BY <3>3, <1>3, <1>4 DEF User, Type, CloseInput, sockVars
    <3>4. CASE ResetArrives(d) /\ UNCHANGED clientVars
      BY <3>4, <1>3, <1>4 DEF ResetArrives, clientVars
    <3>5. QED
      BY <1>4, <3>1, <3>2, <3>3, <3>4
  <2>3. QED
    BY <2>1, <2>2
<1>5. CASE UNCHANGED vars
  BY <1>3, <1>5 DEF vars, sockVars, clientVars
<1>6. CASE Stop
  BY <1>5, <1>6 DEF Stop
<1>7. QED
  BY <1>2, <1>4, <1>5, <1>6 DEF Next

LEMMA InitOrder == Init => OrderInv
<1> SUFFICES ASSUME Init, NEW c \in Clients
             PROVE  OrderAt(c)
  BY DEF OrderInv
<1>1. /\ got[c] = << >> /\ toClient[c] = << >> /\ toServer[c] = << >> /\ Echoing(c) = << >>
      /\ sent[c] = 0
  BY DEF Init, SockInit, ServerInit, ClientsInit, Echoing
<1>2. << >> \in Seq(LineSet) /\ << >> \o << >> = << >>
  BY EmptySeq, ConcatNone
<1>3. AllSent(c) = << >>
  BY <1>1 DEF AllSent
<1>4. Account(c) = << >> /\ (got[c] \o toClient[c]) \o << >> = AllSent(c)
  BY <1>1, <1>2, <1>3 DEF Account
<1>5. QED
  BY <1>2, <1>3, <1>4 DEF OrderAt

\* A beginning, in the sense of the library.
LEMMA BeginningIsPrefix ==
    ASSUME NEW x \in Seq(LineSet), NEW rest \in Seq(LineSet)
    PROVE  IsPrefix(x, x \o rest)
<1> DEFINE y == x \o rest
           n == Len(x)
<1>1. /\ y \in Seq(LineSet) /\ n \in Nat /\ Len(y) = n + Len(rest) /\ Len(rest) \in Nat
      /\ \A i \in 1 .. n : y[i] = x[i]
  BY ConcatProperties
<1>2. Len(x) <= Len(y)
  BY <1>1
<1>3. /\ \A i \in 1 .. n : x[i] \in LineSet /\ y[i] \in LineSet
  BY <1>1, ElementOfSeq
<1>4. /\ SubSeq(x, 1, n) \in Seq(LineSet) /\ Len(SubSeq(x, 1, n)) = n
      /\ \A i \in 1 .. n : SubSeq(x, 1, n)[i] = x[i]
  BY <1>1, <1>3, SubSeqProperties
<1>5. /\ SubSeq(y, 1, n) \in Seq(LineSet) /\ Len(SubSeq(y, 1, n)) = n
      /\ \A i \in 1 .. n : SubSeq(y, 1, n)[i] = y[i]
  <2>. HIDE DEF y
  <2>1. \A i \in 1 .. n : i \in 1 .. Len(y)
    BY <1>1
  <2>2. QED
    BY <1>1, <1>3, <2>1, SubSeqProperties
<1>6. SubSeq(x, 1, n) = SubSeq(y, 1, n)
  BY <1>1, <1>4, <1>5, SeqEqual
<1>7. QED
  BY <1>2, <1>6 DEF IsPrefix

\* No line is lost while its connection lasts, none is doubled, reordered or given
\* to another client.
THEOREM OrderCorrect == Spec => []EchoesInOrder
<1>1. OrderBase /\ OrderInv => EchoesInOrder
  <2> SUFFICES ASSUME OrderBase, OrderInv, NEW c \in Clients
               PROVE  /\ clientEnd[c] \in {"open", "half"} /\ pc # "down" =>
                             got[c] \o toClient[c] \o Echoing(c) \o toServer[c] = AllSent(c)
                      /\ IsPrefix(got[c], AllSent(c))
    BY DEF EchoesInOrder
  <2>1. OrderAt(c) /\ Types
    BY DEF OrderInv, OrderBase, ServerInv
  <2>2. PICK rest \in Seq(LineSet) : (got[c] \o toClient[c]) \o rest = AllSent(c)
    BY <2>1 DEF OrderAt
  <2>3. got[c] \in Seq(LineSet) /\ toClient[c] \in Seq(LineSet)
    BY <2>1, Streams
  <2>4. toClient[c] \o rest \in Seq(LineSet) /\ got[c] \o (toClient[c] \o rest) = AllSent(c)
    <3>1. (got[c] \o toClient[c]) \o rest = got[c] \o (toClient[c] \o rest)
      BY <2>3, Assoc
    <3>2. QED
      BY <2>2, <2>3, <3>1, ConcatType
  <2>5. IsPrefix(got[c], AllSent(c))
    BY <2>3, <2>4, BeginningIsPrefix
  <2>6. QED
    BY <2>1, <2>5 DEF OrderAt, Lasts, Account
<1>2. Init => OrderBase /\ OrderInv
  BY InitServerInv, InitConn, InitOrder DEF OrderBase
<1>3. (OrderBase /\ OrderInv) /\ [Next]_vars => (OrderBase /\ OrderInv)'
  BY NextServerInv, NextConn, NextOrder DEF OrderBase
<1>4. QED
  BY <1>1, <1>2, <1>3, PTL DEF Spec

----------------------------------------------------------------------------
\* The count.

\* From select to the last descriptor, nready is the number of those reported and
\* not served.  The listening one is served first.
CountInv ==
    pc \in {"accept", "slots", "write"} =>
        /\ nready = Cardinality(rset) /\ rset # {}
        /\ listenfd \in rset <=> pc = "accept"
        /\ pc = "write" => client[slot] \in rset

LEMMA SetsFinite ==
    ASSUME ServerInv, pc # "down"
    PROVE  IsFiniteSet(allset)
<1>1. allset \subseteq listenfd .. OPEN_MAX - 1
  BY ServerAssumption DEF ServerInv, SlotsInv, listenfd
<1>2. IsFiniteSet(listenfd .. OPEN_MAX - 1)
  BY FS_Interval, ServerAssumption DEF listenfd
<1>3. QED
  BY <1>1, <1>2, FS_Subset

LEMMA RsetFinite ==
    ASSUME ServerInv, ReadyInv, pc \in {"accept", "slots", "write"}
    PROVE  IsFiniteSet(rset)
<1>1. IsFiniteSet(allset) /\ rset \subseteq allset
  BY SetsFinite DEF ReadyInv
<1>2. QED
  BY <1>1, FS_Subset

\* Each descriptor served is counted down once.
LEMMA ServedCount ==
    ASSUME ServerInv, ReadyInv, CountInv, pc \in {"accept", "slots", "write"},
           NEW fd \in rset, pc = "accept" => fd = listenfd, Served(fd)
    PROVE  CountInv'
<1>1. /\ rset' = rset \ {fd} /\ nready' = nready - 1
      /\ pc' \in {"select", "slots"} /\ (pc' = "slots" => ~(nready' <= 0))
  BY DEF Served, Counted
<1>2. Cardinality(rset \ {fd}) = Cardinality(rset) - 1
  BY RsetFinite, FS_RemoveElement
<1>3. listenfd \notin rset'
  BY <1>1 DEF CountInv
<1>4. nready' = Cardinality(rset')
  BY <1>1, <1>2 DEF CountInv
<1>5. pc' = "slots" => rset' # {}
  BY <1>1, <1>4, FS_EmptySet
<1>6. QED
  BY <1>1, <1>3, <1>4, <1>5 DEF CountInv

LEMMA ServerStepCount ==
    ASSUME OrderBase, CountInv, ServerStep
    PROVE  CountInv'
<1>1. CASE Select
  BY <1>1 DEF Select, CountInv
<1>2. CASE Accept
  <2>1. pc = "accept" /\ Served(listenfd) /\ listenfd \in rset
    BY <1>2 DEF Accept, CountInv
  <2>2. QED
    BY <2>1, ServedCount DEF OrderBase
<1>3. CASE Die
  BY <1>3 DEF Die, CountInv
<1>4. CASE AcceptFails
  <2>1. pc = "accept" /\ (Served(listenfd) \/ Die) /\ listenfd \in rset
    BY <1>4 DEF AcceptFails, CountInv
  <2>2. QED
    BY <2>1, <1>3, ServedCount DEF OrderBase
<1>5. CASE ServeSlot
  <2>1. PICK k \in ReadySlots : CloseSlot(k) \/ ReadFails(k) \/ Read(k)
    BY <1>5 DEF ServeSlot
  <2>2. pc = "slots" /\ client[k] \in rset
    BY <1>5, <2>1 DEF ServeSlot, ReadySlots
  <2>3. CASE Served(client[k])
    BY <2>2, <2>3, ServedCount DEF OrderBase
  <2>4. CASE Read(k)
    BY <2>2, <2>4 DEF Read, CountInv, slotVars
  <2>5. QED
    BY <2>1, <2>3, <2>4 DEF CloseSlot, ReadFails
<1>6. CASE pc = "write" /\ Written
  <2>1. Served(client[slot]) /\ client[slot] \in rset
    BY <1>6 DEF Written, CountInv
  <2>2. QED
    BY <1>6, <2>1, ServedCount DEF OrderBase
<1>7. CASE Echo
  <2>1. CASE UNCHANGED <<pc, slotVars, rset, nready, slot>>
    BY <2>1 DEF CountInv, slotVars
  <2>2. QED
    BY <1>6, <1>7, <2>1 DEF Echo
<1>8. QED
  BY <1>1, <1>2, <1>3, <1>4, <1>5, <1>6, <1>7 DEF ServerStep, EchoLost, EchoFails

LEMMA NextCount == OrderBase /\ CountInv /\ [Next]_vars => CountInv'
<1> SUFFICES ASSUME OrderBase, CountInv, [Next]_vars
             PROVE  CountInv'
  OBVIOUS
<1>1. CASE ServerStep
  BY <1>1, ServerStepCount
<1>2. CASE UNCHANGED serverVars
  BY <1>2 DEF serverVars, CountInv
<1>3. QED
  BY <1>1, <1>2 DEF Next, Stop, vars

\* The slots still to serve are those of the reported descriptors.
LEMMA SlotsOfReported ==
    ASSUME OrderBase, CountInv, pc \in {"slots", "write"}
    PROVE  Cardinality(ReadySlots) = Cardinality(rset)
<1> DEFINE f == [k \in ReadySlots |-> client[k]]
<1>1. ServerTypes /\ SlotsInv
  BY DEF OrderBase, ServerInv, Types
<1>2. ReadySlots \subseteq Slots
  BY <1>1, ServerAssumption DEF ReadySlots, ServerTypes, Slots
<1>3. \A k \in ReadySlots : f[k] = client[k] /\ f[k] \in rset /\ client[k] >= 0
  BY DEF ReadySlots
<1>4. \A k, l \in ReadySlots : f[k] = f[l] => k = l
  BY <1>1, <1>2, <1>3 DEF SlotsInv
<1>5. ASSUME NEW fd \in rset PROVE \E k \in ReadySlots : f[k] = fd
  <2>1. fd \in DOMAIN sock
    BY <1>1, <1>5 DEF OrderBase, ReadyInv, CountInv, SlotsInv
  <2>2. PICK k \in Slots : client[k] = fd
    BY <1>1, <2>1 DEF SlotsInv
  <2>3. fd \in listenfd + 1 .. OPEN_MAX - 1
    BY <1>1, <2>1 DEF SlotsInv
  <2>4. client[k] >= 0
    BY <2>2, <2>3, ServerAssumption DEF listenfd
  <2>5. k <= maxi /\ k \in 0 .. maxi
    BY <1>1, <2>2, <2>4, ServerAssumption DEF SlotsInv, Slots, ServerTypes
  <2>6. k \in ReadySlots
    BY <1>5, <2>2, <2>4, <2>5 DEF ReadySlots
  <2>7. QED
    BY <2>2, <2>6
<1>6. f \in Bijection(ReadySlots, rset)
  <2>1. f \in [ReadySlots -> rset]
    BY <1>3
  <2>. HIDE DEF f
  <2>2. QED
    BY <1>4, <1>5, <2>1, Fun_IsBij
<1>7. IsFiniteSet(ReadySlots)
  <2>1. IsFiniteSet(Slots)
    BY FS_Interval, ServerAssumption DEF Slots
  <2>2. QED
    BY <1>2, <2>1, FS_Subset
<1>8. ExistsBijection(ReadySlots, rset)
  BY <1>6 DEF ExistsBijection
<1>9. QED
  BY <1>7, <1>8, FS_Bijection

LEMMA OrderBaseInvariance == Spec => []OrderBase
<1>1. Init => OrderBase
  BY InitServerInv, InitConn DEF OrderBase
<1>2. OrderBase /\ [Next]_vars => OrderBase'
  BY NextServerInv, NextConn DEF OrderBase
<1>3. QED
  BY <1>1, <1>2, PTL DEF Spec

\* In the loop over the slots the count is that of the reported clients not served.
THEOREM CountCorrect == Spec => []NreadyCountsReady
<1>1. OrderBase /\ CountInv => NreadyCountsReady
  <2> SUFFICES ASSUME OrderBase, CountInv, pc \in {"slots", "write"}
               PROVE  nready = Cardinality(ReadySlots) /\ nready > 0
    BY DEF NreadyCountsReady
  <2>1. nready = Cardinality(rset) /\ rset # {}
    BY DEF CountInv
  <2>2. IsFiniteSet(rset)
    BY RsetFinite DEF OrderBase
  <2>3. Cardinality(rset) \in Nat /\ Cardinality(rset) # 0
    BY <2>1, <2>2, FS_EmptySet, FS_CardinalityType
  <2>4. QED
    BY <2>1, <2>3, SlotsOfReported
<1>2. Init => OrderBase /\ CountInv
  BY InitServerInv, InitConn DEF OrderBase, Init, ServerInit, CountInv
<1>3. (OrderBase /\ CountInv) /\ [Next]_vars => (OrderBase /\ CountInv)'
  BY NextServerInv, NextConn, NextCount DEF OrderBase
<1>4. QED
  BY <1>1, <1>2, <1>3, PTL DEF Spec

----------------------------------------------------------------------------
\* What ends the server.

\* What a client has printed and the server may still echo to it.
Kept(c) == Len(got[c]) + Len(Echoing(c)) + Len(toServer[c])

(***************************************************************************)
(* While the server holds a connection whose client is gone, that client   *)
(* is a writeClient that returned.  It does not get more than it sent, and *)
(* less once the connection is being reset: echoes it left unread, or what *)
(* was written to it after it left, are lost.                              *)
(***************************************************************************)
LeftAt(c) ==
    Gone(c) /\ serverEnd[c] # "closed" /\ pc # "down" =>
        /\ c \in WriteClients
        /\ Kept(c) <= sent[c]
        /\ reset[c] # "none" => Kept(c) < sent[c]

LeftInv == \A c \in Clients : LeftAt(c)

LEMMA KeptLengths ==
    ASSUME Types, NEW c \in Clients
    PROVE  /\ Len(got[c]) \in Nat /\ Len(Echoing(c)) \in Nat /\ Len(toServer[c]) \in Nat
           /\ Len(toClient[c]) \in Nat /\ sent[c] \in Nat /\ Kept(c) \in Nat
<1>1. /\ got[c] \in Seq(LineSet) /\ Echoing(c) \in Seq(LineSet) /\ toServer[c] \in Seq(LineSet)
      /\ toClient[c] \in Seq(LineSet)
  BY Streams
<1>2. \A q \in Seq(LineSet) : Len(q) \in Nat
  OBVIOUS
<1>3. \A i, j, n \in Nat : i + j + n \in Nat
  OBVIOUS
<1>4. Kept(c) \in Nat
  BY <1>1, <1>2, <1>3 DEF Kept
<1>5. QED
  BY <1>1, <1>2, <1>4 DEF Types, ClientTypes

\* What a step of the server may do to a connection whose client is gone.
KeepsLeft(c) ==
    /\ Kept(c)' \in Nat /\ Kept(c)' <= Kept(c)
    /\ reset'[c] # "none" => reset[c] # "none" \/ Kept(c)' < Kept(c)
    /\ serverEnd[c] = "closed" => serverEnd'[c] = "closed"

LEMMA LeftFromServer ==
    ASSUME OrderBase, pc # "down", UNCHANGED <<clientVars, clientEnd>>, NEW c \in Clients, LeftAt(c),
           Gone(c) => KeepsLeft(c)
    PROVE  LeftAt(c)'
<1>1. sent' = sent /\ (Gone(c)' <=> Gone(c))
  BY DEF clientVars, Gone
<1>2. Kept(c) \in Nat /\ sent[c] \in Nat
  BY KeptLengths DEF OrderBase, ServerInv
<1>3. QED
  BY <1>1, <1>2 DEF LeftAt, KeepsLeft

\* Before and after the step the server is not writing.
LEMMA QuietLeft ==
    ASSUME OrderBase, pc # "write", pc' # "write", UNCHANGED <<clientVars, toServer>>,
           NEW c \in Clients,
           reset'[c] # "none" => reset[c] # "none",
           serverEnd[c] = "closed" => serverEnd'[c] = "closed"
    PROVE  KeepsLeft(c)
<1>1. Echoing(c)' = Echoing(c) /\ got' = got
  BY DEF Echoing, clientVars
<1>2. Kept(c)' = Kept(c) /\ Kept(c) \in Nat
  BY <1>1, KeptLengths DEF Kept, OrderBase, ServerInv
<1>3. QED
  BY <1>2 DEF KeepsLeft

\* A read only moves lines.
LEMMA ReadLeft ==
    ASSUME OrderBase, pc = "slots", NEW k \in ReadySlots, Read(k), UNCHANGED clientVars,
           NEW c \in Clients
    PROVE  KeepsLeft(c)
<1> DEFINE d == sock[client[k]]
           q == toServer[c]
<1>1. /\ buf' = Taken(toServer[d], MAXLINE)
      /\ toServer' = [toServer EXCEPT ![d] = Rest(@, MAXLINE)]
      /\ slot' = k /\ pc' = "write"
      /\ UNCHANGED <<client, sock, serverEnd, reset, got>>
  BY DEF Read, slotVars, clientVars
<1>2. Types /\ d \in Clients /\ Peer(slot)' = d /\ Echoing(c) = << >> /\ Len(<< >>) = 0
  BY <1>1, SlotConnected, EmptySeq DEF OrderBase, ServerInv, Echoing, Peer
<1>3. Kept(c)' = Kept(c)
  <2>1. CASE c = d
    <3>1. Echoing(c)' = Taken(q, MAXLINE) /\ toServer'[c] = Rest(q, MAXLINE)
      BY <1>1, <1>2, <2>1 DEF Echoing, Types, SocketTypes
    <3>2. /\ Len(Taken(q, MAXLINE)) + Len(Rest(q, MAXLINE)) = Len(q)
          /\ Len(Taken(q, MAXLINE)) \in Nat /\ Len(Rest(q, MAXLINE)) \in Nat
      BY <1>2, Streams, TakenLengths, SocketsAssumption
    <3>3. Kept(c)' = Len(got[c]) + Len(Taken(q, MAXLINE)) + Len(Rest(q, MAXLINE))
      BY <1>1, <3>1 DEF Kept
    <3>4. Kept(c) = Len(got[c]) + 0 + Len(q) /\ Len(got[c]) \in Nat
      BY <1>2, KeptLengths DEF Kept
    <3>5. \A n, i, j \in Nat : n + i + j = n + 0 + (i + j)
      OBVIOUS
    <3>6. Kept(c) = Len(got[c]) + 0 + (Len(Taken(q, MAXLINE)) + Len(Rest(q, MAXLINE)))
      BY <3>2, <3>4
    <3>7. Len(got[c]) + Len(Taken(q, MAXLINE)) + Len(Rest(q, MAXLINE))
          = Len(got[c]) + 0 + (Len(Taken(q, MAXLINE)) + Len(Rest(q, MAXLINE)))
      BY <3>2, <3>4, <3>5
    <3>8. QED
      BY <3>3, <3>6, <3>7
  <2>2. CASE c # d
    BY <1>1, <1>2, <2>2 DEF Kept, Echoing, Types, SocketTypes
  <2>3. QED
    BY <2>1, <2>2
<1>4. Kept(c) \in Nat
  BY <1>2, KeptLengths
<1>5. QED
  BY <1>1, <1>3, <1>4 DEF KeepsLeft

\* The write is over: what it was to echo to a client that is gone, is lost.
LEMMA WrittenLeft ==
    ASSUME OrderBase, pc = "write", Written, UNCHANGED <<clientVars, serverEnd, toServer>>,
           NEW c \in Clients, reset'[c] # "none" => reset[c] # "none" \/ c = Peer(slot)
    PROVE  KeepsLeft(c)
<1>1. Echoing(c)' = << >> /\ Len(<< >>) = 0 /\ got' = got /\ Types
  BY EmptySeq DEF Written, Served, Echoing, clientVars, OrderBase, ServerInv
<1>2. /\ Len(got[c]) \in Nat /\ Len(Echoing(c)) \in Nat /\ Len(toServer[c]) \in Nat
      /\ Kept(c) \in Nat
  BY <1>1, KeptLengths
<1>3. Kept(c)' = Len(got[c]) + 0 + Len(toServer[c])
  BY <1>1 DEF Kept
<1>4. \A n, i, j \in Nat : /\ n + 0 + j \in Nat /\ n + 0 + j <= n + i + j
                           /\ i # 0 => n + 0 + j < n + i + j
  OBVIOUS
<1>5. /\ Kept(c)' \in Nat /\ Kept(c)' <= Kept(c)
      /\ Len(Echoing(c)) # 0 => Kept(c)' < Kept(c)
  BY <1>2, <1>3, <1>4 DEF Kept
<1>6. c = Peer(slot) => Len(Echoing(c)) # 0
  <2>1. buf # << >> /\ buf \in Seq(LineSet)
    BY DEF OrderBase, ServerInv, WriteInv, Types, ServerTypes
  <2>2. Len(buf) # 0
    BY <2>1, EmptySeq
  <2>3. QED
    BY <2>2 DEF Echoing
<1>7. QED
  BY <1>5, <1>6 DEF KeepsLeft

LEMMA EchoLeft ==
    ASSUME OrderBase, Echo, UNCHANGED clientVars, NEW c \in Clients, Gone(c)
    PROVE  KeepsLeft(c)
<1>1. /\ pc = "write" /\ ~Gone(Peer(slot)) /\ UNCHANGED <<serverEnd, toServer, reset>>
      /\ Written \/ UNCHANGED <<pc, slotVars, rset, nready, slot>>
  BY DEF Echo
<1>2. CASE Written
  BY <1>1, <1>2, WrittenLeft
<1>3. CASE UNCHANGED <<pc, slotVars, rset, nready, slot>>
  <2>1. Peer(slot)' = Peer(slot) /\ c # Peer(slot)
    BY <1>1, <1>3 DEF Peer, slotVars
  <2>2. Echoing(c)' = Echoing(c) /\ got' = got
    BY <2>1 DEF Echoing, clientVars
  <2>3. Kept(c)' = Kept(c) /\ Kept(c) \in Nat
    BY <2>2, <1>1, KeptLengths DEF Kept, OrderBase, ServerInv
  <2>4. QED
    BY <1>1, <2>3 DEF KeepsLeft
<1>4. QED
  BY <1>1, <1>2, <1>3

LEMMA ServerStepLeft ==
    ASSUME OrderBase, LeftInv, ServerStep, UNCHANGED clientVars
    PROVE  LeftInv'
<1> SUFFICES ASSUME NEW c \in Clients
             PROVE  LeftAt(c)'
  BY DEF LeftInv
<1>1. Types /\ LeftAt(c) /\ reset \in [Clients -> {"none", "due", "raised", "reported"}]
  BY DEF OrderBase, ServerInv, LeftInv, ConnInv
<1>2. ASSUME pc # "down", UNCHANGED clientEnd, Gone(c) => KeepsLeft(c) PROVE LeftAt(c)'
  BY <1>1, <1>2, LeftFromServer
<1>3. CASE Die
  BY <1>3 DEF Die, LeftAt
<1>4. CASE Select
  BY <1>2, <1>4, QuietLeft DEF Select, sockVars
<1>5. CASE Accept
  <2>1. /\ pc = "accept" /\ pc' \in {"select", "slots"} /\ backlog # << >>
        /\ serverEnd' = [serverEnd EXCEPT ![Head(backlog)] = "open"]
        /\ UNCHANGED <<clientEnd, toServer, reset>>
    BY <1>5 DEF Accept, Served, OrderBase, ServerInv, QueueInv
  <2>2. Head(backlog) = backlog[1] /\ 1 \in 1 .. Len(backlog)
    BY <1>1, <2>1, HeadTailProperties, EmptySeq DEF Types, SocketTypes
  <2>3. serverEnd[Head(backlog)] = "queued"
    BY <2>2 DEF OrderBase, ServerInv, QueueInv
  <2>4. serverEnd[c] = "closed" => serverEnd'[c] = "closed"
    BY <1>1, <2>1, <2>3 DEF Types, SocketTypes
  <2>5. QED
    BY <1>2, <2>1, <2>4, QuietLeft
<1>6. CASE AcceptFails
  BY <1>2, <1>3, <1>6, QuietLeft DEF AcceptFails, Served, sockVars
<1>7. CASE ServeSlot
  <2>1. PICK k \in ReadySlots : CloseSlot(k) \/ ReadFails(k) \/ Read(k)
    BY <1>7 DEF ServeSlot
  <2>2. pc = "slots"
    BY <1>7 DEF ServeSlot
  <2>3. sock[client[k]] \in Clients
    BY <2>2, SlotConnected DEF OrderBase
  <2>4. CASE CloseSlot(k)
    <3>1. /\ pc' \in {"select", "slots"} /\ UNCHANGED <<clientEnd, toServer>>
          /\ serverEnd' = [serverEnd EXCEPT ![sock[client[k]]] = "closed"]
          /\ reset' = [reset EXCEPT ![sock[client[k]]] = "none"]
      BY <2>4 DEF CloseSlot, Served
    <3>2. /\ serverEnd[c] = "closed" => serverEnd'[c] = "closed"
          /\ reset'[c] # "none" => reset[c] # "none"
      BY <1>1, <2>3, <3>1 DEF Types, SocketTypes
    <3>3. QED
      BY <1>2, <2>2, <3>1, <3>2, QuietLeft
  <2>5. CASE ReadFails(k)
    <3>1. /\ pc' \in {"select", "slots"} /\ UNCHANGED <<clientEnd, toServer, serverEnd>>
          /\ reset' = [reset EXCEPT ![sock[client[k]]] = "reported"]
          /\ reset[sock[client[k]]] = "raised"
      BY <2>5 DEF ReadFails, Served
    <3>2. reset'[c] # "none" => reset[c] # "none"
      BY <1>1, <2>3, <3>1
    <3>3. QED
      BY <1>2, <2>2, <3>1, <3>2, QuietLeft
  <2>6. CASE Read(k)
    BY <1>2, <2>2, <2>6, ReadLeft DEF Read
  <2>7. QED
    BY <2>1, <2>4, <2>5, <2>6
<1>8. CASE Echo
  BY <1>2, <1>8, EchoLeft DEF Echo
<1>9. ASSUME pc = "write", Written, UNCHANGED <<clientEnd, serverEnd, toServer>>,
             NEW how, reset' = [reset EXCEPT ![Peer(slot)] = how]
      PROVE  LeftAt(c)'
  <2>1. reset'[c] # "none" => reset[c] # "none" \/ c = Peer(slot)
    BY <1>1, <1>9
  <2>2. QED
    BY <1>2, <1>9, <2>1, WrittenLeft
<1>10. CASE EchoLost
  BY <1>9, <1>10 DEF EchoLost
<1>11. CASE EchoFails
  BY <1>3, <1>9, <1>11 DEF EchoFails
<1>12. QED
  BY <1>4, <1>5, <1>6, <1>7, <1>8, <1>10, <1>11 DEF ServerStep

\* A writeClient returns: the echoes it leaves unread are lost.
LEMMA WriteReturnLeft ==
    ASSUME OrderBase, OrderInv, NEW d \in WriteClients, WriteReturn(d), UNCHANGED serverVars
    PROVE  LeftAt(d)'
<1> DEFINE h == Taken(toClient[d], 1)
           r == Rest(toClient[d], 1)
<1>1. Types /\ d \in Clients /\ ConnAt(d)
  BY DEF OrderBase, ServerInv, ConnInv, Clients
<1>2. /\ cpc[d] = "loop" /\ UNCHANGED <<sent, serverEnd, toServer, pc>>
      /\ got'[d] = got[d] \o h
      /\ r = << >> => reset'[d] = reset[d]
  BY <1>1 DEF WriteReturn, Types, ClientTypes, serverVars, OrderBase, ConnInv
<1>3. clientEnd[d] \in {"open", "half"} /\ reset[d] = "none"
  BY <1>1, <1>2 DEF ConnAt, Gone
<1>4. Echoing(d)' = Echoing(d)
  BY <1>1, EchoingKept
<1>5. /\ got[d] \in Seq(LineSet) /\ toClient[d] \in Seq(LineSet) /\ Echoing(d) \in Seq(LineSet)
      /\ toServer[d] \in Seq(LineSet) /\ sent[d] \in Nat
  BY <1>1, Streams DEF Types, ClientTypes
<1>6. /\ h \in Seq(LineSet) /\ r \in Seq(LineSet)
      /\ Len(h) \in Nat /\ Len(r) \in Nat /\ Len(h) + Len(r) = Len(toClient[d])
      /\ r # << >> => Len(r) # 0
  BY <1>5, TakenRest, TakenLengths, EmptySeq
<1>7. Len(got'[d]) = Len(got[d]) + Len(h)
  BY <1>2, <1>5, <1>6, ConcatProperties
<1>8. ASSUME pc # "down"
      PROVE  Len(got[d]) + Len(toClient[d]) + Len(Echoing(d)) + Len(toServer[d]) = sent[d]
  <2>1. got[d] \o toClient[d] \o Echoing(d) \o toServer[d] = AllSent(d)
    BY <1>1, <1>3, <1>8 DEF OrderInv, OrderAt, Lasts, Account
  <2>2. Len(AllSent(d)) = sent[d]
    BY <1>5 DEF AllSent
  <2>3. \A x, y \in Seq(LineSet) : x \o y \in Seq(LineSet) /\ Len(x \o y) = Len(x) + Len(y)
    BY ConcatProperties
  <2>4. Len(got[d] \o toClient[d] \o Echoing(d) \o toServer[d])
        = Len(got[d]) + Len(toClient[d]) + Len(Echoing(d)) + Len(toServer[d])
    <3> DEFINE x == got[d]
               y == toClient[d]
               z == Echoing(d)
               v == toServer[d]
    <3>1. x \in Seq(LineSet) /\ y \in Seq(LineSet) /\ z \in Seq(LineSet) /\ v \in Seq(LineSet)
      BY <1>5
    <3>. HIDE DEF x, y, z, v
    <3>2. x \o y \in Seq(LineSet) /\ Len(x \o y) = Len(x) + Len(y)
      BY <2>3, <3>1
    <3>3. (x \o y) \o z \in Seq(LineSet) /\ Len((x \o y) \o z) = Len(x \o y) + Len(z)
      BY <2>3, <3>1, <3>2
    <3>4. Len(((x \o y) \o z) \o v) = Len((x \o y) \o z) + Len(v)
      BY <2>3, <3>1, <3>3
    <3>5. Len(x \o y \o z \o v) = Len(x) + Len(y) + Len(z) + Len(v)
      BY <3>2, <3>3, <3>4
    <3>6. QED
      BY <3>5 DEF x, y, z, v
  <2>5. QED
    BY <2>1, <2>2, <2>4
<1>9. ASSUME pc # "down"
      PROVE  Kept(d)' + Len(r) = sent[d] /\ Kept(d)' \in Nat
  <2> DEFINE n == Len(got[d])
             i == Len(h)
             j == Len(r)
             k == Len(Echoing(d))
             m == Len(toServer[d])
  <2>1. Kept(d)' = (n + i) + k + m
    BY <1>2, <1>4, <1>7 DEF Kept
  <2>2. n + (i + j) + k + m = sent[d]
    BY <1>6, <1>8, <1>9
  <2>3. n \in Nat /\ i \in Nat /\ j \in Nat /\ k \in Nat /\ m \in Nat
    BY <1>1, <1>6, KeptLengths
  <2>4. (n + i) + k + m + j = n + (i + j) + k + m /\ (n + i) + k + m \in Nat
    <3>. HIDE DEF n, i, j, k, m
    <3>1. QED
      BY <2>3
  <2>5. QED
    BY <2>1, <2>2, <2>4
<1>10. ASSUME pc # "down"
       PROVE  Kept(d)' <= sent[d] /\ (Len(r) # 0 => Kept(d)' < sent[d])
  BY <1>6, <1>9, <1>10
<1>11. QED
  BY <1>2, <1>3, <1>6, <1>10 DEF LeftAt

LEMMA ClientStepLeft ==
    ASSUME OrderBase, OrderInv, LeftInv, NEW d \in Clients, ClientStep(d), UNCHANGED serverVars
    PROVE  LeftAt(d)'
<1>1. Types /\ ConnAt(d) /\ EndTypes
  BY DEF OrderBase, ServerInv, ConnInv, Types, EndTypes
<1>2. ConnAt(d)'
  BY <1>1, ClientStepOrder DEF ClientAt
<1>3. ASSUME cpc'[d] \in {"loop", "send"} PROVE LeftAt(d)'
  BY <1>2, <1>3 DEF ConnAt, LeftAt, Gone
<1>4. ASSUME serverEnd[d] = "closed", serverEnd' = serverEnd PROVE LeftAt(d)'
  BY <1>4 DEF LeftAt
<1>5. CASE Send(d)
  BY <1>1, <1>3, <1>5 DEF Send, Types, ClientTypes
<1>6. CASE SendFails(d)
  BY <1>4, <1>6 DEF SendFails, End, CloseClient, sockVars
<1>7. CASE ShutEnd(d) \/ WriteEnd(d)
  BY <1>4, <1>7 DEF ShutEnd, WriteEnd, EndOfEchoes, SocketReady, ClientReadable, End, CloseClient
<1>8. CASE ShutLoop(d) \/ WriteLoop(d)
  BY <1>1, <1>3, <1>8 DEF ShutLoop, WriteLoop, Types, ClientTypes
<1>9. CASE d \in WriteClients /\ WriteReturn(d)
  BY <1>9, WriteReturnLeft
<1>10. QED
  BY <1>5, <1>6, <1>7, <1>8, <1>9 DEF ClientStep

LEMMA NextLeft == OrderBase /\ OrderInv /\ LeftInv /\ [Next]_vars => LeftInv'
<1> SUFFICES ASSUME OrderBase, OrderInv, LeftInv, [Next]_vars
             PROVE  LeftInv'
  OBVIOUS
<1>1. Types /\ EndTypes
  BY DEF EndTypes, OrderBase, ServerInv, Types
<1>2. CASE ServerStep /\ UNCHANGED clientVars
  BY <1>2, ServerStepLeft
<1>3. ASSUME NEW d \in Clients, UNCHANGED serverVars, NEW c \in Clients,
             sent'[c] = sent[c], got'[c] = got[c], clientEnd'[c] = clientEnd[c],
             serverEnd'[c] = serverEnd[c], toServer'[c] = toServer[c],
             reset'[c] # "none" => reset[c] # "none"
      PROVE  LeftAt(c)'
  <2>1. Echoing(c)' = Echoing(c) /\ pc' = pc /\ LeftAt(c)
    BY <1>3, EchoingKept DEF serverVars, LeftInv
  <2>2. Kept(c)' = Kept(c)
    BY <1>3, <2>1 DEF Kept
  <2>3. QED
    BY <1>3, <2>1, <2>2 DEF LeftAt, Gone
<1>4. ASSUME NEW d \in Clients, UNCHANGED serverVars,
             \/ Connect(d) \/ ClientStep(d) \/ User(d)
             \/ ResetArrives(d) /\ UNCHANGED clientVars
      PROVE  LeftInv'
  <2>1. OnlyOf(d)
    BY <1>1, <1>4, ConnectOrder, ClientStepOrder, OtherStepOrder
  <2>2. ASSUME NEW c \in Clients \ {d} PROVE LeftAt(c)'
    BY <1>3, <2>1, <2>2 DEF OnlyOf
  <2>3. LeftAt(d)'
    <3>1. CASE Connect(d)
      BY <1>1, <3>1 DEF Connect, Establish, LeftAt, Gone, Types, SocketTypes
    <3>2. CASE ClientStep(d)
      BY <1>4, <3>2, ClientStepLeft
    <3>3. CASE User(d)
      BY <1>3, <1>4, <3>3 DEF User, Type, CloseInput, sockVars
    <3>4. CASE ResetArrives(d) /\ UNCHANGED clientVars
      BY <1>3, <1>4, <3>4 DEF ResetArrives, clientVars
    <3>5. QED
      BY <1>4, <3>1, <3>2, <3>3, <3>4
  <2>4. QED
    BY <2>2, <2>3 DEF LeftInv
<1>5. CASE UNCHANGED vars
  <2>1. UNCHANGED <<serverVars, sockVars, clientVars>>
    BY <1>5 DEF vars
  <2>2. UNCHANGED <<sent, got, clientEnd, serverEnd, toServer, reset>>
    BY <2>1 DEF sockVars, clientVars
  <2>3. QED
    BY <1>3, <2>1, <2>2 DEF LeftInv
<1>6. CASE Stop
  BY <1>5, <1>6 DEF Stop
<1>7. QED
  BY <1>2, <1>4, <1>5, <1>6 DEF Next

\* Only a writeClient that returned before it had all its echoes ends the server, or
\* the lack of descriptors.  A shutClient never does.
THEOREM EndCorrect == Spec => OnlyLeaversEndServer
<1> DEFINE Ends == pc # "down" /\ pc' = "down" =>
          \/ pc = "accept" /\ FreeDescriptors = {}
          \/ /\ pc = "write"
             /\ LET c == Peer(slot)
                IN  /\ c \in WriteClients /\ Ended(c)
                    /\ Len(got[c]) + Len(buf) + Len(toServer[c]) < sent[c]
           Inv == OrderBase /\ OrderInv /\ LeftInv
<1>1. Init => Inv
  <2>1. Init => LeftInv
    BY DEF Init, SockInit, LeftInv, LeftAt, Gone
  <2>2. QED
    BY <2>1, InitServerInv, InitConn, InitOrder DEF OrderBase
<1>2. Inv /\ [Next]_vars => Inv'
  BY NextServerInv, NextConn, NextOrder, NextLeft DEF OrderBase
<1>3. Inv /\ [Next]_vars => [Ends]_vars
  <2> SUFFICES ASSUME Inv, [Next]_vars, pc # "down", pc' = "down"
               PROVE  \/ pc = "accept" /\ FreeDescriptors = {}
                      \/ /\ pc = "write"
                         /\ Peer(slot) \in WriteClients /\ Ended(Peer(slot))
                         /\ Len(got[Peer(slot)]) + Len(buf) + Len(toServer[Peer(slot)])
                              < sent[Peer(slot)]
    OBVIOUS
  <2>1. AcceptFails \/ EchoFails
    BY DEF Next, Stop, vars, serverVars, ServerStep, Select, Accept, ServeSlot, CloseSlot,
       ReadFails, Read, Served, Echo, EchoLost, Written
  <2>2. CASE AcceptFails
    BY <2>2 DEF AcceptFails
  <2>3. CASE EchoFails
    <3> DEFINE c == Peer(slot)
    <3>1. pc = "write" /\ reset[c] \in {"raised", "reported"}
      BY <2>3 DEF EchoFails
    <3>2. c \in Clients /\ serverEnd[c] = "open"
      BY <3>1, WriterConnected DEF OrderBase, ServerInv, SlotsInv
    <3>3. ConnAt(c) /\ LeftAt(c) /\ cpc[c] \in {"idle", "loop", "send", "returned", "terminated", "killed"}
      BY <3>2 DEF OrderBase, ConnInv, LeftInv, ServerInv, Types, ClientTypes
    <3>4. Gone(c) /\ Ended(c)
      BY <3>1, <3>3 DEF ConnAt, Gone, Ended
    <3>5. c \in WriteClients /\ Kept(c) < sent[c]
      BY <3>1, <3>2, <3>3, <3>4 DEF LeftAt
    <3>6. Echoing(c) = buf
      BY <3>1 DEF Echoing
    <3>7. QED
      BY <3>1, <3>4, <3>5, <3>6 DEF Kept
  <2>4. QED
    BY <2>1, <2>2, <2>3
<1>4. QED
  BY <1>1, <1>2, <1>3, PTL DEF Spec, OnlyLeaversEndServer

============================================================================
