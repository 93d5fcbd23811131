----------------------------- MODULE EchoSystem -----------------------------
(***************************************************************************)
(* The echo server with its clients: servertest.c, shutClient.c and        *)
(* writeClient.c of src/network_c_linux as processes that interleave       *)
(* freely.                                                                 *)
(***************************************************************************)
EXTENDS EchoServer, EchoClients

vars == <<sockVars, serverVars, clientVars>>

Init == SockInit /\ ServerInit /\ ClientsInit

\* Everybody is done, and the server waits or is gone; users are not held to anything.
Stop ==
    /\ pc = "down" \/ (pc = "select" /\ ReadyNow = {})
    /\ \A c \in Clients : cpc[c] = "idle" \/ Ended(c)
    /\ UNCHANGED vars

Next ==
    \/ ServerStep /\ UNCHANGED clientVars
    \/ \E c \in Clients :
          \/ pc # "down" /\ Connect(c) /\ UNCHANGED serverVars
          \/ ClientStep(c) /\ UNCHANGED serverVars
          \/ User(c) /\ UNCHANGED serverVars
          \/ ResetArrives(c) /\ UNCHANGED <<serverVars, clientVars>>
    \/ Stop

Spec == Init /\ [][Next]_vars

(***************************************************************************)
(* Processes that can take a step are scheduled.  Users may stop typing    *)
(* without closing the input, and need not connect; a reset may get lost.  *)
(***************************************************************************)
Fairness ==
    /\ WF_vars(ServerStep /\ UNCHANGED clientVars)
    /\ \A c \in Clients : WF_vars(ClientStep(c) /\ UNCHANGED serverVars)

FairSpec == Spec /\ Fairness

----------------------------------------------------------------------------
\* Properties.

UsedSlots == {k \in Slots : client[k] >= 0}

(***************************************************************************)
(* client[], allset and the open connections tell the same story: each     *)
(* open descriptor is in exactly one slot, at or below maxi, and in the    *)
(* set that select gets, at or below maxfd.  With the descriptors there    *)
(* are, a slot is free for every connection that can be accepted, so the   *)
(* exit of lines 64 to 67 is never taken.                                  *)
(***************************************************************************)
SlotsMatchConnections ==
    pc # "down" =>
        /\ \A k, l \in UsedSlots : client[k] = client[l] => k = l
        /\ {client[k] : k \in UsedSlots} = DOMAIN sock
        /\ allset = DOMAIN sock \cup {listenfd}
        /\ \A k \in UsedSlots : k <= maxi /\ client[k] <= maxfd
        /\ Range(sock) = {c \in Clients : serverEnd[c] = "open"}
        /\ \A fd, gd \in DOMAIN sock : sock[fd] = sock[gd] => fd = gd
        /\ FreeSlots # {}

(***************************************************************************)
(* In the loop over the slots nready is the number of reported descriptors *)
(* still to serve, although a new connection was counted too and slots     *)
(* empty on the way: the loop neither stops before a ready client nor goes *)
(* on for nothing.                                                         *)
(***************************************************************************)
NreadyCountsReady ==
    pc \in {"slots", "write"} => nready = Cardinality(ReadySlots) /\ nready > 0

Echoing(c) == IF pc = "write" /\ Peer(slot) = c THEN buf ELSE << >>

AllSent(c) == [n \in 1 .. sent[c] |-> Line(c, n)]

(***************************************************************************)
(* While a connection lasts no line is lost, doubled, reordered or given   *)
(* to another client: what a client sent is what it has got, what is on    *)
(* its way back, in the server, and on its way there, in this order.  What *)
(* a client prints is always the beginning of what it sent.                *)
(***************************************************************************)
EchoesInOrder ==
    \A c \in Clients :
        /\ clientEnd[c] \in {"open", "half"} /\ pc # "down" =>
              got[c] \o toClient[c] \o Echoing(c) \o toServer[c] = AllSent(c)
        /\ IsPrefix(got[c], AllSent(c))

(***************************************************************************)
(* The server in a write and a client in its Writen never wait for each    *)
(* other: the clients read before they send, so what is under way cannot   *)
(* fill both directions.  (One such client would stop the server for all.) *)
(***************************************************************************)
NoStandoff ==
    pc = "write" =>
        LET c == Peer(slot)
        IN  ~(/\ ~Gone(c) /\ Len(toClient[c]) = DownRoom
              /\ cpc[c] = "send" /\ Len(toServer[c]) = UpRoom)

(***************************************************************************)
(* Only two things end the server: a writeClient that returned before it   *)
(* had all its echoes, while more of its lines were still to be echoed; or *)
(* the lack of descriptors, if the build checks FD_SET.  A shutClient,     *)
(* however it interleaves, never does.                                     *)
(***************************************************************************)
OnlyLeaversEndServer ==
    [][pc # "down" /\ pc' = "down" =>
          \/ pc = "accept" /\ FreeDescriptors = {}
          \/ /\ pc = "write"
             /\ LET c == Peer(slot)
                IN  /\ c \in WriteClients /\ Ended(c)
                    /\ Len(got[c]) + Len(buf) + Len(toServer[c]) < sent[c]]_vars

\* writeClients have every descriptor: they go on, or they left and the server has
\* not been told.
HeldByWriters ==
    \A fd \in listenfd + 1 .. OPEN_MAX - 1 :
        /\ fd \in DOMAIN sock /\ sock[fd] \in WriteClients
        /\ ~Ended(sock[fd]) \/ reset[sock[fd]] = "due"

(***************************************************************************)
(* A shutClient gets the echo of its whole file and returns, however       *)
(* slowly others type, whenever they leave and however they interleave,    *)
(* with two exceptions: the server ends, or it is never accepted, since    *)
(* users of writeClients keep every descriptor.                            *)
(***************************************************************************)
ShutClientsComplete ==
    <>[](\A c \in ShutClients :
            \/ cpc[c] = "idle"
            \/ cpc[c] = "returned" /\ got[c] = [n \in 1 .. Lines[c] |-> Line(c, n)]
            \/ serverEnd[c] = "queued" /\ HeldByWriters
            \/ pc = "down")

===========================================================================
