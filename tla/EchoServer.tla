----------------------------- MODULE EchoServer -----------------------------
(***************************************************************************)
(* servertest.c of src/network_c_linux: one process serves all clients     *)
(* with select.  Other processes may run when it is at select, before it   *)
(* accepts, before each read, and when a write does not fit.               *)
(*                                                                         *)
(* The loop over the slots goes up and never looks back, so rset and the   *)
(* slot number together are the reported descriptors it has not passed:    *)
(* that is what rset is here.  A descriptor is taken out as it is served.  *)
(***************************************************************************)
EXTENDS Sockets, FiniteSetsExt, Functions

CONSTANTS
    FD_SETSIZE,     \* slots of client[], and descriptors an fd_set can name
    OPEN_MAX        \* descriptors the process may have open

\* 0, 1 and 2 are open, and the listening socket; the limits are both 1024.
listenfd == 3
ASSUME ServerAssumption ==
    /\ FD_SETSIZE \in Nat
    /\ OPEN_MAX \in Nat
    /\ listenfd < OPEN_MAX /\ OPEN_MAX <= FD_SETSIZE

VARIABLES
    pc,             \* "select", "accept" (line 53), "slots" (79), "write" (91), "down"
    client,         \* client[k]: the descriptor in slot k, or -1
    maxi, maxfd,
    allset, rset,
    nready,
    slot,           \* while writing: i, otherwise -1
    buf,            \* while writing: what is left of what was read
    sock            \* the kernel's table: the connection behind a descriptor

serverVars == <<pc, client, maxi, maxfd, allset, rset, nready, slot, buf, sock>>
slotVars == <<client, maxi, maxfd, allset, sock>>

Slots == 0 .. FD_SETSIZE - 1
None == -1

ServerInit ==
    /\ pc = "select"
    /\ client = [k \in Slots |-> -1]
    /\ maxi = -1 /\ maxfd = listenfd
    /\ allset = {listenfd} /\ rset = {}
    /\ nready = 0
    /\ slot = None /\ buf = << >>
    /\ sock = << >>

Ready(fd) == IF fd = listenfd THEN backlog # << >> ELSE ServerReadable(sock[fd])

ReadyNow == {fd \in allset : fd <= maxfd /\ Ready(fd)}

Select ==
    /\ pc = "select"
    /\ ReadyNow # {}
    /\ rset' = ReadyNow
    /\ nready' = Cardinality(ReadyNow)
    /\ pc' = IF listenfd \in ReadyNow THEN "accept" ELSE "slots"
    /\ UNCHANGED <<slotVars, slot, buf, sockVars>>

\* The slots the loop still has to serve.
ReadySlots == {k \in 0 .. maxi : client[k] >= 0 /\ client[k] \in rset}

\* Slip: a new connection is not counted down.
CountedClientsOnly(fd) == IF fd = listenfd THEN nready ELSE nready - 1

\* --nready
Counted(fd) == nready - 1

\* The reported descriptor fd is served: back to select if it was the last, by
\* the count or by the slots.
Served(fd) ==
    /\ rset' = rset \ {fd}
    /\ nready' = Counted(fd)
    /\ pc' = IF nready' <= 0 \/ ReadySlots \ {k \in Slots : client[k] = fd} = {}
               THEN "select" ELSE "slots"

FreeSlots == {k \in Slots : client[k] < 0}
FreeDescriptors == (listenfd + 1 .. OPEN_MAX - 1) \ DOMAIN sock

\* Slip: maxfd is not raised.
RaisedForgotten(fd) == maxfd

Raised(fd) == IF fd > maxfd THEN fd ELSE maxfd

RaisedSlot(k) == IF k > maxi THEN k ELSE maxi

IsLowest(n, S) == n \in S /\ \A m \in S : n <= m

\* accept gives the lowest descriptor; the first free slot takes it.
Accept ==
    /\ pc = "accept"
    /\ \E connfd \in FreeDescriptors, k \in FreeSlots :
          /\ IsLowest(connfd, FreeDescriptors) /\ IsLowest(k, FreeSlots)
          /\ sock' = [fd \in DOMAIN sock \cup {connfd} |->
                         IF fd = connfd THEN Head(backlog) ELSE sock[fd]]
          /\ client' = [client EXCEPT ![k] = connfd]
          /\ allset' = allset \cup {connfd}
          /\ maxfd' = Raised(connfd)
          /\ maxi' = RaisedSlot(k)
    /\ serverEnd' = [serverEnd EXCEPT ![Head(backlog)] = "open"]
    /\ backlog' = Tail(backlog)
    /\ Served(listenfd)
    /\ UNCHANGED <<slot, buf, clientEnd, toServer, toClient, reset>>

\* The end of the process, by abort or SIGPIPE, and of all it knew.
Die ==
    /\ pc' = "down"
    /\ client' = [k \in Slots |-> -1] /\ maxi' = -1 /\ maxfd' = listenfd
    /\ allset' = {} /\ rset' = {} /\ nready' = 0
    /\ slot' = None /\ buf' = << >> /\ sock' = << >>
    /\ CloseAll

(***************************************************************************)
(* No descriptor is left, accept returns -1, and the code goes on with it: *)
(* the slot stays free, the connection stays in the backlog, and           *)
(* FD_SET(-1) is undefined.  The usual build sets bit 63, whose descriptor *)
(* is in the set already, or above maxfd; a fortified build aborts.        *)
(***************************************************************************)
AcceptFails ==
    /\ pc = "accept"
    /\ FreeDescriptors = {}
    /\ \/ /\ \E k \in FreeSlots : IsLowest(k, FreeSlots) /\ maxi' = RaisedSlot(k)
          /\ Served(listenfd)
          /\ UNCHANGED <<client, maxfd, allset, sock, slot, buf, sockVars>>
       \/ Die

\* Slip: the descriptor stays in the set.
StillSet(fd) == allset

Cleared(fd) == allset \ {fd}

\* read returned 0: the client has sent everything, or is gone.
CloseSlot(k) ==
    LET c == sock[client[k]]
    IN  /\ toServer[c] = << >> /\ reset[c] # "raised"
        /\ serverEnd' = [serverEnd EXCEPT ![c] = "closed"]
        /\ sock' = Restrict(sock, DOMAIN sock \ {client[k]})
        /\ allset' = Cleared(client[k])
        /\ client' = [client EXCEPT ![k] = -1]
        /\ reset' = [reset EXCEPT ![c] = "none"]
        /\ Served(client[k])
        /\ UNCHANGED <<maxi, maxfd, slot, buf, backlog, clientEnd, toServer, toClient>>

\* read returned -1, and so does write, for -1 bytes.
ReadFails(k) ==
    LET c == sock[client[k]]
    IN  /\ toServer[c] = << >> /\ reset[c] = "raised"
        /\ reset' = [reset EXCEPT ![c] = "reported"]
        /\ Served(client[k])
        /\ UNCHANGED <<slotVars, slot, buf, backlog, clientEnd, serverEnd, toServer, toClient>>

Read(k) ==
    LET c == sock[client[k]]
    IN  /\ toServer[c] # << >>
        /\ buf' = Taken(toServer[c], MAXLINE)
        /\ toServer' = [toServer EXCEPT ![c] = Rest(@, MAXLINE)]
        /\ slot' = k
        /\ pc' = "write"
        /\ UNCHANGED <<slotVars, rset, nready, backlog, clientEnd, serverEnd, toClient, reset>>

ServeSlot ==
    /\ pc = "slots"
    /\ \E k \in ReadySlots :
          /\ IsLowest(k, ReadySlots)
          /\ CloseSlot(k) \/ ReadFails(k) \/ Read(k)

\* Slip: the echo goes to the latest connection.
ToLatest(k) == sock[Max(DOMAIN sock)]

\* Whom the server echoes to.
Peer(k) == sock[client[k]]

Written ==
    /\ Served(client[slot])
    /\ slot' = None /\ buf' = << >>
    /\ UNCHANGED slotVars

\* What fits is sent; the write returns when all has been.
Echo ==
    /\ pc = "write"
    /\ LET c == Peer(slot)
           room == DownRoom - Len(toClient[c])
       IN  /\ ~Gone(c) /\ room > 0
           /\ toClient' = [toClient EXCEPT ![c] = @ \o Taken(buf, room)]
           /\ \/ Len(buf) <= room /\ Written
              \/ /\ Len(buf) > room
                 /\ buf' = Rest(buf, room)
                 /\ UNCHANGED <<pc, slotVars, rset, nready, slot>>
    /\ UNCHANGED <<backlog, clientEnd, serverEnd, toServer, reset>>

\* The client's end is gone, but the server does not know: its host answers with a reset.
EchoLost ==
    /\ pc = "write"
    /\ LET c == Peer(slot)
       IN  /\ Gone(c) /\ reset[c] \in {"none", "due"}
           /\ reset' = [reset EXCEPT ![c] = "due"]
    /\ Written
    /\ UNCHANGED <<backlog, clientEnd, serverEnd, toServer, toClient>>

\* The write fails.  The first error may be only returned; later ones raise SIGPIPE,
\* which nobody handles.
EchoFails ==
    /\ pc = "write"
    /\ LET c == Peer(slot)
       IN  /\ reset[c] \in {"raised", "reported"}
           /\ \/ Die
              \/ /\ reset[c] = "raised"
                 /\ reset' = [reset EXCEPT ![c] = "reported"]
                 /\ Written
                 /\ UNCHANGED <<backlog, clientEnd, serverEnd, toServer, toClient>>

ServerStep ==
    \/ Select
    \/ Accept
    \/ AcceptFails
    \/ ServeSlot
    \/ Echo
    \/ EchoLost
    \/ EchoFails

===========================================================================
