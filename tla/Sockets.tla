------------------------------ MODULE Sockets ------------------------------
(***************************************************************************)
(* The stream sockets between the echo server and its clients, as          *)
(* servertest.c, shutClient.c and writeClient.c of src/network_c_linux use *)
(* them.  This is the kernel's part, not the programs'.                    *)
(*                                                                         *)
(* The unit of a stream is a line; all lines have the same length, as in   *)
(* the file maketext.c makes.  A client connects once, so a connection has *)
(* the name of its client.                                                 *)
(***************************************************************************)
EXTENDS Integers, Sequences, FiniteSets, SequencesExt

CONSTANTS
    ShutClients, WriteClients,   \* the processes that run either program
    MAXLINE,                     \* lines a read returns at most
    UpRoom, DownRoom             \* lines a connection holds in each direction

Clients == ShutClients \cup WriteClients

\* A socket's buffers hold more than the 4096 bytes of a read.
ASSUME SocketsAssumption ==
    /\ ShutClients \cap WriteClients = {}
    /\ MAXLINE \in Nat \ {0}
    /\ UpRoom \in Nat \ {0}
    /\ DownRoom \in Nat /\ DownRoom >= MAXLINE

VARIABLES
    backlog,      \* connections the server has not accepted
    clientEnd,    \* "none", "open", "half" (no more to send), "closed", "aborted" (with echoes unread)
    serverEnd,    \* "none", "queued", "open", "closed"
    toServer,     \* lines sent and not read, by connection
    toClient,
    reset         \* of a lost connection: "none", "due", "raised" at the server, "reported" to it

sockVars == <<backlog, clientEnd, serverEnd, toServer, toClient, reset>>

SockInit ==
    /\ backlog = << >>
    /\ clientEnd = [c \in Clients |-> "none"]
    /\ serverEnd = [c \in Clients |-> "none"]
    /\ toServer = [c \in Clients |-> << >>]
    /\ toClient = [c \in Clients |-> << >>]
    /\ reset = [c \in Clients |-> "none"]

Gone(c) == clientEnd[c] \in {"closed", "aborted"}

\* What makes select report the server's end: data, the end of the stream or an error.
ServerReadable(c) ==
    \/ toServer[c] # << >>
    \/ clientEnd[c] \in {"half", "closed"}
    \/ reset[c] \in {"raised", "reported"}

ClientReadable(c) == toClient[c] # << >> \/ serverEnd[c] = "closed"

\* What a read of at most n lines returns, and what it leaves.
Taken(stream, n) == SubSeq(stream, 1, IF Len(stream) < n THEN Len(stream) ELSE n)
Rest(stream, n) == SubSeq(stream, n + 1, Len(stream))

\* connect: the kernel completes it, whether or not the server accepts.
Establish(c) ==
    /\ clientEnd' = [clientEnd EXCEPT ![c] = "open"]
    /\ serverEnd' = [serverEnd EXCEPT ![c] = "queued"]
    /\ backlog' = Append(backlog, c)
    /\ UNCHANGED <<toServer, toClient, reset>>

\* The client's process ended.  Echoes it had not read abort the connection.
CloseClient(c) ==
    /\ toClient' = [toClient EXCEPT ![c] = << >>]
    /\ clientEnd' = [clientEnd EXCEPT ![c] = IF toClient[c] = << >> THEN "closed" ELSE "aborted"]
    /\ reset' = [reset EXCEPT ![c] = IF toClient[c] = << >> THEN @ ELSE "due"]
    /\ UNCHANGED <<backlog, serverEnd, toServer>>

\* The news that the client's end is gone reaches the server's.
ResetArrives(c) ==
    /\ reset[c] = "due" /\ serverEnd[c] = "open"
    /\ reset' = [reset EXCEPT ![c] = "raised"]
    /\ UNCHANGED <<backlog, clientEnd, serverEnd, toServer, toClient>>

\* The server's process ended: all its connections are closed, what it had not read is lost.
CloseAll ==
    /\ backlog' = << >>
    /\ serverEnd' = [c \in Clients |->
                        IF serverEnd[c] \in {"queued", "open"} THEN "closed" ELSE serverEnd[c]]
    /\ toServer' = [c \in Clients |-> << >>]
    /\ reset' = [c \in Clients |-> "none"]
    /\ UNCHANGED <<clientEnd, toClient>>

===========================================================================
