---------------------------- MODULE EchoClients ----------------------------
(***************************************************************************)
(* The two clients of src/network_c_linux.  shutClient.c sends a file and  *)
(* half-closes; writeClient.c sends what its user types and returns at the *)
(* end of it.  One round of their select loop is one step up to the        *)
(* sending, which may have to wait.                                        *)
(***************************************************************************)
EXTENDS Sockets

CONSTANTS
    Lines,     \* Lines[c]: how many lines the file has, or the user types
    Pastes     \* how many of them the user may enter at once

ASSUME ClientsAssumption ==
    /\ Lines \in [Clients -> Nat]
    /\ Pastes \subseteq Nat \ {0}

VARIABLES
    cpc,         \* "idle", "loop", "send", "returned", "terminated", "killed" (by SIGPIPE)
    sent,        \* lines given to the socket
    got,         \* what was printed
    stdineof,    \* of a shutClient
    piped,       \* of a writeClient: lines in stdin's pipe,
    stdio,       \* in the FILE's buffer, which select knows nothing of,
    closed       \* and whether the user closed it

clientVars == <<cpc, sent, got, stdineof, piped, stdio, closed>>
inputVars == <<stdineof, piped, stdio, closed>>

ClientsInit ==
    /\ cpc = [c \in Clients |-> "idle"]
    /\ sent = [c \in Clients |-> 0]
    /\ got = [c \in Clients |-> << >>]
    /\ stdineof = [c \in Clients |-> FALSE]
    /\ piped = [c \in Clients |-> 0]
    /\ stdio = [c \in Clients |-> 0]
    /\ closed = [c \in Clients |-> FALSE]

Line(c, n) == <<c, n>>

Ended(c) == cpc[c] \in {"returned", "terminated", "killed"}

\* main up to str_cli.  (connect's result is not looked at: a client that finds
\* no server is of no interest here.)
Connect(c) ==
    /\ cpc[c] = "idle"
    /\ cpc' = [cpc EXCEPT ![c] = "loop"]
    /\ Establish(c)
    /\ UNCHANGED <<sent, got, inputVars>>

\* The process is gone, and with it its standard input.
Leave(c, how) ==
    /\ cpc' = [cpc EXCEPT ![c] = how]
    /\ piped' = [piped EXCEPT ![c] = 0]
    /\ stdio' = [stdio EXCEPT ![c] = 0]
    /\ closed' = [closed EXCEPT ![c] = TRUE]
    /\ UNCHANGED stdineof

End(c, how) == Leave(c, how) /\ CloseClient(c)

\* Writen: the line fits.
Send(c) ==
    /\ cpc[c] = "send"
    /\ serverEnd[c] # "closed" /\ Len(toServer[c]) < UpRoom
    /\ toServer' = [toServer EXCEPT ![c] = Append(@, Line(c, sent[c] + 1))]
    /\ sent' = [sent EXCEPT ![c] = @ + 1]
    /\ cpc' = [cpc EXCEPT ![c] = "loop"]
    /\ UNCHANGED <<got, inputVars, backlog, clientEnd, serverEnd, toClient, reset>>

\* The server's process is gone: the first line is lost, later ones raise SIGPIPE.
SendFails(c) ==
    /\ cpc[c] = "send" /\ serverEnd[c] = "closed"
    /\ \/ cpc' = [cpc EXCEPT ![c] = "loop"] /\ UNCHANGED <<inputVars, sockVars>>
       \/ End(c, "killed")
    /\ sent' = [sent EXCEPT ![c] = @ + 1]
    /\ UNCHANGED got

Receive(c, n) ==
    /\ got' = [got EXCEPT ![c] = @ \o Taken(toClient[c], n)]
    /\ toClient' = [toClient EXCEPT ![c] = Rest(@, n)]

NoReceive == UNCHANGED <<got, toClient>>

----------------------------------------------------------------------------
\* shutClient.c

\* Slip: echoes are only read once the file has been sent.
ReadableAfterFile(c) == stdineof[c] /\ ClientReadable(c)

\* The socket is always in the set.
SocketReady(c) == ClientReadable(c)

\* read returned 0.
EndOfEchoes(c) == SocketReady(c) /\ toClient[c] = << >>

ShutEnd(c) ==
    /\ cpc[c] = "loop" /\ EndOfEchoes(c)
    /\ End(c, IF stdineof[c] THEN "returned" ELSE "terminated")
    /\ UNCHANGED <<sent, got>>

\* Slip: the whole connection is closed.
CloseBoth(c) == clientEnd' = [clientEnd EXCEPT ![c] = "closed"]

\* shutdown(SHUT_WR)
ShutdownWrite(c) == clientEnd' = [clientEnd EXCEPT ![c] = "half"]

\* Echoes are read if select reported any; then the file, which is always
\* ready until its end has been seen.
ShutLoop(c) ==
    /\ cpc[c] = "loop" /\ ~EndOfEchoes(c)
    /\ SocketReady(c) \/ ~stdineof[c]
    /\ IF SocketReady(c) THEN Receive(c, MAXLINE) ELSE NoReceive
    /\ \/ /\ stdineof[c]
          /\ UNCHANGED <<cpc, stdineof, clientEnd>>
       \/ /\ ~stdineof[c] /\ sent[c] < Lines[c]
          /\ cpc' = [cpc EXCEPT ![c] = "send"]
          /\ UNCHANGED <<stdineof, clientEnd>>
       \/ /\ ~stdineof[c] /\ sent[c] >= Lines[c]
          /\ stdineof' = [stdineof EXCEPT ![c] = TRUE]
          /\ ShutdownWrite(c)
          /\ UNCHANGED cpc
    /\ UNCHANGED <<sent, piped, stdio, closed, backlog, serverEnd, toServer, reset>>

----------------------------------------------------------------------------
\* writeClient.c

Typed(c) == sent[c] + piped[c] + stdio[c] + (IF cpc[c] = "send" THEN 1 ELSE 0)

\* The user types all the lines, some of them at once, and then closes the input.
Type(c) ==
    /\ ~Ended(c) /\ ~closed[c]
    /\ \E n \in Pastes :
          /\ Typed(c) + n <= Lines[c]
          /\ piped' = [piped EXCEPT ![c] = @ + n]
    /\ UNCHANGED <<cpc, sent, got, stdineof, stdio, closed, sockVars>>

CloseInput(c) ==
    /\ ~Ended(c) /\ ~closed[c] /\ Typed(c) = Lines[c]
    /\ closed' = [closed EXCEPT ![c] = TRUE]
    /\ UNCHANGED <<cpc, sent, got, stdineof, piped, stdio, sockVars>>

StdinReady(c) == piped[c] > 0 \/ closed[c]

\* fgets: a line from the buffer, which is filled from the pipe when empty.
Fgets(c) ==
    /\ piped[c] + stdio[c] > 0
    /\ IF stdio[c] > 0
         THEN stdio' = [stdio EXCEPT ![c] = @ - 1] /\ UNCHANGED piped
         ELSE stdio' = [stdio EXCEPT ![c] = piped[c] - 1] /\ piped' = [piped EXCEPT ![c] = 0]

\* Readline returned 0.
WriteEnd(c) ==
    /\ cpc[c] = "loop" /\ ClientReadable(c) /\ toClient[c] = << >>
    /\ End(c, "terminated")
    /\ UNCHANGED <<sent, got>>

\* One echo is read if select reported any, and one line if it reported stdin.
WriteLoop(c) ==
    /\ cpc[c] = "loop" /\ (toClient[c] # << >> \/ (StdinReady(c) /\ ~ClientReadable(c)))
    /\ IF toClient[c] # << >> THEN Receive(c, 1) ELSE NoReceive
    /\ \/ ~StdinReady(c) /\ UNCHANGED <<cpc, piped, stdio>>
       \/ /\ StdinReady(c) /\ Fgets(c)
          /\ cpc' = [cpc EXCEPT ![c] = "send"]
    /\ UNCHANGED <<sent, stdineof, closed, backlog, clientEnd, serverEnd, toServer, reset>>

\* fgets returned NULL, after the same round's echo has been read: str_cli
\* returns and the process ends.
WriteReturn(c) ==
    /\ cpc[c] = "loop" /\ StdinReady(c) /\ piped[c] + stdio[c] = 0
    /\ ClientReadable(c) => toClient[c] # << >>
    /\ LET unread == Rest(toClient[c], 1)
       IN  /\ got' = [got EXCEPT ![c] = @ \o Taken(toClient[c], 1)]
           /\ toClient' = [toClient EXCEPT ![c] = << >>]
           /\ clientEnd' = [clientEnd EXCEPT ![c] = IF unread = << >> THEN "closed" ELSE "aborted"]
           /\ reset' = [reset EXCEPT ![c] = IF unread = << >> THEN @ ELSE "due"]
    /\ Leave(c, "returned")
    /\ UNCHANGED <<sent, backlog, serverEnd, toServer>>

ClientStep(c) ==
    \/ Send(c)
    \/ SendFails(c)
    \/ c \in ShutClients /\ (ShutEnd(c) \/ ShutLoop(c))
    \/ c \in WriteClients /\ (WriteEnd(c) \/ WriteLoop(c) \/ WriteReturn(c))

User(c) == c \in WriteClients /\ (Type(c) \/ CloseInput(c))

===========================================================================
