----------------------------- MODULE FrameList -----------------------------
(***************************************************************************)
(* The linked list of page frames of                                       *)
(* src/os_c_linux/memory_simulation/memsim.c: struct phyMem nodes with     *)
(* next and prev, and phyMemQueue as the header with next and tail.  A     *)
(* list is a record of the functions next and prev and the node tail;      *)
(* frames are numbered from 0 by their index in phyMem.                    *)
(***************************************************************************)
EXTENDS Integers, Sequences, SequencesExt

Header == -1        \* &phyMemQueue
Null == -2

\* main: the header points to itself, no frame is linked.  prev of a frame is
\* not initialised by malloc and not read before it is set.
NewList(frames) ==
    [next |-> [n \in frames \cup {Header} |-> IF n = Header THEN Header ELSE Null],
     prev |-> [n \in frames \cup {Header} |-> IF n = Header THEN Header ELSE Null],
     tail |-> Header]

First(l) == l.next[Header]

\* FIFO links frames forward only.
AppendForward(l, f) == [l EXCEPT !.next[l.tail] = f, !.tail = f]

\* Slip: prev is not set.
AppendWithoutPrev(l, f) == AppendForward(l, f)

AppendFrame(l, f) == [AppendForward(l, f) EXCEPT !.prev[f] = l.tail]

\* FIFO takes the first frame off, except when it is the only one.
PopForward(l) ==
    LET f == First(l)
    IN  IF l.next[f] # Null
          THEN [l EXCEPT !.next[Header] = l.next[f], !.next[f] = Null]
          ELSE l

Detached(l, f) == [l EXCEPT !.next[f] = Null, !.prev[f] = Null]

\* temp->prev->next = temp->next; temp->next->prev = temp->prev
Bypass(l, f) == [l EXCEPT !.next[l.prev[f]] = l.next[f], !.prev[l.next[f]] = l.prev[f]]

\* Slip: a hit leaves the frame where it is.
Stay(l, f) == [l EXCEPT !.next[f] = l.next[f]]

\* A hit moves the frame to the tail, unless nothing follows it.
MoveToTail(l, f) ==
    IF l.next[f] # Null THEN AppendFrame(Detached(Bypass(l, f), f), f) ELSE l

\* A replacement takes the first frame off; the last one left stays first.
PopFirst(l) ==
    LET f == First(l)
        passed == [l EXCEPT !.next[Header] = l.next[f], !.prev[l.next[f]] = l.prev[f]]
    IN  Detached(IF l.next[f] # Null THEN passed ELSE l, f)

\* Slip: the frame is reused but not linked again.
PopOnly(l) == PopFirst(l)

\* if (phyMemQueue.next->next != NULL): the frame is linked again at the tail.
RequeueFirst(l) ==
    LET f == First(l)
        popped == PopFirst(l)
    IN  IF popped.next[First(popped)] # Null THEN AppendFrame(popped, f) ELSE popped

\* Where k steps along next lead from the header, for k up to n.
Hops(l, n) ==
    LET hop[k \in 0 .. n] ==
            IF k = 0 THEN Header ELSE IF hop[k - 1] = Null THEN Null ELSE l.next[hop[k - 1]]
    IN  hop

\* The frames from the header on, at most n of them.
Walk(l, n) ==
    LET hop == Hops(l, n) IN [k \in {j \in 1 .. n : hop[j] \notin {Header, Null}} |-> hop[k]]

===========================================================================
