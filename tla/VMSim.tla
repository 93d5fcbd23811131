------------------------------- MODULE VMSim -------------------------------
(***************************************************************************)
(* What the three simulations of                                           *)
(* src/os_c_linux/memory_simulation/memsim.c share: the physical frames    *)
(* and their list, the round robin over the trace files, the counters.     *)
(* OneLevelVM, TwoLevelVM and InvertedVM add the page tables.              *)
(***************************************************************************)
EXTENDS FrameList, FiniteSets, Functions

CONSTANTS
    numProcess,
    Vpns,           \* the virtual page numbers the traces touch
    FrameCounts,    \* the numbers of frames considered: 2^nFrame in the code
    MaxTraces       \* model bound: references per trace

ASSUME VMAssumption ==
    /\ numProcess \in Nat \ {0}
    /\ FrameCounts \subseteq Nat \ {0}
    /\ MaxTraces \in Nat

Procs == 0 .. numProcess - 1

VARIABLES
    maxLen, len, list,     \* phyMemQueue
    PHYMEMCOUNT,           \* the next frame never used
    phyMem,                \* phyMem[f]: the page in frame f (pid and pageTableid)
    turn, eofs, done,      \* j and i of the round over the processes; the loop has ended
    ntraces, numPageHit, numPageFault,
    recency                \* history: the pages in the order of their last reference

frameVars == <<len, list, PHYMEMCOUNT, phyMem>>
roundVars == <<turn, eofs, done>>
simVars == <<maxLen, len, list, PHYMEMCOUNT, phyMem, turn, eofs, done,
             ntraces, numPageHit, numPageFault, recency>>

Frames == 0 .. maxLen - 1
Pages == Procs \X Vpns
NoPage == <<-1, -1>>

SimInit ==
    /\ maxLen \in FrameCounts
    /\ len = 0
    /\ list = NewList(0 .. maxLen - 1)
    /\ PHYMEMCOUNT = 0
    /\ phyMem = [f \in 0 .. maxLen - 1 |-> NoPage]
    /\ turn = 0 /\ eofs = 0 /\ done = FALSE
    /\ ntraces = [j \in Procs |-> 0]
    /\ numPageHit = [j \in Procs |-> 0]
    /\ numPageFault = [j \in Procs |-> 0]
    /\ recency = << >>

\* Slip: the rounds go on until every trace is at its end.
ProceedUntilAll(e) ==
    IF turn < numProcess - 1
      THEN turn' = turn + 1 /\ eofs' = e /\ UNCHANGED done
      ELSE turn' = 0 /\ eofs' = 0 /\ done' = (e = numProcess)

\* The inner loop goes to the next process; the outer one ends after a round
\* in which a trace was at its end (e counts those of this round so far).
Proceed(e) ==
    IF turn < numProcess - 1
      THEN turn' = turn + 1 /\ eofs' = e /\ UNCHANGED done
      ELSE turn' = 0 /\ eofs' = 0 /\ done' = (e > 0)

\* The trace of the process whose turn it is has a reference to vpn.
References(vpn) ==
    /\ ~done
    /\ ntraces[turn] < MaxTraces
    /\ ntraces' = [ntraces EXCEPT ![turn] = @ + 1]
    /\ recency' = Append(RemoveFirst(recency, <<turn, vpn>>), <<turn, vpn>>)
    /\ Proceed(eofs)
    /\ UNCHANGED maxLen

\* fscanf returned EOF.  A trace may end anywhere.
AtEnd ==
    /\ ~done
    /\ Proceed(eofs + 1)
    /\ UNCHANGED <<maxLen, frameVars, ntraces, numPageHit, numPageFault, recency>>

CountHit ==
    /\ numPageHit' = [numPageHit EXCEPT ![turn] = @ + 1]
    /\ UNCHANGED numPageFault

CountFault ==
    /\ numPageFault' = [numPageFault EXCEPT ![turn] = @ + 1]
    /\ UNCHANGED numPageHit

\* Slip: off by one.
Overfull == len > maxLen

Full == len = maxLen

\* PHYMEMCOUNT goes back to 0 after the last frame.
Wrapped == IF PHYMEMCOUNT = maxLen - 1 THEN 0 ELSE PHYMEMCOUNT + 1

\* The page goes to the unused frame PHYMEMCOUNT.
TakeFrame(page) ==
    /\ ~Full
    /\ len' = len + 1
    /\ phyMem' = [phyMem EXCEPT ![PHYMEMCOUNT] = page]
    /\ list' = AppendFrame(list, PHYMEMCOUNT)

\* The page goes to the first frame of the list, which is queued again.
ReuseFirst(page) ==
    /\ Full
    /\ phyMem' = [phyMem EXCEPT ![First(list)] = page]
    /\ list' = RequeueFirst(list)
    /\ UNCHANGED <<len, PHYMEMCOUNT>>

Stop == done /\ UNCHANGED simVars

----------------------------------------------------------------------------
\* What the simulations are checked for.

Loaded == 0 .. len - 1

SimTypeOK ==
    /\ maxLen \in FrameCounts
    /\ len \in 0 .. maxLen
    /\ PHYMEMCOUNT \in 0 .. maxLen
    /\ list.next \in [Frames \cup {Header} -> Frames \cup {Header, Null}]
    /\ list.prev \in [Frames \cup {Header} -> Frames \cup {Header, Null}]
    /\ list.tail \in Frames \cup {Header}
    /\ phyMem \in [Frames -> Pages \cup {NoPage}]
    /\ turn \in Procs /\ eofs \in 0 .. numProcess - 1 /\ done \in BOOLEAN
    /\ ntraces \in [Procs -> 0 .. MaxTraces]
    /\ numPageHit \in [Procs -> 0 .. MaxTraces]
    /\ numPageFault \in [Procs -> 0 .. MaxTraces]
    /\ ToSet(recency) \subseteq Pages

\* The pages in the frames of the list, next victim first.
ListedPages == LET frames == Walk(list, maxLen) IN [i \in DOMAIN frames |-> phyMem[frames[i]]]

LastReferenced == IF recency = << >> THEN NoPage ELSE Last(recency)

\* The n pages referenced last.
MostRecent(n) ==
    LET k == Len(recency) IN ToSet(SubSeq(recency, IF k > n THEN k - n + 1 ELSE 1, k))

===========================================================================
