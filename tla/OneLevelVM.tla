----------------------------- MODULE OneLevelVM -----------------------------
(***************************************************************************)
(* oneLevelVMSim of src/os_c_linux/memory_simulation/memsim.c: one page    *)
(* table per process, FIFO or LRU replacement.                             *)
(***************************************************************************)
EXTENDS VMSim

VARIABLES
    howRepl,      \* "FIFO" (0) or "LRU" (1)
    vaild,        \* vaild[j][vpn]: the entry is valid (the field's name in the code)
    phyMemid      \* phyMemid[j][vpn]: its frame; only LRU sets it

tableVars == <<vaild, phyMemid>>
vars == <<simVars, howRepl, tableVars>>

Init ==
    /\ SimInit
    /\ howRepl \in {"FIFO", "LRU"}
    /\ vaild = [j \in Procs |-> [v \in Vpns |-> FALSE]]
    /\ phyMemid = [j \in Procs |-> [v \in Vpns |-> -1]]

Validate(table, page) == [table EXCEPT ![page[1]][page[2]] = TRUE]
\* Slip: the entry of the replaced page stays valid.
LeaveValid(table, page) == table

Invalidate(table, page) == [table EXCEPT ![page[1]][page[2]] = FALSE]

Hit(vpn) ==
    /\ vaild[turn][vpn]
    /\ CountHit
    /\ list' = IF howRepl = "LRU" THEN MoveToTail(list, phyMemid[turn][vpn]) ELSE list
    /\ UNCHANGED <<len, PHYMEMCOUNT, phyMem, tableVars>>

FIFOLoad(vpn) ==
    /\ howRepl = "FIFO" /\ ~Full
    /\ list' = AppendForward(list, PHYMEMCOUNT)
    /\ phyMem' = [phyMem EXCEPT ![PHYMEMCOUNT] = <<turn, vpn>>]
    /\ vaild' = Validate(vaild, <<turn, vpn>>)
    /\ len' = len + 1
    /\ PHYMEMCOUNT' = Wrapped
    /\ UNCHANGED phyMemid

\* FIFO takes the frames in turn; the list is kept but not consulted.
FIFOReplace(vpn) ==
    /\ howRepl = "FIFO" /\ Full
    /\ list' = AppendForward(PopForward(list), PHYMEMCOUNT)
    /\ phyMem' = [phyMem EXCEPT ![PHYMEMCOUNT] = <<turn, vpn>>]
    /\ vaild' = Validate(Invalidate(vaild, phyMem[PHYMEMCOUNT]), <<turn, vpn>>)
    /\ PHYMEMCOUNT' = Wrapped
    /\ UNCHANGED <<len, phyMemid>>

LRULoad(vpn) ==
    /\ howRepl = "LRU"
    /\ TakeFrame(<<turn, vpn>>)
    /\ vaild' = Validate(vaild, <<turn, vpn>>)
    /\ phyMemid' = [phyMemid EXCEPT ![turn][vpn] = PHYMEMCOUNT]
    /\ PHYMEMCOUNT' = PHYMEMCOUNT + 1

LRUReplace(vpn) ==
    /\ howRepl = "LRU"
    /\ ReuseFirst(<<turn, vpn>>)
    /\ vaild' = Validate(Invalidate(vaild, phyMem[First(list)]), <<turn, vpn>>)
    /\ phyMemid' = [phyMemid EXCEPT ![turn][vpn] = First(list)]

Fault(vpn) ==
    /\ ~vaild[turn][vpn]
    /\ CountFault
    /\ \/ FIFOLoad(vpn)
       \/ FIFOReplace(vpn)
       \/ LRULoad(vpn)
       \/ LRUReplace(vpn)

Reference(vpn) == References(vpn) /\ (Hit(vpn) \/ Fault(vpn)) /\ UNCHANGED howRepl

EndOfTrace == AtEnd /\ UNCHANGED <<howRepl, tableVars>>

Next ==
    \/ \E vpn \in Vpns : Reference(vpn)
    \/ EndOfTrace
    \/ Stop /\ UNCHANGED <<howRepl, tableVars>>

Spec == Init /\ [][Next]_vars

----------------------------------------------------------------------------
\* Properties.

TypeOK ==
    /\ SimTypeOK
    /\ howRepl \in {"FIFO", "LRU"}
    /\ vaild \in [Procs -> [Vpns -> BOOLEAN]]
    /\ phyMemid \in [Procs -> [Vpns -> Frames \cup {-1}]]

ValidPages == {page \in Pages : vaild[page[1]][page[2]]}

(***************************************************************************)
(* The page tables of all processes and the frames agree: the valid        *)
(* entries are the pages in the loaded frames, no two frames hold the same *)
(* page, and under LRU a valid entry names its own frame, so that a hit    *)
(* moves the frame of that page.  Loading for one process takes the page   *)
(* of another one away.                                                    *)
(***************************************************************************)
PageTableMatchesFrames ==
    /\ ValidPages = {phyMem[f] : f \in Loaded}
    /\ \A f, g \in Loaded : phyMem[f] = phyMem[g] => f = g
    /\ howRepl = "LRU" => \A page \in ValidPages : phyMem[phyMemid[page[1]][page[2]]] = page

(***************************************************************************)
(* No step follows a NULL pointer: a frame the code unlinks from between   *)
(* its neighbours has both, and a full list has a first frame.             *)
(***************************************************************************)
NoNullDereference ==
    /\ len > 0 => First(list) \in Loaded
    /\ howRepl = "LRU" => \A f \in Loaded : list.next[f] # Null => list.prev[f] # Null

(***************************************************************************)
(* LRU keeps the pages referenced last, as many as there are frames.       *)
(* With two frames the code does not.                                      *)
(***************************************************************************)
LRUKeepsMostRecent == howRepl = "LRU" => ValidPages = MostRecent(maxLen)

(***************************************************************************)
(* The traces advance together: no process is more than one reference      *)
(* ahead, whichever trace ends first, and every reference is counted once, *)
(* as the assertion before the report says.                                *)
(***************************************************************************)
RoundsAreFair ==
    \A j, k \in Procs :
        /\ ntraces[j] - ntraces[k] \in -1 .. 1
        /\ numPageHit[j] + numPageFault[j] = ntraces[j]

Policy == INSTANCE PageReplacement WITH
              policy <- howRepl, capacity <- maxLen, order <- ListedPages, last <- LastReferenced,
              hits <- numPageHit, faults <- numPageFault

(***************************************************************************)
(* Every step of the simulation is one of FIFO or LRU replacement over the *)
(* pages of all processes, with the hits and faults these have.  FIFO      *)
(* takes its victims from a counter and keeps the list beside it: they     *)
(* never disagree.  With two frames LRU loses one (LRUKeepsMostRecent).    *)
(***************************************************************************)
ImplementsPolicy ==
    Policy!Init /\ [][howRepl = "FIFO" \/ maxLen # 2 => Policy!Next]_(Policy!vars)

===========================================================================
