----------------------------- MODULE TwoLevelVM -----------------------------
(***************************************************************************)
(* twoLevelVMSim of src/os_c_linux/memory_simulation/memsim.c: first-level *)
(* tables whose second-level tables are allocated when first touched, LRU  *)
(* replacement.  A virtual page number is a pair <<fVpn, sVpn>>.           *)
(***************************************************************************)
EXTENDS VMSim

CONSTANTS FVpns, SVpns

ASSUME TwoLevelAssumption == Vpns = FVpns \X SVpns

VARIABLES
    second,                 \* second[j][fVpn]: the second-level table exists
    vaild, phyMemid,        \* the entries of the second-level tables, by vpn
    num2ndLevelPageTable    \* per process; the code's SECONDPAGESIZE is their sum

tableVars == <<second, vaild, phyMemid, num2ndLevelPageTable>>
vars == <<simVars, tableVars>>

(***************************************************************************)
(* malloc leaves the entries of a new table as they are.  The code only    *)
(* asks whether vaild is 1; fresh memory is 0 and what a freed block holds *)
(* there is the upper half of an allocator key or pointer, never 1.        *)
(***************************************************************************)
Init ==
    /\ SimInit
    /\ second = [j \in Procs |-> [f \in FVpns |-> FALSE]]
    /\ vaild = [j \in Procs |-> [v \in Vpns |-> FALSE]]
    /\ phyMemid = [j \in Procs |-> [v \in Vpns |-> -1]]
    /\ num2ndLevelPageTable = [j \in Procs |-> 0]

Present(j, vpn) == second[j][vpn[1]] /\ vaild[j][vpn]

Hit(vpn) ==
    /\ Present(turn, vpn)
    /\ CountHit
    /\ list' = MoveToTail(list, phyMemid[turn][vpn])
    /\ UNCHANGED <<len, PHYMEMCOUNT, phyMem, tableVars>>

\* Slip: a table that exists is counted again.
AllocateAlways(vpn) ==
    /\ second' = [second EXCEPT ![turn][vpn[1]] = TRUE]
    /\ num2ndLevelPageTable' = [num2ndLevelPageTable EXCEPT ![turn] = @ + 1]

AllocateSecond(vpn) ==
    /\ second' = [second EXCEPT ![turn][vpn[1]] = TRUE]
    /\ num2ndLevelPageTable' =
         IF second[turn][vpn[1]] THEN num2ndLevelPageTable
         ELSE [num2ndLevelPageTable EXCEPT ![turn] = @ + 1]

Load(vpn) ==
    /\ TakeFrame(<<turn, vpn>>)
    /\ vaild' = [vaild EXCEPT ![turn][vpn] = TRUE]
    /\ phyMemid' = [phyMemid EXCEPT ![turn][vpn] = PHYMEMCOUNT]
    /\ PHYMEMCOUNT' = PHYMEMCOUNT + 1

\* Slip: the entry of the replaced page stays valid.
WithoutEviction(victim, page) == [vaild EXCEPT ![page[1]][page[2]] = TRUE]

Replaced(victim, page) ==
    [vaild EXCEPT ![victim[1]][victim[2]] = FALSE, ![page[1]][page[2]] = TRUE]

Replace(vpn) ==
    /\ ReuseFirst(<<turn, vpn>>)
    /\ vaild' = Replaced(phyMem[First(list)], <<turn, vpn>>)
    /\ phyMemid' = [phyMemid EXCEPT ![turn][vpn] = First(list)]

Fault(vpn) ==
    /\ ~Present(turn, vpn)
    /\ CountFault
    /\ AllocateSecond(vpn)
    /\ Load(vpn) \/ Replace(vpn)

Reference(vpn) == References(vpn) /\ (Hit(vpn) \/ Fault(vpn))

EndOfTrace == AtEnd /\ UNCHANGED tableVars

Next ==
    \/ \E vpn \in Vpns : Reference(vpn)
    \/ EndOfTrace
    \/ Stop /\ UNCHANGED tableVars

Spec == Init /\ [][Next]_vars

----------------------------------------------------------------------------
\* Properties.

TypeOK ==
    /\ SimTypeOK
    /\ second \in [Procs -> [FVpns -> BOOLEAN]]
    /\ vaild \in [Procs -> [Vpns -> BOOLEAN]]
    /\ phyMemid \in [Procs -> [Vpns -> Frames \cup {-1}]]
    /\ num2ndLevelPageTable \in [Procs -> Nat]

ValidPages == {page \in Pages : vaild[page[1]][page[2]]}

(***************************************************************************)
(* The valid entries of the second-level tables are the pages in the       *)
(* loaded frames, each names its frame, and each is in a table that        *)
(* exists, so that a replacement never follows a NULL second-level table   *)
(* of another process.                                                     *)
(***************************************************************************)
PageTableMatchesFrames ==
    /\ ValidPages = {phyMem[f] : f \in Loaded}
    /\ \A f, g \in Loaded : phyMem[f] = phyMem[g] => f = g
    /\ \A page \in ValidPages :
          /\ phyMem[phyMemid[page[1]][page[2]]] = page
          /\ second[page[1]][page[2][1]]

(***************************************************************************)
(* A second-level table is allocated for exactly the first-level entries a *)
(* process referenced, once each: what the report prints per process.      *)
(***************************************************************************)
TablesOnDemand ==
    \A j \in Procs :
        LET touched == {page[2][1] : page \in {q \in ToSet(recency) : q[1] = j}}
        IN  /\ {f \in FVpns : second[j][f]} = touched
            /\ num2ndLevelPageTable[j] = Cardinality(touched)

Policy == INSTANCE PageReplacement WITH
              policy <- "LRU", capacity <- maxLen, order <- ListedPages, last <- LastReferenced,
              hits <- numPageHit, faults <- numPageFault

(***************************************************************************)
(* Splitting the page number changes nothing for replacement: every step   *)
(* is one of LRU over the pages of all processes.  With two frames LRU     *)
(* loses one, as in the one-level simulation.                              *)
(***************************************************************************)
ImplementsLRU == Policy!Init /\ [][maxLen # 2 => Policy!Next]_(Policy!vars)

===========================================================================
