----------------------------- MODULE InvertedVM -----------------------------
(***************************************************************************)
(* invertedPageVMSim of src/os_c_linux/memory_simulation/memsim.c: one     *)
(* hash table for all processes, a chain of entries per bucket.  A chain   *)
(* is the sequence of the entries the next pointers lead through; the pool *)
(* hashLinked hands out one entry per frame, in step with len.             *)
(***************************************************************************)
EXTENDS VMSim

ASSUME InvertedAssumption == Vpns \subseteq Nat

VARIABLES
    hashTable,      \* hashTable[h]: the chain of bucket h, entries [page, phyMemid]
    numIHTConflictAccess, numIHTNULLAccess, numIHTNonNULLAccess

ihtVars == <<numIHTConflictAccess, numIHTNULLAccess, numIHTNonNULLAccess>>
vars == <<simVars, hashTable, ihtVars>>

Init ==
    /\ SimInit
    /\ hashTable = [h \in 0 .. maxLen - 1 |-> << >>]
    /\ numIHTConflictAccess = [j \in Procs |-> 0]
    /\ numIHTNULLAccess = [j \in Procs |-> 0]
    /\ numIHTNonNULLAccess = [j \in Procs |-> 0]

hashIndex(page) == (page[1] + page[2]) % maxLen

Chain(page) == hashTable[hashIndex(page)]

\* The positions of a page in its chain: none or one.
Positions(page) == {i \in DOMAIN Chain(page) : Chain(page)[i].page = page}

\* Slip: the entry that matches is not counted.
LookedBefore(page) ==
    IF Positions(page) = {} THEN {Len(Chain(page))} ELSE {i - 1 : i \in Positions(page)}

\* How many entries of the chain the search looks at (one number).
Looked(page) == IF Positions(page) = {} THEN {Len(Chain(page))} ELSE Positions(page)

\* An empty bucket is counted apart; otherwise every entry looked at counts as
\* a conflict, the matching one included.
CountAccess(page) ==
    IF Chain(page) = << >>
      THEN /\ numIHTNULLAccess' = [numIHTNULLAccess EXCEPT ![turn] = @ + 1]
           /\ UNCHANGED <<numIHTNonNULLAccess, numIHTConflictAccess>>
      ELSE /\ numIHTNonNULLAccess' = [numIHTNonNULLAccess EXCEPT ![turn] = @ + 1]
           /\ \E looked \in Looked(page) :
                 numIHTConflictAccess' = [numIHTConflictAccess EXCEPT ![turn] = @ + looked]
           /\ UNCHANGED numIHTNULLAccess

\* Unlike the other simulations a hit also moves a frame nothing follows: the
\* tail is linked to itself.
Touch(l, f) == AppendFrame(Detached(IF l.next[f] # Null THEN Bypass(l, f) ELSE l, f), f)

Hit(page) ==
    /\ CountHit
    /\ \E i \in Positions(page) : list' = Touch(list, Chain(page)[i].phyMemid)
    /\ UNCHANGED <<len, PHYMEMCOUNT, phyMem, hashTable>>

Load(page) ==
    /\ Positions(page) = {}
    /\ TakeFrame(page)
    /\ hashTable' = [hashTable EXCEPT ![hashIndex(page)] =
                        << [page |-> page, phyMemid |-> PHYMEMCOUNT] >> \o @]
    /\ PHYMEMCOUNT' = IF Chain(page) = << >> THEN Wrapped ELSE PHYMEMCOUNT + 1

\* Slip: the bucket loses its first entry.
WithoutFirst(victim, i) == [hashTable EXCEPT ![hashIndex(victim)] = Tail(@)]

\* The bucket without the entry the search stopped at.
Without(victim, i) == [hashTable EXCEPT ![hashIndex(victim)] = RemoveAt(@, i)]

\* The entry of the replaced page is looked up, unlinked and reused.
Replace(page) ==
    /\ Positions(page) = {}
    /\ Full
    /\ LET f == First(list)
           victim == phyMem[f]
       IN  /\ \E i \in Positions(victim) :
                 LET entry == [Chain(victim)[i] EXCEPT !.page = page]
                 IN  hashTable' = [Without(victim, i) EXCEPT ![hashIndex(page)] = <<entry>> \o @]
           /\ list' = AppendFrame(PopFirst(list), f)
           /\ phyMem' = [phyMem EXCEPT ![f] = page]
    /\ UNCHANGED <<len, PHYMEMCOUNT>>

Fault(page) == CountFault /\ (Load(page) \/ Replace(page))

Reference(vpn) ==
    /\ References(vpn)
    /\ CountAccess(<<turn, vpn>>)
    /\ Hit(<<turn, vpn>>) \/ Fault(<<turn, vpn>>)

EndOfTrace == AtEnd /\ UNCHANGED <<hashTable, ihtVars>>

Next ==
    \/ \E vpn \in Vpns : Reference(vpn)
    \/ EndOfTrace
    \/ Stop /\ UNCHANGED <<hashTable, ihtVars>>

Spec == Init /\ [][Next]_vars

----------------------------------------------------------------------------
\* Properties.

Entries == [page : Pages, phyMemid : Frames]

TypeOK ==
    /\ SimTypeOK
    /\ \A h \in Frames : hashTable[h] \in Seq(Entries)
    /\ numIHTConflictAccess \in [Procs -> Nat]
    /\ numIHTNULLAccess \in [Procs -> Nat]
    /\ numIHTNonNULLAccess \in [Procs -> Nat]

(***************************************************************************)
(* The hash table and the frames agree: the page of every loaded frame is  *)
(* found once, in its own bucket, by an entry that names the frame, and    *)
(* there are no other entries.  So the search for the entry of a replaced  *)
(* page, which has no end test, ends.                                      *)
(***************************************************************************)
HashMatchesFrames ==
    /\ \A f \in Loaded :
          \E i \in Positions(phyMem[f]) :
              /\ Positions(phyMem[f]) = {i}
              /\ Chain(phyMem[f])[i].phyMemid = f
    /\ \A h \in Frames : \A entry \in ToSet(hashTable[h]) :
          /\ entry.phyMemid \in Loaded /\ phyMem[entry.phyMemid] = entry.page
          /\ hashIndex(entry.page) = h

(***************************************************************************)
(* No step follows a NULL pointer of the frame list, although a hit on the *)
(* tail links it to itself and a later hit cuts frames off the list.       *)
(***************************************************************************)
NoNullDereference ==
    /\ len > 0 => First(list) \in Loaded
    /\ \A f \in Loaded : list.next[f] # Null => list.prev[f] # Null

(***************************************************************************)
(* The report's accesses add up per process: every reference found an      *)
(* empty bucket or not, an empty bucket is a fault, and a non-empty one    *)
(* costs at least one look and at most one per frame.                      *)
(***************************************************************************)
AccessesAddUp ==
    \A j \in Procs :
        /\ numIHTNULLAccess[j] + numIHTNonNULLAccess[j] = ntraces[j]
        /\ numPageHit[j] + numPageFault[j] = ntraces[j]
        /\ numIHTNULLAccess[j] <= numPageFault[j]
        /\ numIHTConflictAccess[j] \in numIHTNonNULLAccess[j] .. numIHTNonNULLAccess[j] * maxLen

===========================================================================
