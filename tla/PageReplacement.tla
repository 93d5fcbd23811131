-------------------------- MODULE PageReplacement --------------------------
(***************************************************************************)
(* What FIFO and LRU page replacement are: the resident pages in the order *)
(* in which they will be replaced.  A page that is not resident faults and *)
(* takes a free frame or that of the first page in the order; LRU moves a  *)
(* page that is hit to the end, FIFO leaves it where it is.                *)
(***************************************************************************)
EXTENDS Naturals, Sequences, SequencesExt

CONSTANTS Procs, Pages    \* a page is <<its process, its number>>

VARIABLES
    policy,       \* "FIFO" or "LRU"
    capacity,     \* the number of frames
    order,        \* the resident pages, next victim first
    last,         \* the page referenced last; anything before the first reference
    hits, faults  \* per process, what the simulation reports

vars == <<policy, capacity, order, last, hits, faults>>

Init ==
    /\ policy \in {"FIFO", "LRU"}
    /\ capacity \in Nat \ {0}
    /\ order = << >>
    /\ hits = [j \in Procs |-> 0]
    /\ faults = [j \in Procs |-> 0]

Resident(p) == p \in ToSet(order)

Hit(p) ==
    /\ Resident(p)
    /\ last' = p
    /\ order' = IF policy = "LRU" THEN Append(RemoveFirst(order, p), p) ELSE order
    /\ hits' = [hits EXCEPT ![p[1]] = @ + 1]
    /\ UNCHANGED <<policy, capacity, faults>>

Load(p) ==
    /\ ~Resident(p)
    /\ last' = p
    /\ Len(order) < capacity
    /\ order' = Append(order, p)
    /\ faults' = [faults EXCEPT ![p[1]] = @ + 1]
    /\ UNCHANGED <<policy, capacity, hits>>

Replace(p) ==
    /\ ~Resident(p)
    /\ last' = p
    /\ Len(order) = capacity
    /\ order' = Append(Tail(order), p)
    /\ faults' = [faults EXCEPT ![p[1]] = @ + 1]
    /\ UNCHANGED <<policy, capacity, hits>>

Next == \E p \in Pages : Hit(p) \/ Load(p) \/ Replace(p)

Spec == Init /\ [][Next]_vars

===========================================================================
