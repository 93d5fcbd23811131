------------------------- MODULE ProcessLifecycle -------------------------
(***************************************************************************)
(* What a CPU scheduler promises its processes, whatever its policy: a     *)
(* process is admitted once, only one process holds the CPU, each unit of  *)
(* CPU time goes to the process that holds it, and a process that has had  *)
(* the service it asked for leaves and never comes back.                   *)
(* Scheduler.tla implements this specification.                            *)
(***************************************************************************)
EXTENDS Naturals

CONSTANT Procs

VARIABLES
    demand,   \* demand[p]: the CPU time process p asks for
    life,     \* life[p]: where p is in its life
    work      \* work[p]: the CPU time p has had

vars == <<demand, life, work>>

Lives == {"new", "ready", "running", "waiting", "exit"}

TypeOK ==
    /\ demand \in [Procs -> Nat \ {0}]
    /\ life \in [Procs -> Lives]
    /\ work \in [Procs -> Nat]

Init ==
    /\ demand \in [Procs -> Nat \ {0}]
    /\ life = [p \in Procs |-> "new"]
    /\ work = [p \in Procs |-> 0]

Move(p, from, to) ==
    /\ life[p] = from
    /\ life' = [life EXCEPT ![p] = to]
    /\ UNCHANGED <<demand, work>>

Admit(p) == Move(p, "new", "ready")

Dispatch(p) ==
    /\ \A q \in Procs : life[q] # "running"
    /\ Move(p, "ready", "running")

Preempt(p) == Move(p, "running", "ready")

Block(p) == Move(p, "running", "waiting")

Wake(p) == Move(p, "waiting", "ready")

Serve(p) ==
    /\ life[p] = "running"
    /\ work' = [work EXCEPT ![p] = @ + 1]
    /\ life' = [life EXCEPT ![p] = IF work[p] + 1 = demand[p] THEN "exit" ELSE "running"]
    /\ UNCHANGED demand

Next ==
    \E p \in Procs :
        \/ Admit(p)
        \/ Dispatch(p)
        \/ Preempt(p)
        \/ Block(p)
        \/ Wake(p)
        \/ Serve(p)

Spec == Init /\ [][Next]_vars

===========================================================================
