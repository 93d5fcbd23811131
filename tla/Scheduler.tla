----------------------------- MODULE Scheduler -----------------------------
(***************************************************************************)
(* The CPU scheduling simulator of                                         *)
(* src/os_c_linux/schedule_simulation/schedule.c.                          *)
(*                                                                         *)
(* procExecSim advances the clock one tick per iteration of its loop and   *)
(* then goes through its CASEs in the order 4 (terminate), 5 (I/O          *)
(* request), 2 (fork), 3 (I/O done), 1 (quantum expired), putting the      *)
(* running process back and calling the policy.  pc names the CASE the     *)
(* loop is at; each CASE is an action.  What main draws with random() is   *)
(* drawn by Init: every workload the parameters allow is an initial state. *)
(***************************************************************************)
EXTENDS Integers, FiniteSets, Sequences, SequencesExt, Functions

CONSTANTS
    NPROC, NIOREQ, QUANTUM,
    Methods,                                    \* the SCHEDULING_METHODs considered
    MIN_INT_ARRTIME, MAX_INT_ARRTIME,
    MIN_SERVTIME, MAX_SERVTIME,
    MIN_IO_SERVTIME, MAX_IO_SERVTIME,
    MIN_IOREQ_INT_ARRTIME,
    MaxTime                                     \* model bound: the last tick simulated

AllMethods == {"RR", "SJF", "SRTN", "GS", "SFS"}

(***************************************************************************)
(* NIOREQ = 0 makes the code read ioReqIntArrTime[0] of an empty array, a  *)
(* process with service time 0 never equals its target, and a first        *)
(* arrival at 0 is missed because the clock is 1 at the first comparison.  *)
(***************************************************************************)
ASSUME ParamsAssumption ==
    /\ NPROC \in Nat \ {0}
    /\ NIOREQ \in Nat \ {0}
    /\ QUANTUM \in Nat \ {0}
    /\ Methods \subseteq AllMethods
    /\ MIN_INT_ARRTIME \in Nat \ {0}
    /\ MAX_INT_ARRTIME \in Nat
    /\ MIN_SERVTIME \in Nat \ {0}
    /\ MAX_SERVTIME \in Nat
    /\ MIN_IO_SERVTIME \in Nat
    /\ MAX_IO_SERVTIME \in Nat
    /\ MIN_IOREQ_INT_ARRTIME \in Nat
    /\ MaxTime \in Nat

Procs == 0 .. NPROC - 1
Requests == 0 .. NIOREQ - 1
Idle == -1

VARIABLES
    \* main: the workload and the policy
    schFunc, procIntArrTime, procServTime, ioReqIntArrTime, ioServTime,
    \* procTable: one function per field (saveReg1 always repeats saveReg0)
    state, serviceTime, startTime, endTime, priority, saveReg,
    \* the CPU and the queues
    runningProc, cpuReg, readyQueue, ioDoneEventQueue,
    \* locals of procExecSim
    currentTime, qTime, cpuUseTime, nproc, termProc, nioreq,
    nextForkTime, nextIOReqTime, scheCheck, putReadyCheck,
    pc

workload == <<schFunc, procIntArrTime, procServTime, ioReqIntArrTime, ioServTime>>
times == <<startTime, endTime>>
clocks == <<currentTime, qTime, cpuUseTime>>
flags == <<scheCheck, putReadyCheck>>
vars == <<workload, state, serviceTime, times, priority, saveReg, runningProc, cpuReg,
          readyQueue, ioDoneEventQueue, clocks, nproc, termProc, nioreq,
          nextForkTime, nextIOReqTime, flags, pc>>

Cases == {"tick", "terminate", "ioreq", "fork", "iodone", "quantum", "putready", "schedule", "done"}
States == {"IDLE", "READY", "BLOCKED", "RUNNING", "TERMINATE"}

----------------------------------------------------------------------------
\* The workload main generates.

\* The sums of the first k of n values, for every k.
Sums(f, n) == LET sum[k \in 0 .. n] == IF k = 0 THEN 0 ELSE sum[k - 1] + f[k - 1] IN sum

SumOf(f, n) == Sums(f, n)[n]

Abs(n) == IF n < 0 THEN -n ELSE n

(***************************************************************************)
(* random() % x lies in 0 .. |x|-1 in C also when x is negative, which it  *)
(* is when the average request interval is below MIN_IOREQ_INT_ARRTIME.    *)
(***************************************************************************)
IOReqIntArrTimes(servTime) ==
    LET ioReqAvgIntArrTime == SumOf(servTime, NPROC) \div (NIOREQ + 1)
        span == Abs((ioReqAvgIntArrTime - MIN_IOREQ_INT_ARRTIME) * 2 + 1)
    IN  MIN_IOREQ_INT_ARRTIME .. MIN_IOREQ_INT_ARRTIME + span - 1

Workload ==
    /\ schFunc \in Methods
    /\ procIntArrTime \in [Procs -> MIN_INT_ARRTIME .. MAX_INT_ARRTIME]
    /\ procServTime \in [Procs -> MIN_SERVTIME .. MAX_SERVTIME]
    /\ ioReqIntArrTime \in [Requests -> IOReqIntArrTimes(procServTime)]
    /\ ioServTime \in [Requests -> MIN_IO_SERVTIME .. MAX_IO_SERVTIME]

initProcTable ==
    /\ state = [p \in Procs |-> "IDLE"]
    /\ serviceTime = [p \in Procs |-> 0]
    /\ startTime = [p \in Procs |-> 0]
    /\ endTime = [p \in Procs |-> 0]
    /\ priority = [p \in Procs |-> 0]
    /\ saveReg = [p \in Procs |-> 0]

Init ==
    /\ Workload
    /\ initProcTable
    /\ runningProc = Idle /\ cpuReg = 0
    /\ readyQueue = << >> /\ ioDoneEventQueue = {}
    /\ currentTime = 0 /\ qTime = 0 /\ cpuUseTime = 0
    /\ nproc = 0 /\ termProc = 0 /\ nioreq = 0
    /\ nextForkTime = procIntArrTime[0]
    /\ nextIOReqTime = ioReqIntArrTime[0]
    /\ scheCheck = FALSE /\ putReadyCheck = FALSE
    /\ pc = "tick"

----------------------------------------------------------------------------
\* The policies: Better(p, q) when p is strictly preferred to q.  Each scan of
\* the ready queue keeps the first process that no later one strictly beats.

SJFBetter(p, q) == procServTime[p] < procServTime[q]

\* Slip: the service already given is ignored.
SRTNBetterByTotal(p, q) == procServTime[p] < procServTime[q]

SRTNBetter(p, q) == procServTime[p] - serviceTime[p] < procServTime[q] - serviceTime[q]

GSBetter(p, q) == serviceTime[p] * procServTime[q] < serviceTime[q] * procServTime[p]

SFSBetter(p, q) == priority[p] > priority[q]

Better(p, q) ==
    \/ schFunc = "SJF" /\ SJFBetter(p, q)
    \/ schFunc = "SRTN" /\ SRTNBetter(p, q)
    \/ schFunc = "GS" /\ GSBetter(p, q)
    \/ schFunc = "SFS" /\ SFSBetter(p, q)

\* Slip: ties go to the last process of the queue.
ChosenLast(i) ==
    /\ \A j \in 1 .. Len(readyQueue) : ~Better(readyQueue[j], readyQueue[i])
    /\ \A j \in i + 1 .. Len(readyQueue) : Better(readyQueue[i], readyQueue[j])

\* Position i of the ready queue holds the process the policy takes.
Chosen(i) ==
    /\ \A j \in 1 .. Len(readyQueue) : ~Better(readyQueue[j], readyQueue[i])
    /\ \A j \in 1 .. i - 1 : Better(readyQueue[i], readyQueue[j])

----------------------------------------------------------------------------
\* The loop of procExecSim, one action per part of its body.

\* Slip: a process that has just blocked or ended counts as running.
CpuIsTaken == runningProc # Idle

RunningIsActive == runningProc # Idle /\ state[runningProc] = "RUNNING"

\* while: the clock, the service given and compute().
Tick ==
    /\ pc = "tick"
    /\ currentTime < MaxTime
    /\ currentTime' = currentTime + 1
    /\ qTime' = qTime + 1
    /\ IF runningProc = Idle
         THEN UNCHANGED <<serviceTime, cpuUseTime>>
         ELSE /\ serviceTime' = [serviceTime EXCEPT ![runningProc] = @ + 1]
              /\ cpuUseTime' = cpuUseTime + 1
    /\ cpuReg' = cpuReg + runningProc
    /\ pc' = "terminate"
    /\ UNCHANGED <<workload, state, times, priority, saveReg, runningProc, readyQueue,
                   ioDoneEventQueue, nproc, termProc, nioreq, nextForkTime,
                   nextIOReqTime, flags>>

JobDone == runningProc # Idle /\ serviceTime[runningProc] = procServTime[runningProc]

\* CASE 4: the process job done and terminates.
Terminate ==
    /\ pc = "terminate"
    /\ JobDone
    /\ state' = [state EXCEPT ![runningProc] = "TERMINATE"]
    /\ endTime' = [endTime EXCEPT ![runningProc] = currentTime]
    /\ saveReg' = [saveReg EXCEPT ![runningProc] = cpuReg]
    /\ termProc' = termProc + 1
    /\ IF termProc' = NPROC
         THEN pc' = "done" /\ UNCHANGED scheCheck
         ELSE pc' = "ioreq" /\ scheCheck' = TRUE
    /\ UNCHANGED <<workload, serviceTime, startTime, priority, runningProc, cpuReg, readyQueue,
                   ioDoneEventQueue, clocks, nproc, nioreq, nextForkTime,
                   nextIOReqTime, putReadyCheck>>

\* Slip: the requests are not counted against NIOREQ.
IORequestDueForever == cpuUseTime = nextIOReqTime

IORequestDue == cpuUseTime = nextIOReqTime /\ nioreq < NIOREQ

\* The array entry ioDoneEvent[nioreq]; the queue keeps entries in index order.
NewIODoneEvent ==
    [req |-> nioreq, procid |-> runningProc, doneTime |-> currentTime + ioServTime[nioreq]]

\* CASE 5: request IO operations.  On an idle CPU the request is only counted.
IORequest ==
    /\ pc = "ioreq"
    /\ IORequestDue
    /\ IF runningProc = Idle
         THEN UNCHANGED <<ioDoneEventQueue, state, saveReg, priority>>
         ELSE /\ ioDoneEventQueue' = ioDoneEventQueue \cup {NewIODoneEvent}
              /\ state' = [state EXCEPT ![runningProc] = "BLOCKED"]
              /\ saveReg' = [saveReg EXCEPT ![runningProc] = cpuReg]
              /\ priority' = [priority EXCEPT ![runningProc] = IF qTime # QUANTUM THEN @ + 1 ELSE @]
    /\ nioreq' = nioreq + 1
    /\ nextIOReqTime' = IF nioreq' < NIOREQ THEN nextIOReqTime + ioReqIntArrTime[nioreq'] ELSE nextIOReqTime
    /\ scheCheck' = TRUE
    /\ pc' = "fork"
    /\ UNCHANGED <<workload, serviceTime, times, runningProc, cpuReg, readyQueue, clocks,
                   nproc, termProc, nextForkTime, putReadyCheck>>

ForkDue == currentTime = nextForkTime /\ nproc < NPROC

\* CASE 2: a new process created.
Fork ==
    /\ pc = "fork"
    /\ ForkDue
    /\ readyQueue' = Append(readyQueue, nproc)
    /\ state' = [state EXCEPT ![nproc] = "READY"]
    /\ startTime' = [startTime EXCEPT ![nproc] = currentTime]
    /\ nproc' = nproc + 1
    /\ nextForkTime' = IF nproc' < NPROC THEN nextForkTime + procIntArrTime[nproc'] ELSE nextForkTime
    /\ putReadyCheck' = (putReadyCheck \/ RunningIsActive)
    /\ scheCheck' = TRUE
    /\ pc' = "iodone"
    /\ UNCHANGED <<workload, serviceTime, endTime, priority, saveReg, runningProc, cpuReg,
                   ioDoneEventQueue, clocks, termProc, nioreq, nextIOReqTime>>

DueEvents == {e \in ioDoneEventQueue : e.doneTime = currentTime}

\* Slip: off by one, a process that needs one more tick is dropped.
StillNeedsTwoTicks(p) == procServTime[p] > serviceTime[p] + 1

\* Slip: whoever wakes up becomes ready.
AlwaysReady(p) == p \in Procs

StillNeedsService(p) == procServTime[p] # serviceTime[p]

\* CASE 3: IO Done Event, one event of the queue per step, in queue order.
IODone ==
    /\ pc = "iodone"
    /\ \E e \in DueEvents :
        /\ \A f \in DueEvents : e.req <= f.req
        /\ IF StillNeedsService(e.procid)
             THEN /\ state' = [state EXCEPT ![e.procid] = "READY"]
                  /\ readyQueue' = Append(readyQueue, e.procid)
             ELSE /\ state' = [state EXCEPT ![e.procid] = "TERMINATE"]
                  /\ UNCHANGED readyQueue
        /\ ioDoneEventQueue' = ioDoneEventQueue \ {e}
    /\ putReadyCheck' = (putReadyCheck \/ RunningIsActive)
    /\ scheCheck' = TRUE
    /\ UNCHANGED <<workload, serviceTime, times, priority, saveReg, runningProc, cpuReg, clocks,
                   nproc, termProc, nioreq, nextForkTime, nextIOReqTime, pc>>

\* Slip: off by one.
QuantumExceeded ==
    /\ qTime > QUANTUM
    /\ runningProc # Idle
    /\ state[runningProc] \in {"RUNNING", "BLOCKED"}

QuantumExpired ==
    /\ qTime = QUANTUM
    /\ runningProc # Idle
    /\ state[runningProc] \in {"RUNNING", "BLOCKED"}

\* CASE 1: the quantum expires.
Quantum ==
    /\ pc = "quantum"
    /\ QuantumExpired
    /\ priority' = [priority EXCEPT ![runningProc] = @ - 1]
    /\ putReadyCheck' = (putReadyCheck \/ RunningIsActive)
    /\ scheCheck' = (scheCheck \/ RunningIsActive)
    /\ pc' = "putready"
    /\ UNCHANGED <<workload, state, serviceTime, times, saveReg, runningProc, cpuReg, readyQueue,
                   ioDoneEventQueue, clocks, nproc, termProc, nioreq, nextForkTime,
                   nextIOReqTime>>

\* if (putReadyCheck == 1): the running process goes back to the ready queue.
PutReady ==
    /\ pc = "putready"
    /\ putReadyCheck
    /\ putReadyCheck' = FALSE
    /\ readyQueue' = Append(readyQueue, runningProc)
    /\ state' = [state EXCEPT ![runningProc] = "READY"]
    /\ saveReg' = [saveReg EXCEPT ![runningProc] = cpuReg]
    /\ pc' = "schedule"
    /\ UNCHANGED <<workload, serviceTime, times, priority, runningProc, cpuReg, ioDoneEventQueue,
                   clocks, nproc, termProc, nioreq, nextForkTime, nextIOReqTime, scheCheck>>

\* Slip: the registers are not restored.
DispatchWithoutRestore(i) ==
    /\ runningProc' = readyQueue[i]
    /\ state' = [state EXCEPT ![readyQueue[i]] = "RUNNING"]
    /\ readyQueue' = RemoveAt(readyQueue, i)
    /\ UNCHANGED cpuReg

\* The end of every policy function: take position i off the queue and load it.
Dispatch(i) ==
    /\ runningProc' = readyQueue[i]
    /\ state' = [state EXCEPT ![readyQueue[i]] = "RUNNING"]
    /\ cpuReg' = saveReg[readyQueue[i]]
    /\ readyQueue' = RemoveAt(readyQueue, i)

\* Slip: a queue of one counts as empty.
DispatchIdleEarly ==
    /\ Len(readyQueue) <= 1
    /\ runningProc' = Idle
    /\ UNCHANGED <<state, cpuReg, readyQueue>>

DispatchIdle ==
    /\ readyQueue = << >>
    /\ runningProc' = Idle
    /\ UNCHANGED <<state, cpuReg, readyQueue>>

\* if (scheCheck == 1): scheduler().
Schedule ==
    /\ pc = "schedule"
    /\ scheCheck
    /\ qTime' = 0
    /\ scheCheck' = FALSE
    /\ \/ DispatchIdle
       \/ \E i \in 1 .. Len(readyQueue) : Chosen(i) /\ Dispatch(i)
    /\ pc' = "tick"
    /\ UNCHANGED <<workload, serviceTime, times, priority, saveReg, ioDoneEventQueue,
                   currentTime, cpuUseTime, nproc, termProc, nioreq, nextForkTime,
                   nextIOReqTime, putReadyCheck>>

\* The condition of the CASE the loop is at is false.
SkipCase ==
    /\ \/ pc = "terminate" /\ ~JobDone /\ pc' = "ioreq"
       \/ pc = "ioreq" /\ ~IORequestDue /\ pc' = "fork"
       \/ pc = "fork" /\ ~ForkDue /\ pc' = "iodone"
       \/ pc = "iodone" /\ DueEvents = {} /\ pc' = "quantum"
       \/ pc = "quantum" /\ ~QuantumExpired /\ pc' = "putready"
       \/ pc = "putready" /\ ~putReadyCheck /\ pc' = "schedule"
       \/ pc = "schedule" /\ ~scheCheck /\ pc' = "tick"
    /\ UNCHANGED <<workload, state, serviceTime, times, priority, saveReg, runningProc, cpuReg,
                   readyQueue, ioDoneEventQueue, clocks, nproc, termProc, nioreq,
                   nextForkTime, nextIOReqTime, flags>>

\* The program has left the loop, or the model has reached its horizon.
Stopped == pc = "done" \/ (pc = "tick" /\ currentTime = MaxTime)

Stop == Stopped /\ UNCHANGED vars

procExecSim ==
    \/ Tick \/ Terminate \/ IORequest \/ Fork \/ IODone
    \/ Quantum \/ PutReady \/ Schedule \/ SkipCase

Next == procExecSim \/ Stop

Spec == Init /\ [][Next]_vars

\* One sequential thread: the loop always takes its next step.
FairSpec == Spec /\ WF_vars(procExecSim)

----------------------------------------------------------------------------
\* Properties.

WorkloadOK ==
    /\ schFunc \in Methods
    /\ procIntArrTime \in [Procs -> Nat \ {0}]
    /\ procServTime \in [Procs -> Nat \ {0}]
    /\ ioReqIntArrTime \in [Requests -> Nat]
    /\ ioServTime \in [Requests -> Nat]

ProcTableOK ==
    /\ state \in [Procs -> States]
    /\ serviceTime \in [Procs -> Nat]
    /\ startTime \in [Procs -> Nat]
    /\ endTime \in [Procs -> Nat]
    /\ priority \in [Procs -> Int]
    /\ saveReg \in [Procs -> Int]

QueuesOK ==
    /\ runningProc \in Procs \cup {Idle}
    /\ readyQueue \in Seq(Procs)
    /\ ioDoneEventQueue \subseteq [req : Requests, procid : Procs, doneTime : Nat]

LocalsOK ==
    /\ cpuReg \in Int
    /\ currentTime \in 0 .. MaxTime
    /\ qTime \in Nat
    /\ cpuUseTime \in Nat
    /\ nproc \in 0 .. NPROC
    /\ termProc \in 0 .. NPROC
    /\ nioreq \in 0 .. NIOREQ
    /\ nextForkTime \in Nat
    /\ nextIOReqTime \in Nat
    /\ scheCheck \in BOOLEAN
    /\ putReadyCheck \in BOOLEAN
    /\ pc \in Cases

TypeOK == WorkloadOK /\ ProcTableOK /\ QueuesOK /\ LocalsOK

InState(s) == {p \in Procs : state[p] = s}

ReadyAreQueued == InState("READY") = ToSet(readyQueue)
QueuedOnce == IsInjective(readyQueue)
BlockedHaveEvents == InState("BLOCKED") = {e.procid : e \in ioDoneEventQueue}
OneEventEach == \A e, f \in ioDoneEventQueue : e.procid = f.procid => e = f
RunningIsOnCpu == InState("RUNNING") \subseteq {runningProc}
CpuIsRunning == pc = "tick" /\ runningProc # Idle => state[runningProc] = "RUNNING"

(***************************************************************************)
(* A process is in exactly one place, in the middle of an iteration too:   *)
(* it is READY iff the ready queue holds it, and then once; BLOCKED iff    *)
(* exactly one event of ioDoneEventQueue will wake it; RUNNING only on the *)
(* CPU; and the CPU computes for a RUNNING process.  The CASEs move        *)
(* processes and set putReadyCheck independently of each other.            *)
(***************************************************************************)
ProcessPlacement ==
    /\ ReadyAreQueued
    /\ QueuedOnce
    /\ BlockedHaveEvents
    /\ OneEventEach
    /\ RunningIsOnCpu
    /\ CpuIsRunning

(***************************************************************************)
(* The context switch loses nothing: the registers of a process, in the    *)
(* CPU while it runs and in saveReg otherwise, hold its id once for every  *)
(* tick it was served (what compute() leaves and printResult sums up).     *)
(***************************************************************************)
RegistersTrackService ==
    /\ \A p \in Procs : state[p] # "RUNNING" => saveReg[p] = p * serviceTime[p]
    /\ runningProc # Idle => cpuReg = runningProc * serviceTime[runningProc]

(***************************************************************************)
(* The CPU does not idle through a tick while a process is ready.          *)
(***************************************************************************)
WorkConserving == pc = "tick" /\ runningProc = Idle => readyQueue = << >>

(***************************************************************************)
(* No process computes for longer than QUANTUM ticks in one turn.          *)
(***************************************************************************)
QuantumBound == pc = "tick" /\ runningProc # Idle => qTime < QUANTUM

(***************************************************************************)
(* Whoever gets a tick is the process its policy says, compared with all   *)
(* that wait: every event that could change the answer (arrival, wake-up,  *)
(* expiry) leads to a new choice before the tick.  Guaranteed Scheduling   *)
(* promises it only at the start of a turn, since the ratio of the running *)
(* process grows during it.                                                *)
(***************************************************************************)
PolicyRespected ==
    pc = "tick" /\ runningProc # Idle =>
        \A q \in InState("READY") :
            /\ schFunc = "SJF" => procServTime[runningProc] <= procServTime[q]
            /\ schFunc = "SRTN" => procServTime[runningProc] - serviceTime[runningProc]
                                    <= procServTime[q] - serviceTime[q]
            /\ schFunc = "GS" /\ qTime = 0 => serviceTime[runningProc] * procServTime[q]
                                             <= serviceTime[q] * procServTime[runningProc]
            /\ schFunc = "SFS" => priority[runningProc] >= priority[q]

Served(p) == serviceTime[p] = procServTime[p]

(***************************************************************************)
(* A process is served exactly what it asked for and termProc counts those *)
(* that were, although an I/O request of the tick in which it finished     *)
(* takes a process through BLOCKED once more; its turnaround is at least   *)
(* its service time.                                                       *)
(***************************************************************************)
ServedExactly ==
    /\ \A p \in Procs : serviceTime[p] <= procServTime[p]
    /\ pc # "terminate" =>
          /\ termProc = Cardinality({p \in Procs : Served(p)})
          /\ \A p \in Procs : Served(p) => endTime[p] - startTime[p] >= procServTime[p]
    /\ \A p \in Procs : state[p] \in {"READY", "IDLE"} => ~Served(p)

(***************************************************************************)
(* The simulation ends in time: idle ticks are spent only before the last  *)
(* arrival or while an I/O request is served.                              *)
(***************************************************************************)
MakespanBound ==
    currentTime <= SumOf(procIntArrTime, NPROC) + SumOf(procServTime, NPROC)
                   + SumOf(ioServTime, NIOREQ)

Position(p) == CHOOSE i \in 1 .. Len(readyQueue) : readyQueue[i] = p

(***************************************************************************)
(* Round robin is first come, first served: while p waits, nobody behind   *)
(* it in the queue gets ahead of it or leaves the queue.                   *)
(***************************************************************************)
NoOvertaking ==
    [][schFunc = "RR" =>
         \A p, q \in ToSet(readyQueue) :
             p \in ToSet(readyQueue') /\ Position(p) < Position(q) =>
                 q \in ToSet(readyQueue') /\ Position(p)' < Position(q)']_vars

(***************************************************************************)
(* The loop ends: every process of every workload is served.               *)
(***************************************************************************)
Completes == <>(pc = "done")

----------------------------------------------------------------------------
\* Scheduler implements ProcessLifecycle.

\* A process has left as soon as it is served, wherever the tail of the
\* iteration still takes it.
LifeOf(p) ==
    CASE Served(p) -> "exit"
      [] ~Served(p) /\ state[p] = "IDLE" -> "new"
      [] ~Served(p) /\ state[p] = "READY" -> "ready"
      [] ~Served(p) /\ state[p] = "RUNNING" -> "running"
      [] ~Served(p) /\ state[p] = "BLOCKED" -> "waiting"

life == [p \in Procs |-> LifeOf(p)]

Lifecycle == INSTANCE ProcessLifecycle WITH demand <- procServTime, work <- serviceTime

(***************************************************************************)
(* Every step of the simulator is a step of ProcessLifecycle or changes    *)
(* nothing a process can see.                                              *)
(***************************************************************************)
ImplementsLifecycle == Lifecycle!Spec

----------------------------------------------------------------------------
\* The strengthening that makes the invariants inductive.

\* scheCheck is raised exactly when the CPU has to be given away: a process
\* that lost RUNNING raises it, and whoever raises it over a RUNNING process
\* raises putReadyCheck as well.
FlagsInv ==
    /\ scheCheck => pc \notin {"tick", "terminate"}
    /\ putReadyCheck => RunningIsActive /\ scheCheck /\ pc \in {"iodone", "quantum", "putready"}
    /\ runningProc # Idle /\ ~RunningIsActive => scheCheck \/ pc = "done"
    /\ scheCheck /\ RunningIsActive => putReadyCheck
    /\ pc = "ioreq" /\ runningProc # Idle => state[runningProc] \in {"RUNNING", "TERMINATE"}
    /\ runningProc = Idle /\ ~scheCheck => readyQueue = << >>

\* How much service a process has had is visible in its state.
ServiceFits(p) ==
    /\ serviceTime[p] <= procServTime[p]
    /\ state[p] \in {"READY", "IDLE"} => ~Served(p)
    /\ state[p] = "RUNNING" /\ pc # "terminate" => ~Served(p)
    /\ state[p] = "TERMINATE" => Served(p)

ServiceInv == \A p \in Procs : ServiceFits(p)

TurnInv ==
    runningProc # Idle =>
        /\ qTime <= QUANTUM
        /\ pc \in {"putready", "schedule", "tick"} /\ ~scheCheck => qTime < QUANTUM

CountInv ==
    /\ pc # "done" => termProc < NPROC
    /\ \A p \in Procs : p >= nproc => state[p] = "IDLE"

(***************************************************************************)
(* The inductive invariant: between any two CASEs the flags say what the   *)
(* places of the processes require of the rest of the iteration.           *)
(***************************************************************************)
IndInv ==
    /\ TypeOK
    /\ FlagsInv
    /\ ProcessPlacement
    /\ RegistersTrackService
    /\ ServiceInv
    /\ TurnInv
    /\ CountInv

----------------------------------------------------------------------------
\* What the source says and the loop does not do.

(***************************************************************************)
(* schedule.c:115: a request is made "only when the process does not       *)
(* terminate".                                                             *)
(***************************************************************************)
IOOnlyWhenNotTerminating == \A e \in ioDoneEventQueue : ~Served(e.procid)

===========================================================================
