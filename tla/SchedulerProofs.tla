-------------------------- MODULE SchedulerProofs --------------------------
(***************************************************************************)
(* Theorems about Scheduler, for every number of processes and requests,   *)
(* every quantum, policy and workload: places and registers of processes,  *)
(* turns on the CPU, the life cycle, the policies, the service, and the    *)
(* time the simulation takes.                                              *)
(***************************************************************************)
EXTENDS Scheduler, SequenceTheorems, FiniteSetTheorems, TLAPS

----------------------------------------------------------------------------
\* The ready queue.

\* Appending a new process to the ready queue (the linking of CASE 2 and CASE 3)
\* adds it to the members and keeps the queue free of repetitions.
LEMMA AppendQueue ==
    ASSUME NEW S, NEW q \in Seq(S), NEW x \in S
    PROVE  /\ Append(q, x) \in Seq(S)
           /\ Append(q, x) # << >>
           /\ ToSet(Append(q, x)) = ToSet(q) \cup {x}
           /\ IsInjective(q) /\ x \notin ToSet(q) => IsInjective(Append(q, x))
<1> DEFINE r == Append(q, x)
<1>1. /\ r \in Seq(S)
      /\ Len(r) = Len(q) + 1
      /\ \A j \in 1 .. Len(q) : r[j] = q[j]
      /\ r[Len(q) + 1] = x
  OBVIOUS
<1>2. DOMAIN r = 1 .. Len(q) + 1 /\ DOMAIN q = 1 .. Len(q) /\ Len(q) \in Nat
  BY <1>1
<1>. HIDE DEF r
<1>3. ToSet(r) = ToSet(q) \cup {x}
  <2>1. ASSUME NEW y \in ToSet(r) PROVE y \in ToSet(q) \cup {x}
    <3>1. PICK j \in 1 .. Len(q) + 1 : y = r[j]
      BY <1>2 DEF ToSet
    <3>2. QED
      BY <3>1, <1>1, <1>2 DEF ToSet
  <2>2. ASSUME NEW y \in ToSet(q) \cup {x} PROVE y \in ToSet(r)
    <3>1. CASE y = x
      BY <3>1, <1>1, <1>2 DEF ToSet
    <3>2. CASE y \in ToSet(q)
      <4>1. PICK j \in 1 .. Len(q) : y = q[j]
        BY <3>2, <1>2 DEF ToSet
      <4>2. r[j] = y /\ j \in DOMAIN r
        BY <4>1, <1>1, <1>2
      <4>3. QED
        BY <4>2 DEF ToSet
    <3>3. QED
      BY <3>1, <3>2
  <2>3. QED
    BY <2>1, <2>2
<1>4. IsInjective(q) /\ x \notin ToSet(q) => IsInjective(r)
  <2>1. \A j \in 1 .. Len(q) : q[j] \in ToSet(q)
    BY <1>2 DEF ToSet
  <2>2. QED
    BY <1>1, <1>2, <2>1 DEF IsInjective
<1>5. r # << >>
  BY <1>1, <1>2
<1>6. QED
  BY <1>1, <1>3, <1>4, <1>5 DEF r

\* Unlinking position i (the end of every policy function) removes just that
\* process from a queue without repetitions.
LEMMA RemoveAtQueue ==
    ASSUME NEW S, NEW q \in Seq(S), NEW i \in 1 .. Len(q), IsInjective(q)
    PROVE  /\ RemoveAt(q, i) \in Seq(S)
           /\ ToSet(RemoveAt(q, i)) = ToSet(q) \ {q[i]}
           /\ IsInjective(RemoveAt(q, i))
           /\ Len(RemoveAt(q, i)) = Len(q) - 1
           /\ \A j \in 1 .. Len(q) - 1 : RemoveAt(q, i)[j] = IF j < i THEN q[j] ELSE q[j + 1]
<1> DEFINE a == SubSeq(q, 1, i - 1)
           b == SubSeq(q, i + 1, Len(q))
           r == a \o b
<1>0. Len(q) \in Nat /\ DOMAIN q = 1 .. Len(q)
  OBVIOUS
<1>1. a \in Seq(S) /\ Len(a) = i - 1 /\ \A j \in 1 .. i - 1 : a[j] = q[j]
  <2>1. \A j \in 1 .. i - 1 : q[j] \in S
    BY <1>0, ElementOfSeq
  <2>2. QED
    BY <1>0, <2>1, SubSeqProperties
<1>2. b \in Seq(S) /\ Len(b) = Len(q) - i /\ \A j \in 1 .. Len(q) - i : b[j] = q[i + j]
  <2>1. \A j \in i + 1 .. Len(q) : q[j] \in S
    BY <1>0, ElementOfSeq
  <2>2. /\ b \in Seq(S)
        /\ Len(b) = IF i + 1 <= Len(q) THEN Len(q) - (i + 1) + 1 ELSE 0
        /\ \A j \in 1 .. Len(q) - (i + 1) + 1 : b[j] = q[i + 1 + j - 1]
    <3>1. i + 1 \in Int /\ Len(q) \in Int
      BY <1>0
    <3>2. QED
      BY <3>1, <2>1, SubSeqProperties
  <2>3. Len(b) = Len(q) - i
    <3>1. ASSUME NEW n \in Nat, n = Len(q), i \in 1 .. n
          PROVE  (IF i + 1 <= n THEN n - (i + 1) + 1 ELSE 0) = n - i
      BY <3>1
    <3>2. QED
      BY <3>1, <2>2, <1>0
  <2>4. ASSUME NEW j \in 1 .. Len(q) - i PROVE b[j] = q[i + j]
    BY <2>2, <1>0
  <2>5. QED
    BY <2>2, <2>3, <2>4
<1>. HIDE DEF a, b
<1>3. /\ r \in Seq(S)
      /\ Len(r) = Len(q) - 1
      /\ \A j \in 1 .. Len(q) - 1 : r[j] = IF j < i THEN q[j] ELSE q[j + 1]
  <2>1. /\ r \in Seq(S)
        /\ Len(r) = Len(a) + Len(b)
        /\ \A j \in 1 .. Len(a) + Len(b) : r[j] = IF j <= Len(a) THEN a[j] ELSE b[j - Len(a)]
    BY <1>1, <1>2, ConcatProperties
  <2>2. Len(a) + Len(b) = Len(q) - 1
    BY <1>0, <1>1, <1>2
  <2>3. ASSUME NEW j \in 1 .. Len(q) - 1 PROVE r[j] = IF j < i THEN q[j] ELSE q[j + 1]
    <3>1. CASE j < i
      <4>1. j \in 1 .. i - 1 /\ j <= Len(a)
        BY <3>1, <1>0, <1>1
      <4>2. QED
        BY <4>1, <3>1, <1>1, <2>1, <2>2
    <3>2. CASE j >= i
      <4>1. j - Len(a) \in 1 .. Len(q) - i /\ ~(j <= Len(a)) /\ i + (j - Len(a)) = j + 1
        BY <3>2, <1>0, <1>1
      <4>2. r[j] = b[j - Len(a)]
        BY <4>1, <2>1, <2>2
      <4>3. b[j - Len(a)] = q[j + 1]
        BY <4>1, <1>2
      <4>4. ~(j < i)
        BY <3>2, <1>0
      <4>5. QED
        BY <4>2, <4>3, <4>4
    <3>3. j < i \/ j >= i
      BY <1>0
    <3>4. QED
      BY <3>1, <3>2, <3>3
  <2>4. QED
    BY <2>1, <2>2, <2>3
<1>4. DOMAIN r = 1 .. Len(q) - 1
  BY <1>3
<1>. HIDE DEF r
<1>5. ToSet(r) = ToSet(q) \ {q[i]}
  <2>1. ASSUME NEW y \in ToSet(r) PROVE y \in ToSet(q) \ {q[i]}
    <3>1. PICK j \in 1 .. Len(q) - 1 : y = r[j]
      BY <1>4 DEF ToSet
    <3>2. PICK k \in 1 .. Len(q) : y = q[k] /\ k # i
      BY <3>1, <1>0, <1>3
    <3>3. QED
      BY <3>2, <1>0 DEF ToSet, IsInjective
  <2>2. ASSUME NEW y \in ToSet(q) \ {q[i]} PROVE y \in ToSet(r)
    <3>1. PICK k \in 1 .. Len(q) : y = q[k] /\ k # i
      BY <1>0 DEF ToSet
    <3>2. PICK j \in 1 .. Len(q) - 1 : y = r[j]
      <4>1. CASE k < i
        BY <4>1, <3>1, <1>0, <1>3
      <4>2. CASE k > i
        <5>1. k - 1 \in 1 .. Len(q) - 1 /\ r[k - 1] = q[k]
          BY <4>2, <1>0, <1>3
        <5>2. QED
          BY <5>1, <3>1
      <4>3. QED
        BY <4>1, <4>2, <3>1, <1>0
    <3>3. QED
      BY <3>2, <1>4 DEF ToSet
  <2>3. QED
    BY <2>1, <2>2
<1>6. IsInjective(r)
  <2>1. ASSUME NEW j \in 1 .. Len(q) - 1, NEW k \in 1 .. Len(q) - 1, r[j] = r[k] PROVE j = k
    <3> DEFINE old(n) == IF n < i THEN n ELSE n + 1
    <3>1. /\ old(j) \in 1 .. Len(q) /\ r[j] = q[old(j)]
          /\ old(k) \in 1 .. Len(q) /\ r[k] = q[old(k)]
      BY <1>0, <1>3
    <3>2. old(j) = old(k) => j = k
      BY <1>0
    <3>. HIDE DEF old
    <3>3. QED
      BY <2>1, <3>1, <3>2, <1>0 DEF IsInjective
  <2>2. QED
    BY <2>1, <1>4 DEF IsInjective
<1>7. RemoveAt(q, i) = r
  BY DEF RemoveAt, r, a, b
<1>8. QED
  BY <1>3, <1>5, <1>6, <1>7

----------------------------------------------------------------------------
\* The inductive invariant.

\* What the proofs use of process numbers.
LEMMA ProcFacts ==
    /\ Procs \subseteq Nat
    /\ Idle \notin Procs /\ Idle \in Int
    /\ 0 \in Procs /\ 0 \in Requests
    /\ \A n \in Nat : n < NPROC => n \in Procs
    /\ \A n \in Nat : n < NIOREQ => n \in Requests
  BY ParamsAssumption DEF Procs, Requests, Idle

\* The invariant holds when main calls procExecSim.
LEMMA InitIndInv == Init => IndInv
<1> SUFFICES ASSUME Init PROVE IndInv
  OBVIOUS
<1> USE ProcFacts DEF Init, initProcTable
<1>1. WorkloadOK
  <2>1. ioReqIntArrTime \in [Requests -> Nat]
    <3>1. ASSUME NEW f PROVE IOReqIntArrTimes(f) \subseteq Nat
      <4> DEFINE top == MIN_IOREQ_INT_ARRTIME
                        + Abs((SumOf(f, NPROC) \div (NIOREQ + 1) - MIN_IOREQ_INT_ARRTIME) * 2 + 1) - 1
      <4>1. IOReqIntArrTimes(f) = MIN_IOREQ_INT_ARRTIME .. top
        BY DEF IOReqIntArrTimes
      <4>. HIDE DEF top
      <4>2. QED
        BY <4>1, ParamsAssumption
    <3>2. QED
      BY <3>1 DEF Workload
  <2>2. procIntArrTime \in [Procs -> Nat \ {0}]
    <3>1. MIN_INT_ARRTIME .. MAX_INT_ARRTIME \subseteq Nat \ {0}
      BY ParamsAssumption
    <3>2. QED
      BY <3>1 DEF Workload
  <2>3. procServTime \in [Procs -> Nat \ {0}]
    <3>1. MIN_SERVTIME .. MAX_SERVTIME \subseteq Nat \ {0}
      BY ParamsAssumption
    <3>2. QED
      BY <3>1 DEF Workload
  <2>4. ioServTime \in [Requests -> Nat]
    <3>1. MIN_IO_SERVTIME .. MAX_IO_SERVTIME \subseteq Nat
      BY ParamsAssumption
    <3>2. QED
      BY <3>1 DEF Workload
  <2>5. QED
    BY <2>1, <2>2, <2>3, <2>4 DEF Workload, WorkloadOK
<1>2. ProcTableOK
  BY DEF ProcTableOK, States
<1>3. QueuesOK
  BY DEF QueuesOK
<1>4. LocalsOK
  <2>1. procIntArrTime[0] \in Nat /\ ioReqIntArrTime[0] \in Nat
    BY <1>1 DEF WorkloadOK
  <2>2. QED
    BY <2>1, ParamsAssumption DEF LocalsOK, Cases
<1>5. ProcessPlacement
  BY DEF ProcessPlacement, ReadyAreQueued, QueuedOnce, BlockedHaveEvents, OneEventEach,
         RunningIsOnCpu, CpuIsRunning, InState, ToSet, IsInjective
<1>6. FlagsInv /\ TurnInv /\ CountInv
  BY ParamsAssumption DEF FlagsInv, TurnInv, CountInv, RunningIsActive
<1>7. RegistersTrackService
  BY DEF RegistersTrackService
<1>8. ServiceInv
  BY <1>1 DEF ServiceInv, ServiceFits, Served, WorkloadOK
<1>9. QED
  BY <1>1, <1>2, <1>3, <1>4, <1>5, <1>6, <1>7, <1>8 DEF IndInv, TypeOK

\* What one process changing its state does to the places of all.
LEMMA MoveOne ==
    ASSUME state \in [Procs -> States], NEW p \in Procs, NEW t \in States,
           state' = [state EXCEPT ![p] = t]
    PROVE  /\ state' \in [Procs -> States]
           /\ \A s : InState(s)' = IF s = t THEN InState(s) \cup {p} ELSE InState(s) \ {p}
           /\ state'[p] = t
           /\ \A q \in Procs : q # p => state'[q] = state[q]
  BY DEF InState

\* A tick gives service to the process on the CPU and moves no process.
LEMMA TickStep == IndInv /\ Tick => IndInv'
<1> SUFFICES ASSUME IndInv, Tick PROVE IndInv'
  OBVIOUS
<1>1. /\ WorkloadOK /\ ProcTableOK /\ QueuesOK /\ LocalsOK /\ FlagsInv /\ ProcessPlacement
      /\ RegistersTrackService /\ ServiceInv /\ TurnInv /\ CountInv
  BY DEF IndInv, TypeOK
<1>2. /\ pc = "tick" /\ pc' = "terminate"
      /\ currentTime < MaxTime /\ currentTime' = currentTime + 1
      /\ qTime' = qTime + 1
      /\ cpuReg' = cpuReg + runningProc
      /\ UNCHANGED <<schFunc, procIntArrTime, procServTime, ioReqIntArrTime, ioServTime>>
      /\ UNCHANGED <<state, startTime, endTime, priority, saveReg, runningProc, readyQueue,
                     ioDoneEventQueue, nproc, termProc, nioreq, nextForkTime, nextIOReqTime,
                     scheCheck, putReadyCheck>>
  BY DEF Tick, workload, times, flags
<1>3. CASE runningProc = Idle
  <2>1. UNCHANGED <<serviceTime, cpuUseTime>>
    BY <1>3 DEF Tick
  <2>2. WorkloadOK' /\ ProcTableOK' /\ QueuesOK' /\ CountInv'
    BY <1>1, <1>2, <2>1 DEF WorkloadOK, ProcTableOK, QueuesOK, CountInv
  <2>3. LocalsOK'
    BY <1>1, <1>2, <1>3, <2>1, ParamsAssumption DEF LocalsOK, Cases, Idle
  <2>4. ProcessPlacement' /\ FlagsInv' /\ TurnInv'
    BY <1>1, <1>2, <1>3 DEF ProcessPlacement, ReadyAreQueued, QueuedOnce, BlockedHaveEvents,
       OneEventEach, RunningIsOnCpu, CpuIsRunning, InState, FlagsInv, RunningIsActive, TurnInv
  <2>5. RegistersTrackService' /\ ServiceInv'
    BY <1>1, <1>2, <1>3, <2>1 DEF RegistersTrackService, ServiceInv, ServiceFits, Served
  <2>6. QED
    BY <2>2, <2>3, <2>4, <2>5 DEF IndInv, TypeOK
<1>4. CASE runningProc # Idle
  <2>1. /\ serviceTime' = [serviceTime EXCEPT ![runningProc] = @ + 1]
        /\ cpuUseTime' = cpuUseTime + 1
    BY <1>4 DEF Tick
  <2>2. /\ runningProc \in Procs
        /\ state[runningProc] = "RUNNING"
        /\ serviceTime \in [Procs -> Nat]
        /\ serviceTime[runningProc] < procServTime[runningProc]
        /\ procServTime \in [Procs -> Nat]
        /\ \A p \in Procs : state[p] = "RUNNING" => p = runningProc
    BY <1>1, <1>2, <1>4 DEF QueuesOK, WorkloadOK, ProcTableOK, ProcessPlacement, CpuIsRunning,
       ServiceInv, ServiceFits, Served, RunningIsOnCpu, InState
  <2>3. serviceTime' \in [Procs -> Nat]
    BY <2>1, <2>2
  <2>4. WorkloadOK' /\ ProcTableOK' /\ QueuesOK' /\ CountInv'
    BY <1>1, <1>2, <2>3 DEF WorkloadOK, ProcTableOK, QueuesOK, CountInv
  <2>5. LocalsOK'
    BY <1>1, <1>2, <2>1, <2>2, ProcFacts, ParamsAssumption DEF LocalsOK, Cases
  <2>6. ProcessPlacement' /\ FlagsInv'
    BY <1>1, <1>2 DEF ProcessPlacement, ReadyAreQueued, QueuedOnce, BlockedHaveEvents,
       OneEventEach, RunningIsOnCpu, CpuIsRunning, InState, FlagsInv, RunningIsActive
  <2>7. TurnInv'
    BY <1>1, <1>2, ParamsAssumption DEF TurnInv, LocalsOK, FlagsInv
  <2>8. RegistersTrackService'
    <3>1. \A p \in Procs : p # runningProc => serviceTime'[p] = serviceTime[p]
      BY <2>1, <2>2
    <3>2. serviceTime'[runningProc] = serviceTime[runningProc] + 1
      BY <2>1, <2>2
    <3>3. \A r, s \in Int : r * s + r = r * (s + 1)
      OBVIOUS
    <3>4. cpuReg' = runningProc * serviceTime'[runningProc]
      BY <1>1, <1>2, <1>4, <2>2, <3>2, <3>3, ProcFacts DEF RegistersTrackService
    <3>5. QED
      BY <1>1, <1>2, <2>2, <3>1, <3>4 DEF RegistersTrackService
  <2>9. ServiceInv'
    BY <1>1, <1>2, <2>1, <2>2 DEF ServiceInv, ServiceFits, Served
  <2>10. QED
    BY <2>4, <2>5, <2>6, <2>7, <2>8, <2>9 DEF IndInv, TypeOK
<1>5. QED
  BY <1>3, <1>4

\* CASE 4: the process on the CPU is done and saves its registers.
LEMMA TerminateStep == IndInv /\ Terminate => IndInv'
<1> SUFFICES ASSUME IndInv, Terminate PROVE IndInv'
  OBVIOUS
<1>1. /\ WorkloadOK /\ ProcTableOK /\ QueuesOK /\ LocalsOK /\ FlagsInv /\ ProcessPlacement
      /\ RegistersTrackService /\ ServiceInv /\ TurnInv /\ CountInv
  BY DEF IndInv, TypeOK
<1>2. /\ pc = "terminate"
      /\ state' = [state EXCEPT ![runningProc] = "TERMINATE"]
      /\ endTime' = [endTime EXCEPT ![runningProc] = currentTime]
      /\ saveReg' = [saveReg EXCEPT ![runningProc] = cpuReg]
      /\ termProc' = termProc + 1
      /\ \/ termProc' = NPROC /\ pc' = "done" /\ UNCHANGED scheCheck
         \/ termProc' # NPROC /\ pc' = "ioreq" /\ scheCheck' = TRUE
      /\ UNCHANGED <<schFunc, procIntArrTime, procServTime, ioReqIntArrTime, ioServTime>>
      /\ UNCHANGED <<serviceTime, startTime, priority, runningProc, cpuReg, readyQueue,
                     ioDoneEventQueue, currentTime, qTime, cpuUseTime, nproc, nioreq,
                     nextForkTime, nextIOReqTime, putReadyCheck>>
  BY DEF Terminate, workload, clocks
<1>3. PICK p \in Procs : /\ p = runningProc /\ p # Idle
                         /\ serviceTime[p] = procServTime[p]
                         /\ state[p] = "RUNNING"
                         /\ ~scheCheck /\ ~putReadyCheck
  BY <1>1, <1>2 DEF Terminate, JobDone, QueuesOK, FlagsInv, RunningIsActive
<1>4. /\ state' \in [Procs -> States]
      /\ \A s : InState(s)' = IF s = "TERMINATE" THEN InState(s) \cup {p} ELSE InState(s) \ {p}
      /\ state'[p] = "TERMINATE"
      /\ \A q \in Procs : q # p => state'[q] = state[q]
  BY <1>1, <1>2, <1>3, MoveOne DEF ProcTableOK, States
<1>5. WorkloadOK' /\ QueuesOK'
  BY <1>1, <1>2 DEF WorkloadOK, QueuesOK
<1>6. ProcTableOK'
  BY <1>1, <1>2, <1>3, <1>4 DEF ProcTableOK, LocalsOK
<1>7. LocalsOK' /\ CountInv'
  <2>1. termProc \in Nat /\ termProc < NPROC
    BY <1>1, <1>2 DEF LocalsOK, CountInv
  <2>2. termProc' \in 0 .. NPROC /\ (pc' # "done" => termProc' < NPROC)
    BY <1>2, <2>1, ParamsAssumption
  <2>3. LocalsOK'
    BY <1>1, <1>2, <2>2 DEF LocalsOK, Cases
  <2>4. \A q \in Procs : q >= nproc' => state'[q] = "IDLE"
    BY <1>1, <1>2, <1>3, <1>4 DEF CountInv
  <2>5. QED
    BY <2>2, <2>3, <2>4 DEF CountInv
<1>8. ProcessPlacement'
  <2>1. p \notin InState("READY") /\ p \notin InState("BLOCKED")
    BY <1>3 DEF InState
  <2>2. /\ InState("READY")' = InState("READY")
        /\ InState("BLOCKED")' = InState("BLOCKED")
        /\ InState("RUNNING")' \subseteq InState("RUNNING")
    BY <1>4, <2>1
  <2>3. UNCHANGED <<readyQueue, ioDoneEventQueue, runningProc>> /\ pc' # "tick"
    BY <1>2
  <2>4. (ReadyAreQueued /\ QueuedOnce)'
    BY <1>1, <2>2, <2>3 DEF ProcessPlacement, ReadyAreQueued, QueuedOnce
  <2>5. (BlockedHaveEvents /\ OneEventEach)'
    BY <1>1, <2>2, <2>3 DEF ProcessPlacement, BlockedHaveEvents, OneEventEach
  <2>6. (RunningIsOnCpu /\ CpuIsRunning)'
    BY <1>1, <2>2, <2>3 DEF ProcessPlacement, RunningIsOnCpu, CpuIsRunning
  <2>7. QED
    BY <2>4, <2>5, <2>6 DEF ProcessPlacement
<1>9. FlagsInv'
  BY <1>1, <1>2, <1>3, <1>4 DEF FlagsInv, RunningIsActive
<1>10. RegistersTrackService'
  BY <1>1, <1>2, <1>3, <1>4 DEF RegistersTrackService, ProcTableOK
<1>11. ServiceInv'
  <2>1. ASSUME NEW q \in Procs, q # p PROVE ServiceFits(q)'
    BY <2>1, <1>1, <1>2, <1>3, <1>4
    DEF ServiceInv, ServiceFits, Served, ProcessPlacement, RunningIsOnCpu, InState
  <2>2. ServiceFits(p)'
    BY <1>1, <1>2, <1>3, <1>4 DEF ServiceInv, ServiceFits, Served
  <2>3. QED
    BY <2>1, <2>2 DEF ServiceInv
<1>12. TurnInv'
  BY <1>1, <1>2, <1>3 DEF TurnInv
<1>13. QED
  BY <1>5, <1>6, <1>7, <1>8, <1>9, <1>10, <1>11, <1>12 DEF IndInv, TypeOK

\* CASE 5: the process on the CPU, which CASE 4 may just have ended, waits for a
\* new event.
LEMMA IORequestStep == IndInv /\ IORequest => IndInv'
<1> SUFFICES ASSUME IndInv, IORequest PROVE IndInv'
  OBVIOUS
<1>1. /\ WorkloadOK /\ ProcTableOK /\ QueuesOK /\ LocalsOK /\ FlagsInv /\ ProcessPlacement
      /\ RegistersTrackService /\ ServiceInv /\ TurnInv /\ CountInv
  BY DEF IndInv, TypeOK
<1>2. /\ pc = "ioreq" /\ pc' = "fork"
      /\ nioreq < NIOREQ /\ nioreq' = nioreq + 1
      /\ nextIOReqTime' = IF nioreq' < NIOREQ THEN nextIOReqTime + ioReqIntArrTime[nioreq'] ELSE nextIOReqTime
      /\ scheCheck' = TRUE
      /\ UNCHANGED <<schFunc, procIntArrTime, procServTime, ioReqIntArrTime, ioServTime>>
      /\ UNCHANGED <<serviceTime, startTime, endTime, runningProc, cpuReg, readyQueue,
                     currentTime, qTime, cpuUseTime, nproc, termProc, nextForkTime, putReadyCheck>>
  BY DEF IORequest, IORequestDue, workload, times, clocks
<1>3. ~putReadyCheck /\ WorkloadOK'
  BY <1>1, <1>2 DEF WorkloadOK, FlagsInv
<1>4. LocalsOK'
  <2>1. nioreq' \in 0 .. NIOREQ /\ (nioreq' < NIOREQ => nioreq' \in Requests)
    BY <1>1, <1>2, ParamsAssumption, ProcFacts DEF LocalsOK
  <2>2. nextIOReqTime' \in Nat
    BY <1>1, <1>2, <2>1 DEF LocalsOK, WorkloadOK
  <2>3. QED
    BY <1>1, <1>2, <2>1, <2>2 DEF LocalsOK, Cases
<1>5. CASE runningProc = Idle
  <2>1. UNCHANGED <<ioDoneEventQueue, state, saveReg, priority>>
    BY <1>5 DEF IORequest
  <2>2. ProcTableOK' /\ QueuesOK' /\ CountInv'
    BY <1>1, <1>2, <2>1 DEF ProcTableOK, QueuesOK, CountInv
  <2>3. ProcessPlacement' /\ FlagsInv' /\ TurnInv'
    BY <1>1, <1>2, <1>5, <2>1
    DEF ProcessPlacement, ReadyAreQueued, QueuedOnce, BlockedHaveEvents, OneEventEach,
        RunningIsOnCpu, CpuIsRunning,
        InState, FlagsInv, RunningIsActive, TurnInv
  <2>4. RegistersTrackService' /\ ServiceInv'
    BY <1>1, <1>2, <1>5, <2>1 DEF RegistersTrackService, ServiceInv, ServiceFits, Served
  <2>5. QED
    BY <1>3, <1>4, <2>2, <2>3, <2>4 DEF IndInv, TypeOK
<1>6. CASE runningProc # Idle
  <2>1. PICK p \in Procs : /\ p = runningProc /\ p # Idle
                           /\ state[p] \in {"RUNNING", "TERMINATE"}
    BY <1>1, <1>2, <1>6 DEF QueuesOK, FlagsInv
  <2>2. PICK e : /\ e \in [req : Requests, procid : Procs, doneTime : Nat]
                 /\ e.procid = p
                 /\ ioDoneEventQueue' = ioDoneEventQueue \cup {e}
    <3>1. nioreq \in Requests /\ currentTime \in Nat
      BY <1>1, <1>2, ParamsAssumption, ProcFacts DEF LocalsOK
    <3>2. currentTime + ioServTime[nioreq] \in Nat
      BY <1>1, <3>1 DEF WorkloadOK
    <3>3. NewIODoneEvent \in [req : Requests, procid : Procs, doneTime : Nat] /\ NewIODoneEvent.procid = p
      BY <2>1, <3>1, <3>2 DEF NewIODoneEvent
    <3>4. QED
      BY <1>6, <3>3 DEF IORequest
  <2>3. /\ state' = [state EXCEPT ![p] = "BLOCKED"]
        /\ saveReg' = [saveReg EXCEPT ![p] = cpuReg]
        /\ priority' = [priority EXCEPT ![p] = IF qTime # QUANTUM THEN @ + 1 ELSE @]
    BY <1>6, <2>1 DEF IORequest
  <2>4. /\ state' \in [Procs -> States]
        /\ \A s : InState(s)' = IF s = "BLOCKED" THEN InState(s) \cup {p} ELSE InState(s) \ {p}
        /\ state'[p] = "BLOCKED"
        /\ \A q \in Procs : q # p => state'[q] = state[q]
    BY <1>1, <2>1, <2>3, MoveOne DEF ProcTableOK, States
  <2>5. ProcTableOK' /\ QueuesOK'
    <3>1. saveReg' \in [Procs -> Int] /\ priority' \in [Procs -> Int]
      BY <1>1, <2>3 DEF ProcTableOK, LocalsOK
    <3>2. ProcTableOK'
      BY <1>1, <1>2, <2>4, <3>1 DEF ProcTableOK
    <3>3. QueuesOK'
      BY <1>1, <1>2, <2>2 DEF QueuesOK
    <3>4. QED
      BY <3>2, <3>3
  <2>6. ProcessPlacement'
    <3>1. p \notin InState("READY") /\ p \notin InState("BLOCKED")
      BY <2>1 DEF InState
    <3>2. {f.procid : f \in ioDoneEventQueue'} = {f.procid : f \in ioDoneEventQueue} \cup {p}
      BY <2>2
    <3>3. ReadyAreQueued' /\ QueuedOnce' /\ RunningIsOnCpu' /\ CpuIsRunning'
      BY <1>1, <1>2, <2>4, <3>1
      DEF ProcessPlacement, ReadyAreQueued, QueuedOnce, RunningIsOnCpu, CpuIsRunning
    <3>4. BlockedHaveEvents'
      BY <1>1, <2>4, <3>2 DEF ProcessPlacement, BlockedHaveEvents
    <3>5. OneEventEach'
      BY <1>1, <2>2, <3>1 DEF ProcessPlacement, BlockedHaveEvents, OneEventEach
    <3>6. QED
      BY <3>3, <3>4, <3>5 DEF ProcessPlacement
  <2>7. FlagsInv' /\ TurnInv' /\ CountInv'
    BY <1>1, <1>2, <1>3, <2>1, <2>4 DEF FlagsInv, RunningIsActive, TurnInv, CountInv
  <2>8. RegistersTrackService'
    BY <1>1, <1>2, <2>1, <2>3, <2>4 DEF RegistersTrackService, ProcTableOK
  <2>9. ServiceInv'
    <3>1. ASSUME NEW q \in Procs, q # p PROVE ServiceFits(q)'
      BY <3>1, <1>1, <1>2, <2>1, <2>4 DEF ServiceInv, ServiceFits, Served
    <3>2. ServiceFits(p)'
      BY <1>1, <1>2, <2>1, <2>4 DEF ServiceInv, ServiceFits, Served
    <3>3. QED
      BY <3>1, <3>2 DEF ServiceInv
  <2>10. QED
    BY <1>3, <1>4, <2>5, <2>6, <2>7, <2>8, <2>9 DEF IndInv, TypeOK
<1>7. QED
  BY <1>5, <1>6

\* CASE 2: the next process of procTable enters the ready queue.
LEMMA ForkStep == IndInv /\ Fork => IndInv'
<1> SUFFICES ASSUME IndInv, Fork PROVE IndInv'
  OBVIOUS
<1>1. /\ WorkloadOK /\ ProcTableOK /\ QueuesOK /\ LocalsOK /\ FlagsInv /\ ProcessPlacement
      /\ RegistersTrackService /\ ServiceInv /\ TurnInv /\ CountInv
  BY DEF IndInv, TypeOK
<1>2. /\ pc = "fork" /\ pc' = "iodone"
      /\ nproc < NPROC /\ nproc' = nproc + 1
      /\ readyQueue' = Append(readyQueue, nproc)
      /\ state' = [state EXCEPT ![nproc] = "READY"]
      /\ startTime' = [startTime EXCEPT ![nproc] = currentTime]
      /\ nextForkTime' = IF nproc' < NPROC THEN nextForkTime + procIntArrTime[nproc'] ELSE nextForkTime
      /\ putReadyCheck' = (putReadyCheck \/ RunningIsActive)
      /\ scheCheck' = TRUE
      /\ UNCHANGED <<schFunc, procIntArrTime, procServTime, ioReqIntArrTime, ioServTime>>
      /\ UNCHANGED <<serviceTime, endTime, priority, saveReg, runningProc, cpuReg, ioDoneEventQueue,
                     currentTime, qTime, cpuUseTime, termProc, nioreq, nextIOReqTime>>
  BY DEF Fork, ForkDue, workload, clocks
<1>3. PICK p \in Procs : p = nproc /\ state[p] = "IDLE"
  <2>1. nproc \in Procs
    BY <1>1, <1>2, ParamsAssumption, ProcFacts DEF LocalsOK
  <2>2. QED
    BY <1>1, <2>1, ProcFacts DEF CountInv
<1>4. /\ state' \in [Procs -> States]
      /\ \A s : InState(s)' = IF s = "READY" THEN InState(s) \cup {p} ELSE InState(s) \ {p}
      /\ state'[p] = "READY"
      /\ \A q \in Procs : q # p => state'[q] = state[q]
  BY <1>1, <1>2, <1>3, MoveOne DEF ProcTableOK, States
<1>5. p \notin InState("READY") /\ p \notin InState("BLOCKED") /\ p \notin InState("RUNNING")
  BY <1>3 DEF InState
<1>6. /\ readyQueue' \in Seq(Procs)
      /\ readyQueue' # << >>
      /\ ToSet(readyQueue') = ToSet(readyQueue) \cup {p}
      /\ IsInjective(readyQueue')
  BY <1>1, <1>2, <1>3, <1>5, AppendQueue DEF QueuesOK, ProcessPlacement, ReadyAreQueued, QueuedOnce
<1>7. WorkloadOK' /\ QueuesOK'
  BY <1>1, <1>2, <1>6 DEF WorkloadOK, QueuesOK
<1>8. ProcTableOK'
  <2>1. currentTime \in Nat /\ startTime' = [startTime EXCEPT ![p] = currentTime]
    BY <1>1, <1>2, <1>3 DEF LocalsOK
  <2>2. startTime' \in [Procs -> Nat]
    BY <1>1, <2>1 DEF ProcTableOK
  <2>3. QED
    BY <1>1, <1>2, <1>4, <2>2 DEF ProcTableOK
<1>9. LocalsOK'
  <2>1. nproc' \in 0 .. NPROC /\ (nproc' < NPROC => nproc' \in Procs)
    BY <1>1, <1>2, ParamsAssumption, ProcFacts DEF LocalsOK
  <2>2. nextForkTime' \in Nat
    BY <1>1, <1>2, <2>1 DEF LocalsOK, WorkloadOK
  <2>3. QED
    BY <1>1, <1>2, <2>1, <2>2 DEF LocalsOK, Cases, RunningIsActive
<1>10. ProcessPlacement'
  BY <1>1, <1>2, <1>4, <1>5, <1>6
  DEF ProcessPlacement, ReadyAreQueued, QueuedOnce, BlockedHaveEvents, OneEventEach,
        RunningIsOnCpu, CpuIsRunning
<1>11. RunningIsActive' = RunningIsActive
  BY <1>1, <1>2, <1>3, <1>4 DEF QueuesOK, RunningIsActive, FlagsInv, ProcessPlacement
<1>12. FlagsInv' /\ TurnInv' /\ RegistersTrackService'
  BY <1>1, <1>2, <1>3, <1>4, <1>11 DEF FlagsInv, TurnInv, RegistersTrackService
<1>13. CountInv'
  <2>1. \A q \in Procs : q >= nproc + 1 => q # p /\ q >= nproc
    BY <1>1, <1>3, ProcFacts DEF LocalsOK
  <2>2. QED
    BY <1>1, <1>2, <1>4, <2>1 DEF CountInv
<1>14. ServiceInv'
  <2>1. ASSUME NEW q \in Procs, q # p PROVE ServiceFits(q)'
    BY <2>1, <1>1, <1>2, <1>4 DEF ServiceInv, ServiceFits, Served
  <2>2. ServiceFits(p)'
    BY <1>1, <1>2, <1>3, <1>4 DEF ServiceInv, ServiceFits, Served
  <2>3. QED
    BY <2>1, <2>2 DEF ServiceInv
<1>15. QED
  BY <1>7, <1>8, <1>9, <1>10, <1>12, <1>13, <1>14 DEF IndInv, TypeOK

\* CASE 3: the process of a due event leaves the blocked ones, to the ready queue
\* or to the end.
LEMMA IODoneStep == IndInv /\ IODone => IndInv'
<1> SUFFICES ASSUME IndInv, IODone PROVE IndInv'
  OBVIOUS
<1>1. /\ WorkloadOK /\ ProcTableOK /\ QueuesOK /\ LocalsOK /\ FlagsInv /\ ProcessPlacement
      /\ RegistersTrackService /\ ServiceInv /\ TurnInv /\ CountInv
  BY DEF IndInv, TypeOK
<1>2. /\ pc = "iodone" /\ pc' = "iodone"
      /\ putReadyCheck' = (putReadyCheck \/ RunningIsActive)
      /\ scheCheck' = TRUE
      /\ UNCHANGED <<schFunc, procIntArrTime, procServTime, ioReqIntArrTime, ioServTime>>
      /\ UNCHANGED <<serviceTime, startTime, endTime, priority, saveReg, runningProc, cpuReg,
                     currentTime, qTime, cpuUseTime, nproc, termProc, nioreq, nextForkTime,
                     nextIOReqTime>>
  BY DEF IODone, workload, times, clocks
<1>3. PICK e \in ioDoneEventQueue :
        /\ IF StillNeedsService(e.procid)
             THEN /\ state' = [state EXCEPT ![e.procid] = "READY"]
                  /\ readyQueue' = Append(readyQueue, e.procid)
             ELSE /\ state' = [state EXCEPT ![e.procid] = "TERMINATE"]
                  /\ UNCHANGED readyQueue
        /\ ioDoneEventQueue' = ioDoneEventQueue \ {e}
  BY DEF IODone, DueEvents
<1>4. PICK p \in Procs : p = e.procid /\ state[p] = "BLOCKED"
  BY <1>1, <1>3 DEF QueuesOK, ProcessPlacement, BlockedHaveEvents, InState
<1>5. p \notin InState("READY") /\ p \notin InState("RUNNING")
  BY <1>4 DEF InState
<1>6. PICK t \in {"READY", "TERMINATE"} :
        /\ state' = [state EXCEPT ![p] = t]
        /\ t = "READY" => serviceTime[p] # procServTime[p] /\ readyQueue' = Append(readyQueue, p)
        /\ t = "TERMINATE" => serviceTime[p] = procServTime[p] /\ readyQueue' = readyQueue
  BY <1>3, <1>4 DEF StillNeedsService
<1>7. /\ state' \in [Procs -> States]
      /\ \A s : InState(s)' = IF s = t THEN InState(s) \cup {p} ELSE InState(s) \ {p}
      /\ state'[p] = t
      /\ \A q \in Procs : q # p => state'[q] = state[q]
  <2>1. t \in States /\ state \in [Procs -> States]
    BY <1>1 DEF ProcTableOK, States
  <2>2. state' = [state EXCEPT ![p] = t]
    BY <1>6
  <2>3. QED
    BY <2>1, <2>2, MoveOne
<1>8. /\ readyQueue' \in Seq(Procs)
      /\ ToSet(readyQueue') = IF t = "READY" THEN ToSet(readyQueue) \cup {p} ELSE ToSet(readyQueue)
      /\ IsInjective(readyQueue')
  <2>1. /\ readyQueue \in Seq(Procs)
        /\ p \notin ToSet(readyQueue)
        /\ IsInjective(readyQueue)
    BY <1>1, <1>5 DEF QueuesOK, ProcessPlacement, ReadyAreQueued, QueuedOnce
  <2>2. CASE t = "READY"
    <3>1. readyQueue' = Append(readyQueue, p)
      BY <2>2, <1>6
    <3>2. /\ Append(readyQueue, p) \in Seq(Procs)
          /\ ToSet(Append(readyQueue, p)) = ToSet(readyQueue) \cup {p}
          /\ IsInjective(Append(readyQueue, p))
      BY <2>1, AppendQueue
    <3>3. QED
      BY <2>2, <3>1, <3>2
  <2>3. CASE t = "TERMINATE"
    BY <2>1, <2>3, <1>6
  <2>4. QED
    BY <2>2, <2>3
<1>9. WorkloadOK' /\ QueuesOK' /\ ProcTableOK'
  BY <1>1, <1>2, <1>3, <1>7, <1>8 DEF WorkloadOK, QueuesOK, ProcTableOK
<1>10. LocalsOK'
  BY <1>1, <1>2 DEF LocalsOK, Cases, RunningIsActive
<1>11. ProcessPlacement'
  <2>1. ReadyAreQueued' /\ QueuedOnce' /\ RunningIsOnCpu' /\ CpuIsRunning'
    BY <1>1, <1>2, <1>5, <1>6, <1>7, <1>8
    DEF ProcessPlacement, ReadyAreQueued, QueuedOnce, RunningIsOnCpu, CpuIsRunning
  <2>2. BlockedHaveEvents' /\ OneEventEach'
    BY <1>1, <1>3, <1>4, <1>6, <1>7 DEF ProcessPlacement, BlockedHaveEvents, OneEventEach
  <2>3. QED
    BY <2>1, <2>2 DEF ProcessPlacement
<1>12. RunningIsActive' = RunningIsActive
  BY <1>1, <1>2, <1>4, <1>6, <1>7 DEF QueuesOK, RunningIsActive
<1>13. FlagsInv' /\ TurnInv'
  BY <1>1, <1>2, <1>12 DEF FlagsInv, TurnInv
<1>14. RegistersTrackService' /\ CountInv'
  BY <1>1, <1>2, <1>4, <1>6, <1>7 DEF RegistersTrackService, CountInv
<1>15. ServiceInv'
  <2>1. ASSUME NEW q \in Procs, q # p PROVE ServiceFits(q)'
    BY <2>1, <1>1, <1>2, <1>7 DEF ServiceInv, ServiceFits, Served
  <2>2. ServiceFits(p)'
    BY <1>1, <1>2, <1>6, <1>7 DEF ServiceInv, ServiceFits, Served
  <2>3. QED
    BY <2>1, <2>2 DEF ServiceInv
<1>16. QED
  BY <1>9, <1>10, <1>11, <1>13, <1>14, <1>15 DEF IndInv, TypeOK

\* CASE 1: the quantum is over; only priorities and flags change.
LEMMA QuantumStep == IndInv /\ Quantum => IndInv'
<1> SUFFICES ASSUME IndInv, Quantum PROVE IndInv'
  OBVIOUS
<1>1. /\ WorkloadOK /\ ProcTableOK /\ QueuesOK /\ LocalsOK /\ FlagsInv /\ ProcessPlacement
      /\ RegistersTrackService /\ ServiceInv /\ TurnInv /\ CountInv
  BY DEF IndInv, TypeOK
<1>2. /\ pc = "quantum" /\ pc' = "putready"
      /\ runningProc # Idle
      /\ priority' = [priority EXCEPT ![runningProc] = @ - 1]
      /\ putReadyCheck' = (putReadyCheck \/ RunningIsActive)
      /\ scheCheck' = (scheCheck \/ RunningIsActive)
      /\ UNCHANGED <<schFunc, procIntArrTime, procServTime, ioReqIntArrTime, ioServTime>>
      /\ UNCHANGED <<state, serviceTime, startTime, endTime, saveReg, runningProc, cpuReg,
                     readyQueue, ioDoneEventQueue, currentTime, qTime, cpuUseTime, nproc, termProc,
                     nioreq, nextForkTime, nextIOReqTime>>
  BY DEF Quantum, QuantumExpired, workload, times, clocks
<1>3. WorkloadOK' /\ QueuesOK' /\ ProcTableOK'
  <2>1. priority' \in [Procs -> Int]
    BY <1>1, <1>2 DEF QueuesOK, ProcTableOK
  <2>2. QED
    BY <1>1, <1>2, <2>1 DEF WorkloadOK, QueuesOK, ProcTableOK
<1>4. LocalsOK'
  BY <1>1, <1>2 DEF LocalsOK, Cases, RunningIsActive
<1>5. ProcessPlacement' /\ CountInv'
  BY <1>1, <1>2
  DEF ProcessPlacement, ReadyAreQueued, QueuedOnce, BlockedHaveEvents, OneEventEach,
      RunningIsOnCpu, CpuIsRunning,
      InState, CountInv
<1>6. RunningIsActive' = RunningIsActive
  BY <1>2 DEF RunningIsActive
<1>7. FlagsInv' /\ TurnInv'
  BY <1>1, <1>2, <1>6 DEF FlagsInv, TurnInv
<1>8. RegistersTrackService' /\ ServiceInv'
  BY <1>1, <1>2 DEF RegistersTrackService, ServiceInv, ServiceFits, Served
<1>9. QED
  BY <1>3, <1>4, <1>5, <1>7, <1>8 DEF IndInv, TypeOK

\* putReadyCheck: the process on the CPU saves its registers and joins the queue.
LEMMA PutReadyStep == IndInv /\ PutReady => IndInv'
<1> SUFFICES ASSUME IndInv, PutReady PROVE IndInv'
  OBVIOUS
<1>1. /\ WorkloadOK /\ ProcTableOK /\ QueuesOK /\ LocalsOK /\ FlagsInv /\ ProcessPlacement
      /\ RegistersTrackService /\ ServiceInv /\ TurnInv /\ CountInv
  BY DEF IndInv, TypeOK
<1>2. /\ pc = "putready" /\ pc' = "schedule"
      /\ putReadyCheck /\ putReadyCheck' = FALSE
      /\ readyQueue' = Append(readyQueue, runningProc)
      /\ state' = [state EXCEPT ![runningProc] = "READY"]
      /\ saveReg' = [saveReg EXCEPT ![runningProc] = cpuReg]
      /\ UNCHANGED <<schFunc, procIntArrTime, procServTime, ioReqIntArrTime, ioServTime>>
      /\ UNCHANGED <<serviceTime, startTime, endTime, priority, runningProc, cpuReg,
                     ioDoneEventQueue, currentTime, qTime, cpuUseTime, nproc, termProc, nioreq,
                     nextForkTime, nextIOReqTime, scheCheck>>
  BY DEF PutReady, workload, times, clocks
<1>3. PICK p \in Procs : p = runningProc /\ p # Idle /\ state[p] = "RUNNING" /\ scheCheck
  BY <1>1, <1>2 DEF QueuesOK, FlagsInv, RunningIsActive
<1>4. /\ state' \in [Procs -> States]
      /\ \A s : InState(s)' = IF s = "READY" THEN InState(s) \cup {p} ELSE InState(s) \ {p}
      /\ state'[p] = "READY"
      /\ \A q \in Procs : q # p => state'[q] = state[q]
  BY <1>1, <1>2, <1>3, MoveOne DEF ProcTableOK, States
<1>5. p \notin InState("READY") /\ p \notin InState("BLOCKED")
  BY <1>3 DEF InState
<1>6. /\ readyQueue' \in Seq(Procs)
      /\ ToSet(readyQueue') = ToSet(readyQueue) \cup {p}
      /\ IsInjective(readyQueue')
  BY <1>1, <1>2, <1>3, <1>5, AppendQueue DEF QueuesOK, ProcessPlacement, ReadyAreQueued, QueuedOnce
<1>7. WorkloadOK' /\ QueuesOK' /\ ProcTableOK'
  <2>1. saveReg' \in [Procs -> Int]
    BY <1>1, <1>2, <1>3 DEF LocalsOK, ProcTableOK
  <2>2. QED
    BY <1>1, <1>2, <1>4, <1>6, <2>1 DEF WorkloadOK, QueuesOK, ProcTableOK
<1>8. LocalsOK'
  BY <1>1, <1>2 DEF LocalsOK, Cases
<1>9. ProcessPlacement'
  BY <1>1, <1>2, <1>4, <1>5, <1>6
  DEF ProcessPlacement, ReadyAreQueued, QueuedOnce, BlockedHaveEvents, OneEventEach,
      RunningIsOnCpu, CpuIsRunning
<1>10. FlagsInv' /\ TurnInv'
  BY <1>1, <1>2, <1>3, <1>4 DEF FlagsInv, RunningIsActive, TurnInv
<1>11. RegistersTrackService'
  BY <1>1, <1>2, <1>3, <1>4 DEF RegistersTrackService, ProcTableOK
<1>12. CountInv'
  BY <1>1, <1>2, <1>3, <1>4 DEF CountInv
<1>13. ServiceInv'
  <2>1. ASSUME NEW q \in Procs, q # p PROVE ServiceFits(q)'
    BY <2>1, <1>1, <1>2, <1>4 DEF ServiceInv, ServiceFits, Served
  <2>2. ServiceFits(p)'
    BY <1>1, <1>2, <1>3, <1>4 DEF ServiceInv, ServiceFits, Served
  <2>3. QED
    BY <2>1, <2>2 DEF ServiceInv
<1>14. QED
  BY <1>7, <1>8, <1>9, <1>10, <1>11, <1>12, <1>13 DEF IndInv, TypeOK

\* The policy takes one process of the queue, whichever its Better prefers, or
\* none when the queue is empty.
LEMMA ScheduleStep == IndInv /\ Schedule => IndInv'
<1> SUFFICES ASSUME IndInv, Schedule PROVE IndInv'
  OBVIOUS
<1>1. /\ WorkloadOK /\ ProcTableOK /\ QueuesOK /\ LocalsOK /\ FlagsInv /\ ProcessPlacement
      /\ RegistersTrackService /\ ServiceInv /\ TurnInv /\ CountInv
  BY DEF IndInv, TypeOK
<1>2. /\ pc = "schedule" /\ pc' = "tick"
      /\ scheCheck /\ scheCheck' = FALSE
      /\ qTime' = 0
      /\ UNCHANGED <<schFunc, procIntArrTime, procServTime, ioReqIntArrTime, ioServTime>>
      /\ UNCHANGED <<serviceTime, startTime, endTime, priority, saveReg, ioDoneEventQueue,
                     currentTime, cpuUseTime, nproc, termProc, nioreq, nextForkTime,
                     nextIOReqTime, putReadyCheck>>
  BY DEF Schedule, workload, times
<1>3. ~putReadyCheck /\ InState("RUNNING") = {} /\ WorkloadOK'
  BY <1>1, <1>2 DEF FlagsInv, RunningIsActive, ProcessPlacement, RunningIsOnCpu, InState, WorkloadOK,
     QueuesOK, Idle, Procs
<1>4. CASE DispatchIdle
  <2>1. /\ readyQueue = << >> /\ runningProc' = Idle
        /\ UNCHANGED <<state, cpuReg, readyQueue>>
    BY <1>4 DEF DispatchIdle
  <2>2. ProcTableOK' /\ QueuesOK' /\ CountInv'
    BY <1>1, <1>2, <2>1 DEF ProcTableOK, QueuesOK, CountInv
  <2>3. LocalsOK'
    BY <1>1, <1>2, <2>1 DEF LocalsOK, Cases
  <2>4. ProcessPlacement' /\ FlagsInv' /\ TurnInv'
    BY <1>1, <1>2, <1>3, <2>1
    DEF ProcessPlacement, ReadyAreQueued, QueuedOnce, BlockedHaveEvents, OneEventEach,
      RunningIsOnCpu, CpuIsRunning,
        InState, FlagsInv, RunningIsActive, TurnInv
  <2>5. RegistersTrackService' /\ ServiceInv'
    BY <1>1, <1>2, <2>1 DEF RegistersTrackService, ServiceInv, ServiceFits, Served
  <2>6. QED
    BY <1>3, <2>2, <2>3, <2>4, <2>5 DEF IndInv, TypeOK
<1>5. ASSUME NEW i \in 1 .. Len(readyQueue), Dispatch(i) PROVE IndInv'
  <2>1. PICK p \in Procs : p = readyQueue[i] /\ p # Idle /\ state[p] = "READY"
    <3>1. readyQueue[i] \in Procs /\ readyQueue[i] \in ToSet(readyQueue)
      BY <1>1, ElementOfSeq DEF QueuesOK, ToSet
    <3>2. QED
      BY <1>1, <3>1, ProcFacts DEF ProcessPlacement, ReadyAreQueued, InState
  <2>2. /\ runningProc' = p
        /\ state' = [state EXCEPT ![p] = "RUNNING"]
        /\ cpuReg' = saveReg[p]
        /\ readyQueue' = RemoveAt(readyQueue, i)
    BY <1>5, <2>1 DEF Dispatch
  <2>3. /\ state' \in [Procs -> States]
        /\ \A s : InState(s)' = IF s = "RUNNING" THEN InState(s) \cup {p} ELSE InState(s) \ {p}
        /\ state'[p] = "RUNNING"
        /\ \A q \in Procs : q # p => state'[q] = state[q]
    BY <1>1, <2>2, MoveOne DEF ProcTableOK, States
  <2>4. p \notin InState("BLOCKED") /\ p \notin InState("RUNNING")
    BY <2>1 DEF InState
  <2>5. /\ readyQueue' \in Seq(Procs)
        /\ ToSet(readyQueue') = ToSet(readyQueue) \ {p}
        /\ IsInjective(readyQueue')
    BY <1>1, <2>1, <2>2, RemoveAtQueue DEF QueuesOK, ProcessPlacement, QueuedOnce
  <2>6. ProcTableOK' /\ QueuesOK'
    BY <1>1, <1>2, <2>2, <2>3, <2>5 DEF ProcTableOK, QueuesOK
  <2>7. LocalsOK'
    BY <1>1, <1>2, <2>2 DEF LocalsOK, Cases, ProcTableOK
  <2>8. ProcessPlacement'
    BY <1>1, <1>2, <1>3, <2>2, <2>3, <2>4, <2>5
    DEF ProcessPlacement, ReadyAreQueued, QueuedOnce, BlockedHaveEvents, OneEventEach,
      RunningIsOnCpu, CpuIsRunning
  <2>9. FlagsInv' /\ TurnInv'
    BY <1>1, <1>2, <1>3, <2>1, <2>2, <2>3, ParamsAssumption DEF FlagsInv, RunningIsActive, TurnInv
  <2>10. RegistersTrackService'
    <3>1. \A q \in Procs : q # p => state[q] # "RUNNING"
      BY <1>3 DEF InState
    <3>2. QED
      BY <1>1, <1>2, <2>1, <2>2, <2>3, <3>1 DEF RegistersTrackService
  <2>11. CountInv'
    BY <1>1, <1>2, <2>1, <2>3 DEF CountInv
  <2>12. ServiceInv'
    <3>1. ASSUME NEW q \in Procs, q # p PROVE ServiceFits(q)'
      BY <3>1, <1>1, <1>2, <2>3 DEF ServiceInv, ServiceFits, Served
    <3>2. ServiceFits(p)'
      BY <1>1, <1>2, <2>1, <2>3 DEF ServiceInv, ServiceFits, Served
    <3>3. QED
      BY <3>1, <3>2 DEF ServiceInv
  <2>13. QED
    BY <1>3, <2>6, <2>7, <2>8, <2>9, <2>10, <2>11, <2>12 DEF IndInv, TypeOK
<1>6. QED
  BY <1>4, <1>5 DEF Schedule

\* A condition of the loop that is false moves nothing.
LEMMA SkipCaseStep == IndInv /\ SkipCase => IndInv'
<1> SUFFICES ASSUME IndInv, SkipCase PROVE IndInv'
  OBVIOUS
<1>1. /\ WorkloadOK /\ ProcTableOK /\ QueuesOK /\ LocalsOK /\ FlagsInv /\ ProcessPlacement
      /\ RegistersTrackService /\ ServiceInv /\ TurnInv /\ CountInv
  BY DEF IndInv, TypeOK
<1>2. /\ \/ pc = "terminate" /\ ~JobDone /\ pc' = "ioreq"
         \/ pc = "ioreq" /\ pc' = "fork"
         \/ pc = "fork" /\ pc' = "iodone"
         \/ pc = "iodone" /\ pc' = "quantum"
         \/ pc = "quantum" /\ ~QuantumExpired /\ pc' = "putready"
         \/ pc = "putready" /\ ~putReadyCheck /\ pc' = "schedule"
         \/ pc = "schedule" /\ ~scheCheck /\ pc' = "tick"
      /\ UNCHANGED <<schFunc, procIntArrTime, procServTime, ioReqIntArrTime, ioServTime>>
      /\ UNCHANGED <<state, serviceTime, startTime, endTime, priority, saveReg, runningProc, cpuReg,
                     readyQueue, ioDoneEventQueue, currentTime, qTime, cpuUseTime, nproc, termProc,
                     nioreq, nextForkTime, nextIOReqTime, scheCheck, putReadyCheck>>
  BY DEF SkipCase, workload, times, clocks, flags
<1>3. WorkloadOK' /\ QueuesOK' /\ ProcTableOK' /\ CountInv'
  BY <1>1, <1>2 DEF WorkloadOK, QueuesOK, ProcTableOK, CountInv
<1>4. LocalsOK'
  BY <1>1, <1>2 DEF LocalsOK, Cases
<1>5. ProcessPlacement'
  BY <1>1, <1>2
  DEF ProcessPlacement, ReadyAreQueued, QueuedOnce, BlockedHaveEvents, OneEventEach,
      RunningIsOnCpu, CpuIsRunning,
      InState, FlagsInv, RunningIsActive
<1>6. FlagsInv'
  BY <1>1, <1>2 DEF FlagsInv, RunningIsActive
<1>7. TurnInv'
  BY <1>1, <1>2, ParamsAssumption
  DEF TurnInv, FlagsInv, RunningIsActive, QuantumExpired, LocalsOK
<1>8. RegistersTrackService'
  BY <1>1, <1>2 DEF RegistersTrackService
<1>9. ServiceInv'
  <2>1. ASSUME NEW q \in Procs PROVE ServiceFits(q)'
    BY <2>1, <1>1, <1>2, ProcFacts
    DEF ServiceInv, ServiceFits, Served, JobDone, ProcessPlacement, RunningIsOnCpu, InState
  <2>2. QED
    BY <2>1 DEF ServiceInv
<1>10. QED
  BY <1>3, <1>4, <1>5, <1>6, <1>7, <1>8, <1>9 DEF IndInv, TypeOK

\* Steps that change no variable keep the invariant.
LEMMA StutterStep == IndInv /\ UNCHANGED vars => IndInv'
<1> SUFFICES ASSUME IndInv, UNCHANGED vars PROVE IndInv'
  OBVIOUS
<1>1. UNCHANGED <<schFunc, procIntArrTime, procServTime, ioReqIntArrTime, ioServTime, state,
                  serviceTime, startTime, endTime, priority, saveReg, runningProc, cpuReg, readyQueue,
                  ioDoneEventQueue, currentTime, qTime, cpuUseTime, nproc, termProc, nioreq,
                  nextForkTime, nextIOReqTime, scheCheck, putReadyCheck, pc>>
  BY DEF vars, workload, times, clocks, flags
<1>2. TypeOK'
  BY <1>1 DEF IndInv, TypeOK, WorkloadOK, QueuesOK, ProcTableOK, LocalsOK
<1>3. ProcessPlacement'
  BY <1>1 DEF IndInv, ProcessPlacement, ReadyAreQueued, QueuedOnce, BlockedHaveEvents, OneEventEach,
     RunningIsOnCpu, CpuIsRunning, InState
<1>4. FlagsInv' /\ TurnInv' /\ CountInv'
  BY <1>1 DEF IndInv, FlagsInv, RunningIsActive, TurnInv, CountInv
<1>5. RegistersTrackService' /\ ServiceInv'
  BY <1>1 DEF IndInv, RegistersTrackService, ServiceInv, ServiceFits, Served
<1>6. QED
  BY <1>2, <1>3, <1>4, <1>5 DEF IndInv

----------------------------------------------------------------------------
\* The theorems.

\* The inductive invariant holds in every reachable state of the simulation.
THEOREM Invariance == Spec => []IndInv
<1>1. Init => IndInv
  BY InitIndInv
<1>2. IndInv /\ [Next]_vars => IndInv'
  BY TickStep, TerminateStep, IORequestStep, ForkStep, IODoneStep, QuantumStep, PutReadyStep,
     ScheduleStep, SkipCaseStep, StutterStep
  DEF Next, procExecSim, Stop
<1>3. QED
  BY <1>1, <1>2, PTL DEF Spec

\* Every variable of procExecSim keeps its type: no index of procTable, of the
\* queues or of the workload arrays leaves its range.
THEOREM TypeCorrect == Spec => []TypeOK
<1>1. IndInv => TypeOK
  BY DEF IndInv
<1>2. QED
  BY <1>1, Invariance, PTL

\* A process is always in exactly one place: in the ready queue once, waiting
\* for exactly one I/O event, or on the CPU.
THEOREM PlacementCorrect == Spec => []ProcessPlacement
<1>1. IndInv => ProcessPlacement
  BY DEF IndInv
<1>2. QED
  BY <1>1, Invariance, PTL

\* Context switches keep the registers of every process.
THEOREM RegistersCorrect == Spec => []RegistersTrackService
<1>1. IndInv => RegistersTrackService
  BY DEF IndInv
<1>2. QED
  BY <1>1, Invariance, PTL

\* No tick is idle while a process is ready.
THEOREM CpuCorrect == Spec => []WorkConserving
<1>1. IndInv => WorkConserving
  BY DEF IndInv, FlagsInv, WorkConserving
<1>2. QED
  BY <1>1, Invariance, PTL

\* No turn exceeds the quantum, although qTime is compared for equality.
THEOREM QuantumCorrect == Spec => []QuantumBound
<1>1. IndInv => QuantumBound
  BY DEF IndInv, FlagsInv, TurnInv, QuantumBound
<1>2. QED
  BY <1>1, Invariance, PTL

----------------------------------------------------------------------------
\* Scheduler implements ProcessLifecycle.

\* When the place of one process changes, life changes at that process.
LEMMA LifeMove ==
    ASSUME NEW p \in Procs, \A q \in Procs : q # p => LifeOf(q)' = LifeOf(q)
    PROVE  life' = [life EXCEPT ![p] = LifeOf(p)']
  BY DEF life

\* The place of a process depends on its own state and service only.
LEMMA LifeFrame ==
    ASSUME UNCHANGED procServTime, NEW q \in Procs,
           state'[q] = state[q], serviceTime'[q] = serviceTime[q]
    PROVE  LifeOf(q)' = LifeOf(q)
  BY DEF LifeOf, Served

\* A step in which at most the place of one process changes, without service.
LEMMA OneMove ==
    ASSUME IndInv, UNCHANGED <<procServTime, serviceTime>>,
           NEW p \in Procs, NEW t \in States, state' = [state EXCEPT ![p] = t]
    PROVE  /\ life' = [life EXCEPT ![p] = LifeOf(p)']
           /\ life[p] = LifeOf(p)
           /\ Served(p)' <=> Served(p)
           /\ state'[p] = t
<1>1. state \in [Procs -> States]
  BY DEF IndInv, TypeOK, ProcTableOK
<1>2. \A q \in Procs : q # p => LifeOf(q)' = LifeOf(q)
  BY <1>1, LifeFrame
<1>3. QED
  BY <1>1, <1>2, LifeMove DEF life, Served

\* A step that changes no state and gives no service is a stutter of the life cycle.
LEMMA NoMove ==
    ASSUME UNCHANGED <<procServTime, serviceTime, state>>
    PROVE  UNCHANGED Lifecycle!vars
  BY DEF Lifecycle!vars, life, LifeOf, Served

\* Before the first tick every process is new.
LEMMA LifeInit == Init => Lifecycle!Init
<1> SUFFICES ASSUME Init PROVE Lifecycle!Init
  OBVIOUS
<1>1. WorkloadOK
  BY InitIndInv DEF IndInv, TypeOK
<1>2. \A p \in Procs : LifeOf(p) = "new"
  BY <1>1 DEF Init, initProcTable, LifeOf, Served, WorkloadOK
<1>3. QED
  BY <1>1, <1>2 DEF Init, initProcTable, Lifecycle!Init, life, WorkloadOK

\* Every part of the loop is a step of the life cycle or a stutter.
LEMMA LifeStep == IndInv /\ [Next]_vars => [Lifecycle!Next]_(Lifecycle!vars)
<1> SUFFICES ASSUME IndInv, [Next]_vars PROVE [Lifecycle!Next]_(Lifecycle!vars)
  OBVIOUS
<1>0. /\ ProcTableOK /\ QueuesOK /\ FlagsInv /\ ProcessPlacement /\ ServiceInv /\ CountInv
      /\ WorkloadOK /\ LocalsOK
  BY DEF IndInv, TypeOK
<1>1. CASE Tick
  <2>1. CASE runningProc = Idle
    BY <1>1, <2>1, NoMove DEF Tick, workload
  <2>2. CASE runningProc # Idle
    <3>1. PICK p \in Procs : p = runningProc /\ state[p] = "RUNNING" /\ ~Served(p)
      BY <1>0, <1>1, <2>2 DEF Tick, QueuesOK, ProcessPlacement, CpuIsRunning, ServiceInv, ServiceFits
    <3>2. /\ serviceTime' = [serviceTime EXCEPT ![p] = @ + 1]
          /\ UNCHANGED <<state, procServTime>>
      BY <1>1, <2>2, <3>1 DEF Tick, workload
    <3>3. \A q \in Procs : q # p => LifeOf(q)' = LifeOf(q)
      BY <1>0, <3>2, LifeFrame DEF ProcTableOK
    <3>4. LifeOf(p)' = IF serviceTime[p] + 1 = procServTime[p] THEN "exit" ELSE "running"
      BY <1>0, <3>1, <3>2 DEF LifeOf, Served, ProcTableOK
    <3>5. life[p] = "running"
      BY <3>1 DEF life, LifeOf
    <3>6. Lifecycle!Serve(p)
      BY <3>2, <3>3, <3>4, <3>5, LifeMove DEF Lifecycle!Serve
    <3>7. QED
      BY <3>6 DEF Lifecycle!Next
  <2>3. QED
    BY <2>1, <2>2
<1>2. CASE Terminate
  <2>1. PICK p \in Procs : /\ p = runningProc /\ Served(p)
                           /\ state' = [state EXCEPT ![p] = "TERMINATE"]
                           /\ UNCHANGED <<procServTime, serviceTime>>
    BY <1>0, <1>2 DEF Terminate, JobDone, QueuesOK, Served, workload
  <2>2. life' = [life EXCEPT ![p] = LifeOf(p)'] /\ life[p] = LifeOf(p) /\ Served(p)'
    BY <2>1, OneMove DEF States
  <2>3. LifeOf(p)' = "exit" /\ LifeOf(p) = "exit"
    BY <2>1, <2>2 DEF LifeOf
  <2>4. life' = life
    BY <2>2, <2>3 DEF life
  <2>5. QED
    BY <2>1, <2>4 DEF Lifecycle!vars
<1>3. CASE IORequest
  <2>1. CASE runningProc = Idle
    BY <1>3, <2>1, NoMove DEF IORequest, workload
  <2>2. CASE runningProc # Idle
    <3>1. PICK p \in Procs : /\ p = runningProc /\ state[p] \in {"RUNNING", "TERMINATE"}
                             /\ state' = [state EXCEPT ![p] = "BLOCKED"]
                             /\ UNCHANGED <<procServTime, serviceTime>>
      BY <1>0, <1>3, <2>2 DEF IORequest, QueuesOK, FlagsInv, workload
    <3>2. /\ life' = [life EXCEPT ![p] = LifeOf(p)'] /\ life[p] = LifeOf(p)
          /\ Served(p)' <=> Served(p)
          /\ state'[p] = "BLOCKED"
      BY <3>1, OneMove DEF States
    <3>3. CASE Served(p)
      <4>1. LifeOf(p)' = "exit" /\ LifeOf(p) = "exit"
        BY <3>2, <3>3 DEF LifeOf
      <4>2. life' = life
        BY <3>2, <4>1 DEF life
      <4>3. QED
        BY <3>1, <4>2 DEF Lifecycle!vars
    <3>4. CASE ~Served(p)
      <4>1. state[p] = "RUNNING"
        BY <1>0, <3>1, <3>4 DEF ServiceInv, ServiceFits
      <4>2. LifeOf(p)' = "waiting" /\ LifeOf(p) = "running"
        BY <3>2, <3>4, <4>1 DEF LifeOf
      <4>3. Lifecycle!Block(p)
        BY <3>1, <3>2, <4>2 DEF Lifecycle!Block, Lifecycle!Move
      <4>4. QED
        BY <4>3 DEF Lifecycle!Next
    <3>5. QED
      BY <3>3, <3>4
  <2>3. QED
    BY <2>1, <2>2
<1>4. CASE Fork
  <2>1. PICK p \in Procs : /\ p = nproc /\ state[p] = "IDLE" /\ ~Served(p)
                           /\ state' = [state EXCEPT ![p] = "READY"]
                           /\ UNCHANGED <<procServTime, serviceTime>>
    <3>1. nproc \in Procs
      BY <1>0, <1>4, ParamsAssumption, ProcFacts DEF Fork, ForkDue, LocalsOK
    <3>2. state[nproc] = "IDLE" /\ ~Served(nproc)
      BY <1>0, <3>1, ProcFacts DEF CountInv, ServiceInv, ServiceFits
    <3>3. QED
      BY <1>4, <3>1, <3>2 DEF Fork, workload
  <2>2. /\ life' = [life EXCEPT ![p] = LifeOf(p)'] /\ life[p] = LifeOf(p)
        /\ ~Served(p)'
        /\ state'[p] = "READY"
    BY <2>1, OneMove DEF States
  <2>3. LifeOf(p)' = "ready" /\ LifeOf(p) = "new"
    BY <2>1, <2>2 DEF LifeOf
  <2>4. Lifecycle!Admit(p)
    BY <2>1, <2>2, <2>3 DEF Lifecycle!Admit, Lifecycle!Move
  <2>5. QED
    BY <2>4 DEF Lifecycle!Next
<1>5. CASE IODone
  <2>1. PICK e \in ioDoneEventQueue :
          state' = [state EXCEPT ![e.procid] = IF StillNeedsService(e.procid) THEN "READY" ELSE "TERMINATE"]
    BY <1>5 DEF IODone, DueEvents
  <2>2. PICK p \in Procs : p = e.procid /\ state[p] = "BLOCKED"
    BY <1>0 DEF QueuesOK, ProcessPlacement, BlockedHaveEvents, InState
  <2>3. PICK t \in {"READY", "TERMINATE"} : /\ state' = [state EXCEPT ![p] = t]
                                            /\ t = "READY" <=> ~Served(p)
    BY <2>1, <2>2 DEF StillNeedsService, Served
  <2>4. UNCHANGED <<procServTime, serviceTime>>
    BY <1>5 DEF IODone, workload
  <2>5. /\ life' = [life EXCEPT ![p] = LifeOf(p)'] /\ life[p] = LifeOf(p)
        /\ Served(p)' <=> Served(p)
        /\ state'[p] = t
    <3>1. t \in States
      BY DEF States
    <3>2. QED
      BY <2>3, <2>4, <3>1, OneMove
  <2>6. CASE Served(p)
    <3>1. LifeOf(p)' = "exit" /\ LifeOf(p) = "exit"
      BY <2>5, <2>6 DEF LifeOf
    <3>2. life' = life
      BY <2>5, <3>1 DEF life
    <3>3. QED
      BY <2>4, <3>2 DEF Lifecycle!vars
  <2>7. CASE ~Served(p)
    <3>1. LifeOf(p)' = "ready" /\ LifeOf(p) = "waiting"
      BY <2>2, <2>3, <2>5, <2>7 DEF LifeOf
    <3>2. Lifecycle!Wake(p)
      BY <2>4, <2>5, <3>1 DEF Lifecycle!Wake, Lifecycle!Move
    <3>3. QED
      BY <3>2 DEF Lifecycle!Next
  <2>8. QED
    BY <2>6, <2>7
<1>6. CASE Quantum
  BY <1>6, NoMove DEF Quantum, workload
<1>7. CASE PutReady
  <2>1. PICK p \in Procs : /\ p = runningProc /\ state[p] = "RUNNING" /\ ~Served(p)
                           /\ state' = [state EXCEPT ![p] = "READY"]
                           /\ UNCHANGED <<procServTime, serviceTime>>
    <3>1. runningProc \in Procs /\ state[runningProc] = "RUNNING" /\ pc # "terminate"
      BY <1>0, <1>7 DEF PutReady, FlagsInv, RunningIsActive, QueuesOK
    <3>2. ~Served(runningProc)
      BY <1>0, <3>1 DEF ServiceInv, ServiceFits
    <3>3. QED
      BY <1>7, <3>1, <3>2 DEF PutReady, workload
  <2>2. /\ life' = [life EXCEPT ![p] = LifeOf(p)'] /\ life[p] = LifeOf(p)
        /\ ~Served(p)'
        /\ state'[p] = "READY"
    BY <2>1, OneMove DEF States
  <2>3. LifeOf(p)' = "ready" /\ LifeOf(p) = "running"
    BY <2>1, <2>2 DEF LifeOf
  <2>4. Lifecycle!Preempt(p)
    BY <2>1, <2>2, <2>3 DEF Lifecycle!Preempt, Lifecycle!Move
  <2>5. QED
    BY <2>4 DEF Lifecycle!Next
<1>8. CASE Schedule
  <2>1. UNCHANGED <<procServTime, serviceTime>>
    BY <1>8 DEF Schedule, workload
  <2>2. CASE DispatchIdle
    BY <2>1, <2>2, NoMove DEF DispatchIdle
  <2>3. ASSUME NEW i \in 1 .. Len(readyQueue), Dispatch(i) PROVE Lifecycle!Next
    <3>1. PICK p \in Procs : /\ state[p] = "READY" /\ ~Served(p)
                             /\ state' = [state EXCEPT ![p] = "RUNNING"]
      <4>1. readyQueue[i] \in Procs /\ readyQueue[i] \in ToSet(readyQueue)
        BY <1>0, ElementOfSeq DEF QueuesOK, ToSet
      <4>2. state[readyQueue[i]] = "READY"
        BY <1>0, <4>1 DEF ProcessPlacement, ReadyAreQueued, InState
      <4>3. ~Served(readyQueue[i])
        BY <1>0, <4>1, <4>2 DEF ServiceInv, ServiceFits
      <4>4. QED
        BY <2>3, <4>1, <4>2, <4>3 DEF Dispatch
    <3>2. /\ life' = [life EXCEPT ![p] = LifeOf(p)'] /\ life[p] = LifeOf(p)
          /\ ~Served(p)'
          /\ state'[p] = "RUNNING"
      BY <2>1, <3>1, OneMove DEF States
    <3>3. LifeOf(p)' = "running" /\ LifeOf(p) = "ready"
      BY <3>1, <3>2 DEF LifeOf
    <3>4. ASSUME NEW q \in Procs PROVE life[q] # "running"
      <4>1. state[q] \in States /\ state[q] # "RUNNING"
        BY <1>0, <1>8, ProcFacts DEF Schedule, FlagsInv, RunningIsActive, ProcessPlacement,
           RunningIsOnCpu, InState, ProcTableOK
      <4>2. state[q] = "TERMINATE" => Served(q)
        BY <1>0 DEF ServiceInv, ServiceFits
      <4>3. LifeOf(q) # "running"
        BY <4>1, <4>2 DEF LifeOf, States
      <4>4. QED
        BY <4>3 DEF life
    <3>5. Lifecycle!Dispatch(p)
      BY <2>1, <3>2, <3>3, <3>4 DEF Lifecycle!Dispatch, Lifecycle!Move
    <3>6. QED
      BY <3>5 DEF Lifecycle!Next
  <2>4. QED
    BY <1>8, <2>2, <2>3 DEF Schedule
<1>9. CASE SkipCase
  BY <1>9, NoMove DEF SkipCase, workload
<1>10. CASE UNCHANGED vars
  BY <1>10, NoMove DEF vars, workload
<1>11. QED
  BY <1>1, <1>2, <1>3, <1>4, <1>5, <1>6, <1>7, <1>8, <1>9, <1>10 DEF Next, procExecSim, Stop

\* The simulator implements the lifecycle: one process at a time holds the CPU
\* and gets its ticks, and a process that was served never comes back.
THEOREM Refinement == Spec => ImplementsLifecycle
<1>1. Init => Lifecycle!Init
  BY LifeInit
<1>2. IndInv /\ [Next]_vars => [Lifecycle!Next]_(Lifecycle!vars)
  BY LifeStep
<1>3. QED
  BY <1>1, <1>2, Invariance, PTL DEF Spec, Lifecycle!Spec, ImplementsLifecycle

----------------------------------------------------------------------------
\* The policy.

\* What each policy promises of p against q, which waits.
Preferred(p, q) ==
    /\ schFunc = "SJF" => procServTime[p] <= procServTime[q]
    /\ schFunc = "SRTN" => procServTime[p] - serviceTime[p] <= procServTime[q] - serviceTime[q]
    /\ schFunc = "GS" /\ qTime = 0 => serviceTime[p] * procServTime[q]
                                        <= serviceTime[q] * procServTime[p]
    /\ schFunc = "SFS" => priority[p] >= priority[q]

\* It holds from one call of the policy on until the next is due.
PolicyInv ==
    RunningIsActive /\ ~scheCheck => \A q \in InState("READY") : Preferred(runningProc, q)

\* The chosen process is preferred to all that stay in the queue.
LEMMA ChosenIsPreferred ==
    ASSUME IndInv, NEW p \in Procs, NEW q \in Procs, ~Better(q, p)
    PROVE  /\ schFunc = "SJF" => procServTime[p] <= procServTime[q]
           /\ schFunc = "SRTN" => procServTime[p] - serviceTime[p] <= procServTime[q] - serviceTime[q]
           /\ schFunc = "GS" => serviceTime[p] * procServTime[q] <= serviceTime[q] * procServTime[p]
           /\ schFunc = "SFS" => priority[p] >= priority[q]
<1>1. /\ procServTime[p] \in Int /\ procServTime[q] \in Int
      /\ serviceTime[p] \in Int /\ serviceTime[q] \in Int
      /\ priority[p] \in Int /\ priority[q] \in Int
  BY DEF IndInv, TypeOK, WorkloadOK, ProcTableOK
<1>2. \A x, y \in Int : x * y \in Int
  OBVIOUS
<1>3. \A x, y \in Int : ~(y < x) => x <= y
  OBVIOUS
<1>4. schFunc = "GS" => serviceTime[p] * procServTime[q] <= serviceTime[q] * procServTime[p]
  <2> DEFINE x == serviceTime[p] * procServTime[q]
             y == serviceTime[q] * procServTime[p]
  <2>1. x \in Int /\ y \in Int
    BY <1>1, <1>2
  <2>2. schFunc = "GS" => ~(y < x)
    BY DEF Better, GSBetter
  <2>. HIDE DEF x, y
  <2>3. schFunc = "GS" => x <= y
    BY <2>1, <2>2, <1>3
  <2>4. QED
    BY <2>3 DEF x, y
<1>5. QED
  BY <1>1, <1>4 DEF Better, SJFBetter, SRTNBetter, SFSBetter

LEMMA SchedulePolicy ==
    ASSUME IndInv, Schedule
    PROVE  PolicyInv'
<1>1. UNCHANGED <<schFunc, procServTime, serviceTime, priority>> /\ qTime' = 0
  BY DEF Schedule, workload
<1>2. CASE DispatchIdle
  BY <1>2 DEF DispatchIdle, PolicyInv, RunningIsActive
<1>3. ASSUME NEW i \in 1 .. Len(readyQueue), Chosen(i), Dispatch(i) PROVE PolicyInv'
  <2>0. readyQueue \in Seq(Procs)
    BY DEF IndInv, TypeOK, QueuesOK
  <2>. PICK p \in Procs : p = readyQueue[i]
    BY <2>0, ElementOfSeq
  <2>1. /\ state \in [Procs -> States] /\ runningProc' = p
        /\ state' = [state EXCEPT ![p] = "RUNNING"]
    BY <1>3 DEF IndInv, TypeOK, ProcTableOK, Dispatch
  <2>2. ASSUME NEW q \in Procs, state'[q] = "READY" PROVE Preferred(p, q)'
    <3>1. state[q] = "READY"
      BY <2>1, <2>2
    <3>2. q \in ToSet(readyQueue)
      BY <3>1 DEF IndInv, ProcessPlacement, ReadyAreQueued, InState
    <3>3. PICK j \in 1 .. Len(readyQueue) : readyQueue[j] = q
      BY <2>0, <3>2 DEF ToSet
    <3>4. ~Better(q, p)
      BY <1>3, <3>3 DEF Chosen
    <3>5. QED
      BY <1>1, <2>1, <3>4, ChosenIsPreferred DEF Preferred
  <2>3. QED
    BY <2>1, <2>2 DEF PolicyInv, InState
<1>4. QED
  BY <1>2, <1>3 DEF Schedule

\* The running process is served, and stays preferred.
LEMMA TickPolicy ==
    ASSUME IndInv, PolicyInv, Tick
    PROVE  PolicyInv'
<1>1. /\ UNCHANGED <<schFunc, procServTime, priority, state, runningProc, scheCheck>>
      /\ qTime' = qTime + 1 /\ qTime \in Nat
  BY DEF Tick, workload, flags, IndInv, TypeOK, LocalsOK
<1>2. ASSUME RunningIsActive, ~scheCheck, NEW q \in InState("READY")
      PROVE  Preferred(runningProc, q)'
  <2> DEFINE p == runningProc
  <2>1. p \in Procs /\ q \in Procs /\ p # q
    BY <1>2 DEF RunningIsActive, InState, IndInv, TypeOK, QueuesOK
  <2>2. serviceTime' = [serviceTime EXCEPT ![p] = @ + 1]
    BY <1>2 DEF Tick, RunningIsActive
  <2>3. /\ serviceTime'[p] = serviceTime[p] + 1 /\ serviceTime'[q] = serviceTime[q]
        /\ serviceTime[p] \in Nat /\ serviceTime[q] \in Nat
        /\ procServTime[p] \in Nat /\ procServTime[q] \in Nat
    BY <2>1, <2>2 DEF IndInv, TypeOK, WorkloadOK, ProcTableOK
  <2>4. Preferred(p, q)
    BY <1>2 DEF PolicyInv
  <2>5. qTime' # 0
    BY <1>1
  <2>6. QED
    BY <1>1, <2>3, <2>4, <2>5 DEF Preferred
<1>3. QED
  BY <1>1, <1>2 DEF PolicyInv, RunningIsActive, InState

LEMMA NextPolicy == IndInv /\ PolicyInv /\ [Next]_vars => PolicyInv'
<1> SUFFICES ASSUME IndInv, PolicyInv, [Next]_vars
             PROVE  PolicyInv'
  OBVIOUS
<1>1. ASSUME UNCHANGED <<workload, state, serviceTime, priority, runningProc, qTime, scheCheck>>
      PROVE  PolicyInv'
  BY <1>1 DEF PolicyInv, Preferred, RunningIsActive, InState, workload
<1>2. ASSUME scheCheck' PROVE PolicyInv'
  BY <1>2 DEF PolicyInv
<1>3. CASE Terminate
  <2>1. runningProc \in Procs /\ state \in [Procs -> States]
    BY <1>3 DEF Terminate, JobDone, IndInv, TypeOK, QueuesOK, ProcTableOK
  <2>2. ~RunningIsActive'
    BY <1>3, <2>1 DEF Terminate, RunningIsActive
  <2>3. QED
    BY <2>2 DEF PolicyInv
<1>4. CASE Quantum
  <2>1. UNCHANGED <<state, runningProc>> /\ (scheCheck' <=> scheCheck \/ RunningIsActive)
    BY <1>4 DEF Quantum
  <2>2. RunningIsActive' <=> RunningIsActive
    BY <2>1 DEF RunningIsActive
  <2>3. QED
    BY <2>1, <2>2 DEF PolicyInv
<1>5. CASE PutReady
  BY <1>2, <1>5 DEF PutReady, IndInv, FlagsInv
<1>6. CASE SkipCase
  BY <1>1, <1>6 DEF SkipCase, clocks, flags
<1>7. CASE UNCHANGED vars
  BY <1>1, <1>7 DEF vars, clocks, flags
<1>8. CASE IORequest \/ Fork \/ IODone
  BY <1>2, <1>8 DEF IORequest, Fork, IODone
<1>9. QED
  BY <1>3, <1>4, <1>5, <1>6, <1>7, <1>8, TickPolicy, SchedulePolicy DEF Next, procExecSim, Stop

\* Whoever gets a tick is the process its policy says.
THEOREM PolicyCorrect == Spec => []PolicyRespected
<1>1. IndInv /\ PolicyInv => PolicyRespected
  <2> SUFFICES ASSUME IndInv, PolicyInv, pc = "tick", runningProc # Idle
               PROVE  \A q \in InState("READY") : Preferred(runningProc, q)
    BY DEF PolicyRespected, Preferred
  <2>1. RunningIsActive /\ ~scheCheck
    BY DEF IndInv, ProcessPlacement, CpuIsRunning, FlagsInv, RunningIsActive
  <2>2. QED
    BY <2>1 DEF PolicyInv
<1>2. Init => PolicyInv
  BY DEF Init, PolicyInv, RunningIsActive
<1>3. Spec => []PolicyInv
  BY <1>2, NextPolicy, Invariance, PTL DEF Spec
<1>4. QED
  BY <1>1, <1>3, Invariance, PTL

----------------------------------------------------------------------------
\* The service.

\* The processes CASE 4 has seen served: not the one the CPU has just served.
Finished == {p \in Procs : Served(p)} \ (IF pc = "terminate" THEN {runningProc} ELSE {})

(***************************************************************************)
(* termProc counts them, each took at least its service time, and nobody   *)
(* has been served for longer than it has been there.                      *)
(***************************************************************************)
ExactInv ==
    /\ termProc = Cardinality(Finished)
    /\ \A p \in Finished : endTime[p] - startTime[p] >= procServTime[p]
    /\ \A p \in Procs :
          IF state[p] = "IDLE" THEN serviceTime[p] = 0
                               ELSE serviceTime[p] <= currentTime - startTime[p]

LEMMA TimesTyped ==
    ASSUME IndInv, NEW p \in Procs
    PROVE  /\ serviceTime[p] \in Nat /\ procServTime[p] \in Nat \ {0} /\ state[p] \in States
           /\ startTime[p] \in Nat /\ endTime[p] \in Nat /\ currentTime \in Nat /\ termProc \in Nat
  BY ParamsAssumption DEF IndInv, TypeOK, WorkloadOK, ProcTableOK, LocalsOK

\* Before CASE 4 the process on the CPU is a running one.
LEMMA OnCpu ==
    ASSUME IndInv, pc \in {"tick", "terminate"}, runningProc # Idle
    PROVE  runningProc \in Procs /\ state[runningProc] = "RUNNING"
  BY DEF IndInv, TypeOK, QueuesOK, FlagsInv, RunningIsActive

\* Between the other CASEs nothing changes that service depends on.
LEMMA QuietExact ==
    ASSUME ExactInv, pc # "terminate", pc' # "terminate",
           UNCHANGED <<procServTime, serviceTime, startTime, endTime, termProc, currentTime>>,
           \A p \in Procs : state'[p] = "IDLE" <=> state[p] = "IDLE"
    PROVE  ExactInv'
<1>1. Finished' = Finished
  BY DEF Finished, Served
<1>2. QED
  BY <1>1 DEF ExactInv

LEMMA TickExact ==
    ASSUME IndInv, ExactInv, Tick
    PROVE  ExactInv'
<1>1. /\ pc = "tick" /\ pc' = "terminate" /\ currentTime' = currentTime + 1
      /\ UNCHANGED <<procServTime, state, startTime, endTime, termProc, runningProc>>
  BY DEF Tick, workload, times
<1>2. ASSUME NEW p \in Procs
      PROVE  /\ serviceTime'[p] = IF p = runningProc THEN serviceTime[p] + 1 ELSE serviceTime[p]
             /\ p = runningProc => ~Served(p) /\ state[p] = "RUNNING"
  <2>1. serviceTime \in [Procs -> Nat] /\ Idle \notin Procs
    BY ProcFacts DEF IndInv, TypeOK, ProcTableOK
  <2>2. p = runningProc => state[p] = "RUNNING"
    BY <1>1, <2>1, OnCpu
  <2>3. p = runningProc => ~Served(p)
    BY <1>1, <2>2 DEF IndInv, ServiceInv, ServiceFits
  <2>4. QED
    BY <2>1, <2>2, <2>3 DEF Tick
<1>3. Finished' = Finished
  BY <1>1, <1>2 DEF Finished, Served
<1>4. ASSUME NEW p \in Procs
      PROVE  (IF state[p] = "IDLE" THEN serviceTime[p] = 0
                                   ELSE serviceTime[p] <= currentTime - startTime[p])'
  BY <1>1, <1>2, TimesTyped DEF ExactInv
<1>5. QED
  BY <1>1, <1>3, <1>4 DEF ExactInv

LEMMA TerminateExact ==
    ASSUME IndInv, ExactInv, Terminate
    PROVE  ExactInv'
<1> DEFINE r == runningProc
<1>1. /\ pc = "terminate" /\ pc' # "terminate" /\ r # Idle /\ Served(r)
      /\ state' = [state EXCEPT ![r] = "TERMINATE"]
      /\ endTime' = [endTime EXCEPT ![r] = currentTime] /\ termProc' = termProc + 1
      /\ UNCHANGED <<procServTime, serviceTime, startTime, currentTime, runningProc>>
  BY DEF Terminate, JobDone, Served, workload, clocks
<1>2. r \in Procs /\ state[r] = "RUNNING"
  BY <1>1, OnCpu
<1>3. Finished' = Finished \cup {r} /\ Finished = Finished' \ {r}
  BY <1>1, <1>2 DEF Finished, Served
<1>4. IsFiniteSet(Finished')
  <2>1. IsFiniteSet(Procs)
    BY FS_Interval, ParamsAssumption DEF Procs
  <2>2. QED
    BY <2>1, FS_Subset DEF Finished
<1>5. Cardinality(Finished) = Cardinality(Finished') - 1
  BY <1>3, <1>4, FS_RemoveElement
<1>6. termProc' = Cardinality(Finished')
  BY <1>1, <1>4, <1>5, FS_CardinalityType DEF ExactInv
<1>7. ASSUME NEW p \in Finished' PROVE (endTime[p] - startTime[p] >= procServTime[p])'
  <2>1. p \in Procs
    BY <1>7 DEF Finished
  <2>2. endTime'[p] = IF p = r THEN currentTime ELSE endTime[p]
    BY <1>1, <2>1 DEF IndInv, TypeOK, ProcTableOK
  <2>3. CASE p = r
    <3>1. procServTime[p] <= currentTime - startTime[p]
      BY <1>1, <1>2, <2>3 DEF ExactInv, Served
    <3>2. QED
      BY <3>1, <1>1, <2>1, <2>2, <2>3, TimesTyped
  <2>4. CASE p # r
    BY <1>1, <1>3, <1>7, <2>2, <2>4 DEF ExactInv
  <2>5. QED
    BY <2>3, <2>4
<1>8. \A p \in Procs : state'[p] = "IDLE" <=> state[p] = "IDLE"
  BY <1>1, <1>2 DEF IndInv, TypeOK, ProcTableOK
<1>9. QED
  BY <1>1, <1>6, <1>7, <1>8 DEF ExactInv

LEMMA ForkExact ==
    ASSUME IndInv, ExactInv, Fork
    PROVE  ExactInv'
<1>1. /\ pc = "fork" /\ pc' = "iodone" /\ nproc < NPROC
      /\ state' = [state EXCEPT ![nproc] = "READY"]
      /\ startTime' = [startTime EXCEPT ![nproc] = currentTime]
      /\ UNCHANGED <<procServTime, serviceTime, endTime, termProc, currentTime>>
  BY DEF Fork, ForkDue, workload, clocks
<1>2. nproc \in Procs /\ state[nproc] = "IDLE" /\ ~Served(nproc)
  <2>1. nproc \in Procs
    BY <1>1, ProcFacts, ParamsAssumption DEF IndInv, TypeOK, LocalsOK
  <2>2. state[nproc] = "IDLE"
    BY <2>1, ProcFacts DEF IndInv, CountInv
  <2>3. QED
    BY <2>1, <2>2 DEF IndInv, ServiceInv, ServiceFits
<1>3. ASSUME NEW p \in Procs
      PROVE  /\ state'[p] = IF p = nproc THEN "READY" ELSE state[p]
             /\ startTime'[p] = IF p = nproc THEN currentTime ELSE startTime[p]
  BY <1>1 DEF IndInv, TypeOK, ProcTableOK
<1>4. Finished' = Finished /\ nproc \notin Finished
  BY <1>1, <1>2 DEF Finished, Served
<1>5. \A p \in Finished : p \in Procs /\ startTime'[p] = startTime[p]
  BY <1>3, <1>4 DEF Finished
<1>6. ASSUME NEW p \in Procs
      PROVE  (IF state[p] = "IDLE" THEN serviceTime[p] = 0
                                   ELSE serviceTime[p] <= currentTime - startTime[p])'
  <2>1. CASE p = nproc
    BY <1>1, <1>2, <1>3, <2>1, TimesTyped DEF ExactInv
  <2>2. CASE p # nproc
    BY <1>1, <1>3, <2>2 DEF ExactInv
  <2>3. QED
    BY <2>1, <2>2
<1>7. QED
  BY <1>1, <1>4, <1>5, <1>6 DEF ExactInv

LEMMA SkipExact ==
    ASSUME IndInv, ExactInv, SkipCase
    PROVE  ExactInv'
<1>1. /\ pc' # "terminate"
      /\ UNCHANGED <<procServTime, state, serviceTime, startTime, endTime, termProc, currentTime>>
  BY DEF SkipCase, workload, times, clocks
<1>2. CASE pc = "terminate"
  <2>1. \A p \in Procs : p = runningProc => ~Served(p)
    BY <1>2, ProcFacts DEF SkipCase, JobDone, Served
  <2>2. Finished' = Finished
    BY <1>1, <1>2, <2>1 DEF Finished, Served
  <2>3. QED
    BY <1>1, <2>2 DEF ExactInv
<1>3. CASE pc # "terminate"
  BY <1>1, <1>3, QuietExact
<1>4. QED
  BY <1>2, <1>3

LEMMA NextExact == IndInv /\ ExactInv /\ [Next]_vars => ExactInv'
<1> SUFFICES ASSUME IndInv, ExactInv, [Next]_vars
             PROVE  ExactInv'
  OBVIOUS
<1>1. ASSUME pc # "terminate", pc' # "terminate", NEW p \in Procs, state[p] # "IDLE",
             NEW s \in States \ {"IDLE"}, state' = [state EXCEPT ![p] = s],
             UNCHANGED <<procServTime, serviceTime, startTime, endTime, termProc, currentTime>>
      PROVE  ExactInv'
  <2>1. \A q \in Procs : state'[q] = "IDLE" <=> state[q] = "IDLE"
    BY <1>1 DEF IndInv, TypeOK, ProcTableOK
  <2>2. QED
    BY <1>1, <2>1, QuietExact
<1>2. CASE IORequest
  <2>1. /\ pc = "ioreq" /\ pc' = "fork"
        /\ UNCHANGED <<procServTime, serviceTime, startTime, endTime, termProc, currentTime>>
    BY <1>2 DEF IORequest, workload, times, clocks
  <2>2. CASE runningProc = Idle
    BY <1>2, <2>1, <2>2, QuietExact DEF IORequest
  <2>3. CASE runningProc # Idle
    <3>1. runningProc \in Procs /\ state[runningProc] \in {"RUNNING", "TERMINATE"}
      BY <2>1, <2>3 DEF IndInv, TypeOK, QueuesOK, FlagsInv
    <3>2. state' = [state EXCEPT ![runningProc] = "BLOCKED"]
      BY <1>2, <2>3 DEF IORequest
    <3>3. QED
      BY <1>1, <2>1, <3>1, <3>2 DEF States
  <2>4. QED
    BY <2>2, <2>3
<1>3. CASE IODone
  <2>1. PICK e \in ioDoneEventQueue :
          state' = [state EXCEPT ![e.procid] = IF StillNeedsService(e.procid) THEN "READY" ELSE "TERMINATE"]
    BY <1>3 DEF IODone, DueEvents
  <2>2. e.procid \in Procs /\ state[e.procid] = "BLOCKED"
    BY DEF IndInv, TypeOK, QueuesOK, ProcessPlacement, BlockedHaveEvents, InState
  <2>3. /\ pc = "iodone" /\ pc' = "iodone"
        /\ UNCHANGED <<procServTime, serviceTime, startTime, endTime, termProc, currentTime>>
    BY <1>3 DEF IODone, workload, times, clocks
  <2>4. (IF StillNeedsService(e.procid) THEN "READY" ELSE "TERMINATE") \in States \ {"IDLE"}
    BY DEF States
  <2>5. QED
    BY <1>1, <2>1, <2>2, <2>3, <2>4
<1>4. CASE Quantum
  BY <1>4, QuietExact DEF Quantum, workload, times, clocks
<1>5. CASE PutReady
  <2>1. /\ pc = "putready" /\ pc' = "schedule"
        /\ state' = [state EXCEPT ![runningProc] = "READY"]
        /\ UNCHANGED <<procServTime, serviceTime, startTime, endTime, termProc, currentTime>>
    BY <1>5 DEF PutReady, workload, times, clocks
  <2>2. runningProc \in Procs /\ state[runningProc] = "RUNNING"
    BY <1>5 DEF PutReady, IndInv, TypeOK, QueuesOK, FlagsInv, RunningIsActive
  <2>3. QED
    BY <1>1, <2>1, <2>2 DEF States
<1>6. CASE Schedule
  <2>1. /\ pc = "schedule" /\ pc' = "tick"
        /\ UNCHANGED <<procServTime, serviceTime, startTime, endTime, termProc, currentTime>>
    BY <1>6 DEF Schedule, workload, times
  <2>2. CASE DispatchIdle
    BY <2>1, <2>2, QuietExact DEF DispatchIdle
  <2>3. ASSUME NEW i \in 1 .. Len(readyQueue), Dispatch(i) PROVE ExactInv'
    <3>1. readyQueue[i] \in Procs /\ readyQueue[i] \in ToSet(readyQueue)
      BY ElementOfSeq DEF IndInv, TypeOK, QueuesOK, ToSet
    <3>2. state[readyQueue[i]] = "READY"
      BY <3>1 DEF IndInv, ProcessPlacement, ReadyAreQueued, InState
    <3>3. state' = [state EXCEPT ![readyQueue[i]] = "RUNNING"]
      BY <2>3 DEF Dispatch
    <3>4. QED
      BY <1>1, <2>1, <3>1, <3>2, <3>3 DEF States
  <2>4. QED
    BY <1>6, <2>2, <2>3 DEF Schedule
<1>7. CASE UNCHANGED vars
  <2>1. UNCHANGED <<pc, state, runningProc, procServTime, serviceTime, startTime, endTime, termProc,
                    currentTime>>
    BY <1>7 DEF vars, workload, times, clocks
  <2>2. QED
    BY <2>1 DEF ExactInv, Finished, Served
<1>8. QED
  BY <1>2, <1>3, <1>4, <1>5, <1>6, <1>7, TickExact, TerminateExact, ForkExact, SkipExact
  DEF Next, procExecSim, Stop

LEMMA InitExact == Init => ExactInv
<1> SUFFICES ASSUME Init
             PROVE  ExactInv
  OBVIOUS
<1>1. \A p \in Procs : serviceTime[p] = 0 /\ state[p] = "IDLE"
  BY DEF Init, initProcTable
<1>2. \A p \in Procs : procServTime[p] \in Nat \ {0}
  BY InitIndInv DEF IndInv, TypeOK, WorkloadOK
<1>3. Finished = {}
  BY <1>1, <1>2 DEF Finished, Served
<1>4. QED
  BY <1>1, <1>3, FS_EmptySet DEF ExactInv, Init

\* Every process is served exactly what it asked for, and termProc counts those that were.
THEOREM ServiceCorrect == Spec => []ServedExactly
<1>1. IndInv /\ ExactInv => ServedExactly
  <2> SUFFICES ASSUME IndInv, ExactInv
               PROVE  ServedExactly
    OBVIOUS
  <2>1. pc # "terminate" => Finished = {p \in Procs : Served(p)}
    BY DEF Finished
  <2>2. QED
    BY <2>1 DEF ServedExactly, ExactInv, IndInv, ServiceInv, ServiceFits
<1>2. Spec => []ExactInv
  BY InitExact, NextExact, Invariance, PTL DEF Spec
<1>3. QED
  BY <1>1, <1>2, Invariance, PTL

----------------------------------------------------------------------------
\* The sums of main.

\* Every set of natural numbers has a least element, hence induction over a set.
LEMMA SetInduction ==
    ASSUME NEW S, 0 \in S, \A k \in Nat : k \in S => k + 1 \in S
    PROVE  \A k \in Nat : k \in S
<1> DEFINE R == OpToRel(<, Nat)
           D == {k \in Nat : k \notin S}
<1>1. IsWellFoundedOn(R, Nat)
  BY NatLessThanWellFounded
<1>2. \A m, n \in Nat : m < n => <<m, n>> \in R
  BY DEF OpToRel
<1>3. SUFFICES ASSUME D # {} PROVE FALSE
  OBVIOUS
<1>. HIDE DEF R
<1>4. PICK n \in D : \A m \in D : <<m, n>> \notin R
  BY <1>1, <1>3, WFMin, Zenon
<1>5. n \in Nat /\ n \notin S
  OBVIOUS
<1>6. n # 0 /\ n - 1 \in Nat /\ n - 1 < n /\ (n - 1) + 1 = n
  BY <1>5
<1>7. n - 1 \in S
  BY <1>2, <1>4, <1>5, <1>6
<1>8. QED
  BY <1>5, <1>6, <1>7

\* g holds the sums of the first k values of f for k up to n.
AddsUp(g, f, n) ==
    /\ g \in [0 .. n -> Int]
    /\ g[0] = 0
    /\ \A k \in 1 .. n : g[k] = g[k - 1] + f[k - 1]

LEMMA AddsUpExists ==
    ASSUME NEW f, NEW n \in Nat, \A k \in 0 .. n - 1 : f[k] \in Int
    PROVE  \E g : AddsUp(g, f, n)
<1> DEFINE S == {m \in Nat : m <= n => \E g : AddsUp(g, f, m)}
<1>1. 0 \in S
  <2>1. AddsUp([k \in 0 .. 0 |-> 0], f, 0)
    BY DEF AddsUp
  <2>2. QED
    BY <2>1
<1>2. ASSUME NEW m \in Nat, m \in S PROVE m + 1 \in S
  <2>1. SUFFICES ASSUME m + 1 <= n PROVE \E g : AddsUp(g, f, m + 1)
    OBVIOUS
  <2>2. PICK g : AddsUp(g, f, m)
    BY <1>2, <2>1
  <2> DEFINE h == [k \in 0 .. m + 1 |-> IF k = m + 1 THEN g[m] + f[m] ELSE g[k]]
  <2>3. g[m] + f[m] \in Int
    BY <2>1, <2>2 DEF AddsUp
  <2>4. h \in [0 .. m + 1 -> Int]
    BY <2>2, <2>3 DEF AddsUp
  <2>5. \A k \in 0 .. m : h[k] = g[k]
    OBVIOUS
  <2>6. h[m + 1] = g[m] + f[m]
    OBVIOUS
  <2>. HIDE DEF h
  <2>7. ASSUME NEW k \in 1 .. m + 1 PROVE h[k] = h[k - 1] + f[k - 1]
    <3>1. CASE k = m + 1
      BY <3>1, <2>5, <2>6
    <3>2. CASE k # m + 1
      BY <3>2, <2>2, <2>5 DEF AddsUp
    <3>3. QED
      BY <3>1, <3>2
  <2>8. AddsUp(h, f, m + 1)
    BY <2>2, <2>4, <2>5, <2>7 DEF AddsUp
  <2>9. QED
    BY <2>8
<1>. HIDE DEF S
<1>3. n \in S
  BY <1>1, <1>2, SetInduction
<1>4. QED
  BY <1>3 DEF S

\* The recursive function adds up, and what it says of k does not depend on n.
LEMMA SumsAddUp ==
    ASSUME NEW f, NEW n \in Nat, \A k \in 0 .. n - 1 : f[k] \in Int
    PROVE  AddsUp(Sums(f, n), f, n)
<1>1. PICK g : AddsUp(g, f, n)
  BY AddsUpExists
<1>2. g = [k \in 0 .. n |-> IF k = 0 THEN 0 ELSE g[k - 1] + f[k - 1]]
  <2>1. DOMAIN g = 0 .. n /\ g = [k \in 0 .. n |-> g[k]]
    BY <1>1 DEF AddsUp
  <2>2. \A k \in 0 .. n : g[k] = IF k = 0 THEN 0 ELSE g[k - 1] + f[k - 1]
    BY <1>1 DEF AddsUp
  <2>3. QED
    BY <2>1, <2>2
<1> DEFINE s == Sums(f, n)
<1>3. s = [k \in 0 .. n |-> IF k = 0 THEN 0 ELSE s[k - 1] + f[k - 1]]
  BY <1>2, Zenon DEF Sums
<1>. HIDE DEF s
<1> DEFINE S == {k \in Nat : k <= n => s[k] = g[k]}
<1>4. 0 \in S
  BY <1>2, <1>3
<1>5. ASSUME NEW k \in Nat, k \in S PROVE k + 1 \in S
  <2>1. CASE k + 1 <= n
    <3>1. k \in 0 .. n /\ k + 1 \in 0 .. n /\ k + 1 # 0 /\ (k + 1) - 1 = k /\ s[k] = g[k]
      BY <1>5, <2>1
    <3>2. s[k + 1] = s[k] + f[k] /\ g[k + 1] = g[k] + f[k]
      BY <1>2, <1>3, <3>1
    <3>3. QED
      BY <3>1, <3>2
  <2>2. QED
    BY <2>1
<1>. HIDE DEF S
<1>6. \A k \in Nat : k \in S
  BY <1>4, <1>5, SetInduction
<1>7. \A k \in 0 .. n : s[k] = g[k]
  BY <1>6 DEF S
<1>8. s = g
  <2>1. DOMAIN s = 0 .. n /\ DOMAIN g = 0 .. n
    BY <1>2, <1>3
  <2>2. QED
    BY <1>2, <1>3, <1>7, <2>1
<1>9. QED
  BY <1>1, <1>8 DEF s

LEMMA SumStep ==
    ASSUME NEW f, NEW n \in Nat, \A k \in 0 .. n - 1 : f[k] \in Int
    PROVE  /\ SumOf(f, n) \in Int
           /\ SumOf(f, 0) = 0
           /\ \A k \in 0 .. n - 1 : SumOf(f, k) \in Int /\ SumOf(f, k + 1) = SumOf(f, k) + f[k]
<1> DEFINE G(k) == Sums(f, k)
<1>1. ASSUME NEW m \in 0 .. n PROVE AddsUp(G(m), f, m)
  BY SumsAddUp
<1>. HIDE DEF G
<1>2. ASSUME NEW k \in 0 .. n - 1 PROVE G(k + 1)[k] = G(k)[k]
  <2> DEFINE S == {j \in Nat : j <= k => G(k + 1)[j] = G(k)[j]}
  <2>1. AddsUp(G(k), f, k) /\ AddsUp(G(k + 1), f, k + 1)
    BY <1>1
  <2>2. 0 \in S
    BY <2>1 DEF AddsUp
  <2>3. ASSUME NEW j \in Nat, j \in S PROVE j + 1 \in S
    <3>1. CASE j + 1 <= k
      <4>1. j + 1 \in 1 .. k /\ j + 1 \in 1 .. k + 1 /\ (j + 1) - 1 = j /\ G(k + 1)[j] = G(k)[j]
        BY <2>3, <3>1
      <4>2. G(k)[j + 1] = G(k)[j] + f[j] /\ G(k + 1)[j + 1] = G(k + 1)[j] + f[j]
        BY <2>1, <4>1 DEF AddsUp
      <4>3. QED
        BY <4>1, <4>2
    <3>2. QED
      BY <3>1
  <2>. HIDE DEF S
  <2>4. k \in S
    BY <2>2, <2>3, SetInduction
  <2>5. QED
    BY <2>4 DEF S
<1>3. ASSUME NEW k \in 0 .. n - 1
      PROVE  G(k)[k] \in Int /\ G(k + 1)[k + 1] = G(k)[k] + f[k]
  <2>1. AddsUp(G(k), f, k) /\ AddsUp(G(k + 1), f, k + 1)
    BY <1>1
  <2>2. k + 1 \in 1 .. k + 1 /\ (k + 1) - 1 = k /\ k \in 0 .. k
    OBVIOUS
  <2>3. QED
    BY <1>2, <2>1, <2>2 DEF AddsUp
<1>4. G(n)[n] \in Int /\ G(0)[0] = 0
  BY <1>1 DEF AddsUp
<1>5. QED
  BY <1>3, <1>4 DEF SumOf, G

\* Sums grow with their values, and with the number of them if none is negative.
LEMMA SumGrows ==
    ASSUME NEW n \in Nat, NEW f, NEW g,
           \A k \in 0 .. n - 1 : f[k] \in Int /\ g[k] \in Int /\ f[k] <= g[k]
    PROVE  SumOf(f, n) <= SumOf(g, n)
<1> DEFINE S == {k \in Nat : k <= n => SumOf(f, k) <= SumOf(g, k)}
<1>1. 0 \in S
  BY SumStep
<1>2. ASSUME NEW k \in Nat, k \in S PROVE k + 1 \in S
  <2>1. CASE k + 1 <= n
    <3>1. k \in 0 .. n - 1 /\ SumOf(f, k) <= SumOf(g, k)
      BY <1>2, <2>1
    <3>2. /\ SumOf(f, k) \in Int /\ SumOf(f, k + 1) = SumOf(f, k) + f[k]
          /\ SumOf(g, k) \in Int /\ SumOf(g, k + 1) = SumOf(g, k) + g[k]
      BY <3>1, SumStep
    <3>3. QED
      BY <3>1, <3>2
  <2>2. QED
    BY <2>1
<1>. HIDE DEF S
<1>3. n \in S
  BY <1>1, <1>2, SetInduction
<1>4. QED
  BY <1>3 DEF S

LEMMA SumOfMore ==
    ASSUME NEW n \in Nat, NEW f, \A k \in 0 .. n - 1 : f[k] \in Nat, NEW m \in 0 .. n
    PROVE  SumOf(f, m) <= SumOf(f, n) /\ SumOf(f, m) \in Nat /\ SumOf(f, n) \in Nat
<1> DEFINE S == {k \in Nat : k <= n => /\ SumOf(f, k) \in Nat
                                       /\ k >= m => SumOf(f, m) <= SumOf(f, k)}
<1>1. 0 \in S
  BY SumStep
<1>2. ASSUME NEW k \in Nat, k \in S PROVE k + 1 \in S
  <2>1. CASE k + 1 <= n
    <3>1. /\ k \in 0 .. n - 1 /\ SumOf(f, k) \in Nat
          /\ k >= m => SumOf(f, m) <= SumOf(f, k)
      BY <1>2, <2>1
    <3>2. SumOf(f, k + 1) = SumOf(f, k) + f[k] /\ f[k] \in Nat
      BY <3>1, SumStep
    <3>3. k + 1 >= m => k >= m \/ k + 1 = m
      OBVIOUS
    <3>4. SumOf(f, k + 1) \in Nat /\ SumOf(f, k) <= SumOf(f, k + 1)
      BY <3>1, <3>2
    <3>5. k >= m => SumOf(f, m) \in Int
      BY <3>1, SumStep
    <3>6. QED
      BY <3>1, <3>3, <3>4, <3>5
  <2>2. QED
    BY <2>1
<1>. HIDE DEF S
<1>3. n \in S /\ m \in S
  BY <1>1, <1>2, SetInduction
<1>4. QED
  BY <1>3 DEF S

\* A tick for one process is one more in the sum of all.
LEMMA SumOneMore ==
    ASSUME NEW n \in Nat, NEW f \in [0 .. n - 1 -> Int], NEW p \in 0 .. n - 1
    PROVE  SumOf([f EXCEPT ![p] = @ + 1], n) = SumOf(f, n) + 1
<1> DEFINE g == [f EXCEPT ![p] = @ + 1]
<1>1. \A k \in 0 .. n - 1 : f[k] \in Int /\ g[k] = IF k = p THEN f[k] + 1 ELSE f[k]
  OBVIOUS
<1>. HIDE DEF g
<1>2. \A k \in 0 .. n - 1 : g[k] \in Int
  BY <1>1
<1> DEFINE S == {k \in Nat : k <= n => SumOf(g, k) = IF p < k THEN SumOf(f, k) + 1 ELSE SumOf(f, k)}
<1>3. 0 \in S
  BY <1>1, <1>2, SumStep
<1>4. ASSUME NEW k \in Nat, k \in S PROVE k + 1 \in S
  <2>1. CASE k + 1 <= n
    <3>1. k \in 0 .. n - 1 /\ SumOf(g, k) = IF p < k THEN SumOf(f, k) + 1 ELSE SumOf(f, k)
      BY <1>4, <2>1
    <3>2. /\ SumOf(f, k) \in Int /\ SumOf(f, k + 1) = SumOf(f, k) + f[k]
          /\ SumOf(g, k) \in Int /\ SumOf(g, k + 1) = SumOf(g, k) + g[k]
      BY <3>1, <1>1, <1>2, SumStep
    <3>3. QED
      BY <3>1, <3>2, <1>1
  <2>2. QED
    BY <2>1
<1>. HIDE DEF S
<1>5. n \in S
  BY <1>3, <1>4, SetInduction
<1>6. SumOf(g, n) = SumOf(f, n) + 1
  BY <1>5 DEF S
<1>7. QED
  BY <1>6 DEF g

LEMMA SumOfNothing ==
    ASSUME NEW n \in Nat, NEW f, \A k \in 0 .. n - 1 : f[k] = 0
    PROVE  SumOf(f, n) = 0
<1> DEFINE S == {k \in Nat : k <= n => SumOf(f, k) = 0}
<1>2. 0 \in S
  BY SumStep
<1>3. ASSUME NEW k \in Nat, k \in S PROVE k + 1 \in S
  BY <1>3, SumStep
<1>. HIDE DEF S
<1>4. n \in S
  BY <1>2, <1>3, SetInduction
<1>5. QED
  BY <1>4 DEF S

----------------------------------------------------------------------------
\* The end of the simulation.
\* How many ticks the arrivals, the service so far and the requests so far explain.
Explained == SumOf(procIntArrTime, NPROC) + cpuUseTime + SumOf(ioServTime, nioreq)

Arrived == IF nproc < NPROC THEN nproc + 1 ELSE NPROC

(***************************************************************************)
(* The next arrival is still ahead, every event of the queue is due in the *)
(* future or in this iteration, and both the clock and the events stay     *)
(* within the ticks that are explained.                                    *)
(***************************************************************************)
MakespanInv ==
    /\ nextForkTime = SumOf(procIntArrTime, Arrived)
    /\ nproc < NPROC =>
          /\ currentTime <= nextForkTime
          /\ pc \in {"tick", "iodone", "quantum", "putready", "schedule"} => currentTime < nextForkTime
    /\ \A p \in Procs : p < nproc => state[p] # "IDLE"
    /\ cpuUseTime = SumOf(serviceTime, NPROC)
    /\ currentTime <= Explained
    /\ \A e \in ioDoneEventQueue :
          /\ currentTime <= e.doneTime /\ e.doneTime <= Explained
          /\ pc \in {"tick", "quantum", "putready", "schedule"} => currentTime < e.doneTime

\* What the sums and the sets range over.
LEMMA WorkloadSums ==
    ASSUME IndInv
    PROVE  /\ \A p \in 0 .. NPROC - 1 : /\ procIntArrTime[p] \in Nat \ {0} /\ procServTime[p] \in Nat \ {0}
                                       /\ serviceTime[p] \in Nat
           /\ \A r \in 0 .. NIOREQ - 1 : ioServTime[r] \in Nat
           /\ NPROC \in Nat \ {0} /\ NIOREQ \in Nat \ {0}
           /\ serviceTime \in [0 .. NPROC - 1 -> Nat]
           /\ SumOf(procIntArrTime, NPROC) \in Nat
           /\ SumOf(serviceTime, NPROC) \in Nat
           /\ \A k \in 0 .. NIOREQ : SumOf(ioServTime, k) \in Nat /\ SumOf(ioServTime, k) <= SumOf(ioServTime, NIOREQ)
           /\ \A k \in 0 .. NPROC : /\ SumOf(procIntArrTime, k) \in Nat
                                   /\ SumOf(procIntArrTime, k) <= SumOf(procIntArrTime, NPROC)
<1>1. /\ \A p \in 0 .. NPROC - 1 : /\ procIntArrTime[p] \in Nat \ {0} /\ procServTime[p] \in Nat \ {0}
                                   /\ serviceTime[p] \in Nat
      /\ \A r \in 0 .. NIOREQ - 1 : ioServTime[r] \in Nat
      /\ NPROC \in Nat \ {0} /\ NIOREQ \in Nat \ {0}
      /\ serviceTime \in [0 .. NPROC - 1 -> Nat]
  BY ParamsAssumption DEF IndInv, TypeOK, WorkloadOK, ProcTableOK, Procs, Requests
<1>2. \A k \in 0 .. NIOREQ : SumOf(ioServTime, k) \in Nat /\ SumOf(ioServTime, k) <= SumOf(ioServTime, NIOREQ)
  BY <1>1, SumOfMore
<1>3. \A k \in 0 .. NPROC : /\ SumOf(procIntArrTime, k) \in Nat
                            /\ SumOf(procIntArrTime, k) <= SumOf(procIntArrTime, NPROC)
  BY <1>1, SumOfMore
<1>4. SumOf(serviceTime, NPROC) \in Nat
  <2>1. 0 \in 0 .. NPROC
    BY <1>1
  <2>2. QED
    BY <1>1, <2>1, SumOfMore
<1>5. NPROC \in 0 .. NPROC
  BY <1>1
<1>6. QED
  BY <1>1, <1>2, <1>3, <1>4, <1>5

LEMMA ClocksTyped ==
    ASSUME IndInv
    PROVE  /\ currentTime \in Nat /\ cpuUseTime \in Nat /\ nextForkTime \in Nat
           /\ nproc \in 0 .. NPROC /\ nioreq \in 0 .. NIOREQ
           /\ \A e \in ioDoneEventQueue : e.doneTime \in Nat /\ e.procid \in Procs
           /\ runningProc \in Procs \cup {Idle}
  BY ParamsAssumption DEF IndInv, TypeOK, LocalsOK, QueuesOK

LEMMA InitMakespan == Init => MakespanInv
<1> SUFFICES ASSUME Init
             PROVE  MakespanInv
  OBVIOUS
<1>1. IndInv
  BY InitIndInv
<1>2. /\ nextForkTime = procIntArrTime[0] /\ nproc = 0 /\ currentTime = 0 /\ cpuUseTime = 0
      /\ nioreq = 0 /\ ioDoneEventQueue = {} /\ serviceTime = [p \in Procs |-> 0]
  BY DEF Init, initProcTable
<1>3. SumOf(procIntArrTime, 1) = procIntArrTime[0] /\ procIntArrTime[0] > 0
  <2>1. 0 \in 0 .. NPROC - 1 /\ \A k \in 0 .. NPROC - 1 : procIntArrTime[k] \in Int
    BY <1>1, WorkloadSums
  <2>2. SumOf(procIntArrTime, 0 + 1) = SumOf(procIntArrTime, 0) + procIntArrTime[0]
    BY <2>1, <1>1, WorkloadSums, SumStep
  <2>3. SumOf(procIntArrTime, 0) = 0
    BY <2>1, <1>1, WorkloadSums, SumStep
  <2>4. QED
    BY <2>1, <2>2, <2>3, <1>1, WorkloadSums
<1>4. SumOf(serviceTime, NPROC) = 0
  BY <1>1, <1>2, WorkloadSums, SumOfNothing DEF Procs
<1>5. 0 <= Explained
  BY <1>1, <1>2, WorkloadSums DEF Explained
<1>6. Arrived = 1
  BY <1>2, ParamsAssumption DEF Arrived
<1>7. \A p \in Procs : ~(p < nproc)
  BY <1>2, ProcFacts
<1>8. nproc < NPROC => currentTime < nextForkTime
  BY <1>1, <1>2, <1>3, ClocksTyped
<1>9. nextForkTime = SumOf(procIntArrTime, Arrived)
  BY <1>2, <1>3, <1>6
<1>10. cpuUseTime = SumOf(serviceTime, NPROC) /\ currentTime <= Explained
  BY <1>2, <1>4, <1>5
<1>11. nproc < NPROC => currentTime <= nextForkTime
  BY <1>1, <1>8, ClocksTyped
<1>12. QED
  BY <1>2, <1>7, <1>8, <1>9, <1>10, <1>11 DEF MakespanInv

\* Whenever the CPU idles through a tick a process is still to come or an event is pending.
LEMMA IdleFor ==
    ASSUME IndInv, ExactInv, MakespanInv, WorkConserving, pc = "tick", runningProc = Idle, nproc = NPROC
    PROVE  ioDoneEventQueue # {}
<1>1. PICK p \in Procs : ~Served(p)
  <2>1. termProc < NPROC
    BY DEF IndInv, CountInv
  <2>2. SUFFICES ASSUME \A p \in Procs : Served(p) PROVE FALSE
    OBVIOUS
  <2>3. Finished = 0 .. NPROC - 1
    BY <2>2 DEF Finished, Procs
  <2>4. Cardinality(Finished) = NPROC
    BY <2>3, FS_Interval, ParamsAssumption
  <2>5. QED
    BY <2>1, <2>4, ParamsAssumption DEF ExactInv
<1>2. state[p] \in States
  BY TimesTyped
<1>3. state[p] # "READY"
  BY DEF WorkConserving, IndInv, ProcessPlacement, ReadyAreQueued, InState, ToSet
<1>4. state[p] # "RUNNING"
  BY ProcFacts DEF IndInv, ProcessPlacement, RunningIsOnCpu, InState
<1>5. state[p] # "TERMINATE"
  BY <1>1 DEF IndInv, ServiceInv, ServiceFits
<1>6. state[p] # "IDLE"
  <2>1. p < NPROC
    BY ParamsAssumption DEF Procs
  <2>2. QED
    BY <2>1 DEF MakespanInv
<1>7. state[p] = "BLOCKED"
  BY <1>2, <1>3, <1>4, <1>5, <1>6 DEF States
<1>8. QED
  BY <1>7 DEF IndInv, ProcessPlacement, BlockedHaveEvents, InState

LEMMA TickMakespan ==
    ASSUME IndInv, ExactInv, MakespanInv, WorkConserving, Tick
    PROVE  MakespanInv'
<1>1. /\ pc = "tick" /\ pc' = "terminate" /\ currentTime' = currentTime + 1
      /\ UNCHANGED <<procIntArrTime, procServTime, ioServTime, state, runningProc, ioDoneEventQueue,
                     nproc, nioreq, nextForkTime>>
  BY DEF Tick, workload
<1>2. Explained' = SumOf(procIntArrTime, NPROC) + cpuUseTime' + SumOf(ioServTime, nioreq)
  BY <1>1 DEF Explained
<1>3. /\ Explained \in Nat /\ SumOf(procIntArrTime, Arrived) <= SumOf(procIntArrTime, NPROC)
      /\ SumOf(procIntArrTime, NPROC) <= Explained
  BY ClocksTyped, WorkloadSums DEF Explained, Arrived
<1>4. /\ cpuUseTime' = SumOf(serviceTime', NPROC)
      /\ runningProc = Idle => Explained' = Explained
      /\ runningProc # Idle => Explained' = Explained + 1
  <2>1. CASE runningProc = Idle
    BY <1>2, <2>1 DEF Tick, MakespanInv, Explained
  <2>2. CASE runningProc # Idle
    <3>1. runningProc \in 0 .. NPROC - 1
      BY <2>2, ClocksTyped DEF Procs
    <3>2. serviceTime \in [0 .. NPROC - 1 -> Int]
      BY WorkloadSums
    <3>3. SumOf([serviceTime EXCEPT ![runningProc] = @ + 1], NPROC) = SumOf(serviceTime, NPROC) + 1
      BY <3>1, <3>2, WorkloadSums, SumOneMore
    <3>4. cpuUseTime' = cpuUseTime + 1 /\ serviceTime' = [serviceTime EXCEPT ![runningProc] = @ + 1]
      BY <2>2 DEF Tick
    <3>5. cpuUseTime' = SumOf(serviceTime', NPROC)
      BY <3>3, <3>4 DEF MakespanInv
    <3>6. Explained' = Explained + 1
      <4>1. SumOf(procIntArrTime, NPROC) \in Nat /\ SumOf(ioServTime, nioreq) \in Nat /\ cpuUseTime \in Nat
        BY ClocksTyped, WorkloadSums
      <4>2. QED
        BY <1>2, <3>4, <4>1 DEF Explained
    <3>7. QED
      BY <2>2, <3>5, <3>6
  <2>3. QED
    BY <2>1, <2>2
<1>5. nproc < NPROC => currentTime' <= nextForkTime
  BY <1>1, ClocksTyped DEF MakespanInv
<1>6. \A e \in ioDoneEventQueue : currentTime' <= e.doneTime /\ e.doneTime <= Explained'
  BY <1>1, <1>3, <1>4, ClocksTyped DEF MakespanInv
<1>7. currentTime' <= Explained'
  <2>0. currentTime \in Nat /\ nextForkTime \in Nat /\ nproc \in 0 .. NPROC /\ NPROC \in Nat
    BY ClocksTyped, WorkloadSums
  <2>1. CASE runningProc # Idle
    <3>1. currentTime <= Explained
      BY DEF MakespanInv
    <3>2. QED
      BY <2>0, <2>1, <3>1, <1>1, <1>3, <1>4
  <2>2. CASE runningProc = Idle /\ nproc < NPROC
    <3>1. nextForkTime <= SumOf(procIntArrTime, NPROC)
      BY <1>3 DEF MakespanInv
    <3>2. SumOf(procIntArrTime, NPROC) \in Nat
      BY WorkloadSums
    <3>3. QED
      BY <2>0, <2>2, <3>1, <3>2, <1>1, <1>3, <1>4, <1>5
  <2>3. CASE runningProc = Idle /\ nproc = NPROC
    <3>1. PICK e \in ioDoneEventQueue : TRUE
      BY <2>3, <1>1, IdleFor
    <3>2. e.doneTime \in Nat
      BY <3>1, ClocksTyped
    <3>3. QED
      BY <2>0, <2>3, <3>1, <3>2, <1>6, <1>1, <1>3, <1>4
  <2>4. QED
    BY <2>0, <2>1, <2>2, <2>3
<1>8. Arrived' = Arrived
  BY <1>1 DEF Arrived
<1>9. QED
  BY <1>1, <1>4, <1>5, <1>6, <1>7, <1>8 DEF MakespanInv

LEMMA IORequestMakespan ==
    ASSUME IndInv, MakespanInv, IORequest
    PROVE  MakespanInv'
<1>1. /\ pc = "ioreq" /\ pc' = "fork" /\ nioreq' = nioreq + 1 /\ nioreq < NIOREQ
      /\ UNCHANGED <<procIntArrTime, ioServTime, serviceTime, currentTime, cpuUseTime, nproc, nextForkTime>>
      /\ ioDoneEventQueue' \subseteq ioDoneEventQueue \cup {NewIODoneEvent}
      /\ \A p \in Procs : state[p] # "IDLE" => state'[p] # "IDLE"
  <2>1. \A p \in Procs : state[p] # "IDLE" => state'[p] # "IDLE"
    BY DEF IORequest, IndInv, TypeOK, ProcTableOK
  <2>2. QED
    BY <2>1 DEF IORequest, IORequestDue, workload, clocks
<1>2. Explained' = Explained + ioServTime[nioreq] /\ ioServTime[nioreq] \in Nat /\ Explained \in Nat
  <2>1. nioreq \in 0 .. NIOREQ - 1 /\ NIOREQ \in Nat /\ \A k \in 0 .. NIOREQ - 1 : ioServTime[k] \in Int
    BY <1>1, ClocksTyped, WorkloadSums
  <2>2. SumOf(ioServTime, nioreq + 1) = SumOf(ioServTime, nioreq) + ioServTime[nioreq]
    BY <2>1, SumStep
  <2>3. SumOf(ioServTime, nioreq) \in Nat /\ ioServTime[nioreq] \in Nat
        /\ SumOf(procIntArrTime, NPROC) \in Nat /\ cpuUseTime \in Nat
    BY <2>1, ClocksTyped, WorkloadSums
  <2>4. QED
    BY <1>1, <2>2, <2>3 DEF Explained
<1>3. NewIODoneEvent.doneTime = currentTime + ioServTime[nioreq]
  BY DEF NewIODoneEvent
<1>4. ASSUME NEW e \in ioDoneEventQueue'
      PROVE  currentTime <= e.doneTime /\ e.doneTime <= Explained'
  BY <1>1, <1>2, <1>3, <1>4, ClocksTyped DEF MakespanInv
<1>5. currentTime <= Explained'
  BY <1>2, ClocksTyped DEF MakespanInv
<1>6. Arrived' = Arrived
  BY <1>1 DEF Arrived
<1>7. QED
  BY <1>1, <1>4, <1>5, <1>6 DEF MakespanInv

LEMMA ForkMakespan ==
    ASSUME IndInv, MakespanInv, Fork
    PROVE  MakespanInv'
<1>1. /\ pc = "fork" /\ pc' = "iodone" /\ nproc < NPROC /\ nproc' = nproc + 1
      /\ currentTime = nextForkTime
      /\ state' = [state EXCEPT ![nproc] = "READY"]
      /\ nextForkTime' = IF nproc + 1 < NPROC THEN nextForkTime + procIntArrTime[nproc + 1] ELSE nextForkTime
      /\ UNCHANGED <<procIntArrTime, ioServTime, serviceTime, currentTime, cpuUseTime, nioreq, ioDoneEventQueue>>
  BY DEF Fork, ForkDue, workload, clocks
<1>2. Explained' = Explained
  BY <1>1 DEF Explained
<1>3. nextForkTime' = SumOf(procIntArrTime, Arrived') /\ (nproc' < NPROC => currentTime < nextForkTime')
  <2>1. CASE nproc + 1 < NPROC
    <3>1. Arrived = nproc + 1 /\ Arrived' = nproc + 2
      <4>1. \A n, N \in Nat : n < N /\ n + 1 < N => (n + 1) + 1 = n + 2
        OBVIOUS
      <4>2. nproc < NPROC /\ nproc' = nproc + 1 /\ nproc' < NPROC /\ nproc \in Nat /\ NPROC \in Nat
        BY <1>1, <2>1, ClocksTyped, ParamsAssumption
      <4>3. Arrived = nproc + 1 /\ Arrived' = (nproc + 1) + 1
        BY <4>2 DEF Arrived
      <4>4. QED
        BY <2>1, <4>1, <4>2, <4>3
    <3>2. nproc + 1 \in 0 .. NPROC - 1 /\ NPROC \in Nat /\ \A k \in 0 .. NPROC - 1 : procIntArrTime[k] \in Int
      <4>1. NPROC \in Nat /\ nproc \in 0 .. NPROC
        BY ClocksTyped, ParamsAssumption
      <4>2. \A k \in 0 .. NPROC - 1 : procIntArrTime[k] \in Nat \ {0}
        BY WorkloadSums
      <4>3. QED
        BY <2>1, <4>1, <4>2
    <3>3. SumOf(procIntArrTime, (nproc + 1) + 1) = SumOf(procIntArrTime, nproc + 1) + procIntArrTime[nproc + 1]
      <4>1. \A k \in 0 .. NPROC - 1 : SumOf(procIntArrTime, k + 1) = SumOf(procIntArrTime, k) + procIntArrTime[k]
        BY <3>2, SumStep
      <4>. DEFINE m == nproc + 1
      <4>2. m \in 0 .. NPROC - 1
        BY <3>2
      <4>. HIDE DEF m
      <4>3. SumOf(procIntArrTime, m + 1) = SumOf(procIntArrTime, m) + procIntArrTime[m]
        BY <4>1, <4>2
      <4>4. QED
        BY <4>3 DEF m
    <3>4. (nproc + 1) + 1 = nproc + 2 /\ procIntArrTime[nproc + 1] \in Nat \ {0}
      <4>1. \A k \in 0 .. NPROC - 1 : procIntArrTime[k] \in Nat \ {0}
        BY WorkloadSums
      <4>2. nproc \in Nat
        BY ClocksTyped, ParamsAssumption
      <4>3. QED
        BY <3>2, <4>1, <4>2
    <3>5. QED
      BY <1>1, <2>1, <3>1, <3>3, <3>4, ClocksTyped DEF MakespanInv
  <2>2. CASE ~(nproc + 1 < NPROC)
    <3>1. nproc + 1 = NPROC /\ ~(nproc' < NPROC) /\ Arrived' = NPROC /\ Arrived = NPROC
      BY <1>1, <2>2, ClocksTyped, ParamsAssumption DEF Arrived
    <3>2. QED
      BY <1>1, <2>2, <3>1 DEF MakespanInv
  <2>3. QED
    BY <2>1, <2>2
<1>4. ASSUME NEW p \in Procs, p < nproc' PROVE state'[p] # "IDLE"
  <2>1. p = nproc \/ p < nproc
    BY <1>1, <1>4, ProcFacts, ClocksTyped
  <2>2. state \in [Procs -> States]
    BY DEF IndInv, TypeOK, ProcTableOK
  <2>3. QED
    BY <1>1, <2>1, <2>2 DEF MakespanInv
<1>5. currentTime <= nextForkTime' \/ ~(nproc' < NPROC)
  BY <1>1, <1>3, ClocksTyped, WorkloadSums
<1>6. (nproc' < NPROC) => currentTime <= nextForkTime'
  BY <1>5
<1>7. QED
  BY <1>1, <1>2, <1>3, <1>4, <1>6 DEF MakespanInv

\* The other CASEs leave clocks and sums alone.
LEMMA QuietMakespan ==
    ASSUME MakespanInv,
           UNCHANGED <<procIntArrTime, ioServTime, serviceTime, currentTime, cpuUseTime, nproc, nioreq, nextForkTime>>,
           ioDoneEventQueue' \subseteq ioDoneEventQueue,
           \A p \in Procs : state[p] # "IDLE" => state'[p] # "IDLE",
           pc' \in {"tick", "iodone", "quantum", "putready", "schedule"} =>
               \/ pc \in {"tick", "iodone", "quantum", "putready", "schedule"}
               \/ nproc < NPROC => currentTime < nextForkTime,
           pc' \in {"tick", "quantum", "putready", "schedule"} =>
               \/ pc \in {"tick", "quantum", "putready", "schedule"}
               \/ \A e \in ioDoneEventQueue : currentTime < e.doneTime
    PROVE  MakespanInv'
<1>1. Explained' = Explained /\ Arrived' = Arrived
  BY DEF Explained, Arrived
<1>2. QED
  BY <1>1 DEF MakespanInv

LEMMA NextMakespan ==
    IndInv /\ ExactInv /\ MakespanInv /\ WorkConserving /\ [Next]_vars => MakespanInv'
<1> SUFFICES ASSUME IndInv, ExactInv, MakespanInv, WorkConserving, [Next]_vars
             PROVE  MakespanInv'
  OBVIOUS
<1>0. state \in [Procs -> States]
  BY DEF IndInv, TypeOK, ProcTableOK
<1>1. CASE Terminate
  <2>1. \A p \in Procs : state[p] # "IDLE" => state'[p] # "IDLE"
    BY <1>0, <1>1 DEF Terminate
  <2>2. QED
    BY <1>1, <2>1, QuietMakespan DEF Terminate, workload, clocks
<1>2. CASE IODone
  <2>1. \A p \in Procs : state[p] # "IDLE" => state'[p] # "IDLE"
    BY <1>0, <1>2 DEF IODone
  <2>2. /\ ioDoneEventQueue' \subseteq ioDoneEventQueue /\ pc = "iodone" /\ pc' = "iodone"
        /\ UNCHANGED <<procIntArrTime, ioServTime, serviceTime, currentTime, cpuUseTime, nproc,
                       nioreq, nextForkTime>>
    BY <1>2 DEF IODone, workload, clocks
  <2>3. QED
    BY <2>1, <2>2, QuietMakespan
<1>3. CASE Quantum
  BY <1>3, QuietMakespan DEF Quantum, workload, clocks
<1>4. CASE PutReady
  <2>1. \A p \in Procs : state[p] # "IDLE" => state'[p] # "IDLE"
    BY <1>0, <1>4 DEF PutReady
  <2>2. QED
    BY <1>4, <2>1, QuietMakespan DEF PutReady, workload, clocks
<1>5. CASE Schedule
  <2>1. \A p \in Procs : state[p] # "IDLE" => state'[p] # "IDLE"
    BY <1>0, <1>5 DEF Schedule, DispatchIdle, Dispatch
  <2>2. /\ ioDoneEventQueue' \subseteq ioDoneEventQueue /\ pc = "schedule" /\ pc' = "tick"
        /\ UNCHANGED <<procIntArrTime, ioServTime, serviceTime, currentTime, cpuUseTime, nproc,
                       nioreq, nextForkTime>>
    BY <1>5 DEF Schedule, workload
  <2>3. QED
    BY <2>1, <2>2, QuietMakespan
<1>6. CASE SkipCase
  <2>1. UNCHANGED <<procIntArrTime, ioServTime, serviceTime, currentTime, cpuUseTime, nproc, nioreq,
                    nextForkTime, state, ioDoneEventQueue>>
    BY <1>6 DEF SkipCase, workload, clocks
  <2>2. pc = "fork" => (nproc < NPROC => currentTime < nextForkTime)
    BY <1>6, ClocksTyped DEF SkipCase, ForkDue, MakespanInv
  <2>3. pc = "iodone" => \A e \in ioDoneEventQueue : currentTime < e.doneTime
    BY <1>6, ClocksTyped DEF SkipCase, DueEvents, MakespanInv
  <2>4. QED
    BY <1>6, <2>1, <2>2, <2>3, QuietMakespan DEF SkipCase
<1>7. CASE UNCHANGED vars
  BY <1>7, QuietMakespan DEF vars, workload, clocks
<1>8. QED
  BY <1>1, <1>2, <1>3, <1>4, <1>5, <1>6, <1>7, TickMakespan, IORequestMakespan, ForkMakespan
  DEF Next, procExecSim, Stop

\* The simulation ends in time: every tick is explained by an arrival, by service or by
\* an I/O request that is being served.
THEOREM MakespanCorrect == Spec => []MakespanBound
<1>1. IndInv /\ MakespanInv => MakespanBound
  <2> SUFFICES ASSUME IndInv, MakespanInv
               PROVE  MakespanBound
    OBVIOUS
  <2>1. SumOf(serviceTime, NPROC) <= SumOf(procServTime, NPROC)
    <3>1. \A k \in 0 .. NPROC - 1 : serviceTime[k] <= procServTime[k]
      BY DEF IndInv, ServiceInv, ServiceFits, Procs
    <3>2. /\ \A k \in 0 .. NPROC - 1 : serviceTime[k] \in Int /\ procServTime[k] \in Int
          /\ NPROC \in Nat
      BY WorkloadSums
    <3>3. QED
      BY <3>1, <3>2, SumGrows
  <2>2. SumOf(procServTime, NPROC) \in Int
    <3>1. NPROC \in Nat /\ \A k \in 0 .. NPROC - 1 : procServTime[k] \in Int
      BY WorkloadSums
    <3>2. QED
      BY <3>1, SumStep
  <2>3. /\ SumOf(procIntArrTime, NPROC) \in Nat /\ SumOf(serviceTime, NPROC) \in Nat
        /\ SumOf(ioServTime, nioreq) \in Nat /\ SumOf(ioServTime, NIOREQ) \in Nat
        /\ SumOf(ioServTime, nioreq) <= SumOf(ioServTime, NIOREQ)
        /\ currentTime \in Nat
    <3>1. nioreq \in 0 .. NIOREQ /\ NIOREQ \in 0 .. NIOREQ
      BY ClocksTyped, ParamsAssumption
    <3>2. QED
      BY <3>1, WorkloadSums, ClocksTyped
  <2>4. currentTime <= SumOf(procIntArrTime, NPROC) + SumOf(serviceTime, NPROC) + SumOf(ioServTime, nioreq)
    BY DEF MakespanInv, Explained
  <2>5. QED
    BY <2>1, <2>2, <2>3, <2>4 DEF MakespanBound
<1>2. Spec => []MakespanInv
  <2>1. Spec => []ExactInv
    BY InitExact, NextExact, Invariance, PTL DEF Spec
  <2>2. QED
    BY <2>1, InitMakespan, NextMakespan, Invariance, CpuCorrect, PTL DEF Spec
<1>3. QED
  BY <1>1, <1>2, Invariance, PTL

----------------------------------------------------------------------------
\* The order of the ready queue.

PlaceIn(q, p) == CHOOSE i \in 1 .. Len(q) : q[i] = p

\* In a queue without repetitions a process has one place.
LEMMA PlaceIs ==
    ASSUME NEW q \in Seq(Procs), IsInjective(q), NEW p \in ToSet(q)
    PROVE  /\ PlaceIn(q, p) \in 1 .. Len(q) /\ q[PlaceIn(q, p)] = p
           /\ \A i \in 1 .. Len(q) : q[i] = p => i = PlaceIn(q, p)
<1>1. DOMAIN q = 1 .. Len(q)
  OBVIOUS
<1>2. \E i \in 1 .. Len(q) : q[i] = p
  BY <1>1 DEF ToSet
<1>3. PlaceIn(q, p) \in 1 .. Len(q) /\ q[PlaceIn(q, p)] = p
  BY <1>2 DEF PlaceIn
<1>4. QED
  BY <1>1, <1>3 DEF IsInjective

\* Nobody who stays is passed.
KeepsOrder(q, r) ==
    \A a, b \in ToSet(q) :
        a \in ToSet(r) /\ PlaceIn(q, a) < PlaceIn(q, b) =>
            b \in ToSet(r) /\ PlaceIn(r, a) < PlaceIn(r, b)

LEMMA AppendKeepsOrder ==
    ASSUME NEW q \in Seq(Procs), NEW x \in Procs, IsInjective(q), IsInjective(Append(q, x))
    PROVE  KeepsOrder(q, Append(q, x))
<1> DEFINE r == Append(q, x)
<1>1. /\ r \in Seq(Procs) /\ ToSet(q) \subseteq ToSet(r) /\ Len(r) = Len(q) + 1 /\ Len(q) \in Nat
      /\ \A i \in 1 .. Len(q) : r[i] = q[i]
  BY AppendQueue
<1>. HIDE DEF r
<1>2. IsInjective(r)
  BY DEF r
<1>3. ASSUME NEW a \in ToSet(q) PROVE PlaceIn(r, a) = PlaceIn(q, a)
  <2>1. PlaceIn(q, a) \in 1 .. Len(q) /\ q[PlaceIn(q, a)] = a
    BY PlaceIs
  <2>2. PlaceIn(q, a) \in 1 .. Len(r) /\ r[PlaceIn(q, a)] = a
    BY <1>1, <2>1
  <2>3. QED
    BY <1>1, <1>2, <2>2, PlaceIs
<1>4. KeepsOrder(q, r)
  BY <1>1, <1>3 DEF KeepsOrder
<1>5. QED
  BY <1>4 DEF r

LEMMA RemoveKeepsOrder ==
    ASSUME NEW q \in Seq(Procs), Len(q) >= 1, IsInjective(q)
    PROVE  KeepsOrder(q, RemoveAt(q, 1))
<1> DEFINE r == RemoveAt(q, 1)
<1>1. Len(q) \in Nat /\ 1 \in 1 .. Len(q)
  OBVIOUS
<1>2. /\ r \in Seq(Procs) /\ IsInjective(r) /\ Len(r) = Len(q) - 1
      /\ \A j \in 1 .. Len(q) - 1 : r[j] = IF j < 1 THEN q[j] ELSE q[j + 1]
      /\ ToSet(r) = ToSet(q) \ {q[1]}
  BY <1>1, RemoveAtQueue
<1>. HIDE DEF r
<1>3. \A j \in 1 .. Len(q) - 1 : r[j] = q[j + 1]
  BY <1>1, <1>2
<1>4. ASSUME NEW a \in ToSet(q), PlaceIn(q, a) # 1
      PROVE  a \in ToSet(r) /\ PlaceIn(r, a) = PlaceIn(q, a) - 1
  <2>1. PlaceIn(q, a) \in 1 .. Len(q) /\ q[PlaceIn(q, a)] = a
    BY PlaceIs
  <2>2. PlaceIn(q, a) - 1 \in 1 .. Len(q) - 1 /\ (PlaceIn(q, a) - 1) + 1 = PlaceIn(q, a)
    BY <1>1, <1>4, <2>1
  <2>3. r[PlaceIn(q, a) - 1] = a
    BY <1>3, <2>1, <2>2
  <2>4. a \in ToSet(r)
    <3>1. DOMAIN r = 1 .. Len(q) - 1
      BY <1>2
    <3>2. QED
      BY <2>2, <2>3, <3>1 DEF ToSet
  <2>5. QED
    BY <1>2, <2>2, <2>3, <2>4, PlaceIs
<1>5. ASSUME NEW a \in ToSet(q), NEW b \in ToSet(q), a \in ToSet(r), PlaceIn(q, a) < PlaceIn(q, b)
      PROVE  b \in ToSet(r) /\ PlaceIn(r, a) < PlaceIn(r, b)
  <2>1. /\ PlaceIn(q, a) \in 1 .. Len(q) /\ PlaceIn(q, b) \in 1 .. Len(q)
        /\ q[PlaceIn(q, a)] = a
    BY PlaceIs
  <2>2. PlaceIn(q, a) # 1 /\ PlaceIn(q, b) # 1
    BY <1>1, <1>2, <1>5, <2>1
  <2>3. /\ b \in ToSet(r) /\ PlaceIn(r, a) = PlaceIn(q, a) - 1
        /\ PlaceIn(r, b) = PlaceIn(q, b) - 1
    BY <1>4, <2>2
  <2>4. QED
    BY <1>1, <1>5, <2>1, <2>3
<1>6. KeepsOrder(q, r)
  BY <1>5 DEF KeepsOrder
<1>7. QED
  BY <1>6 DEF r

\* Under round robin only the head of the queue is taken, and only the end extended.
LEMMA QueueSteps ==
    ASSUME IndInv, [Next]_vars, schFunc = "RR"
    PROVE  \/ readyQueue' = readyQueue
           \/ \E x \in Procs : readyQueue' = Append(readyQueue, x)
           \/ Len(readyQueue) >= 1 /\ readyQueue' = RemoveAt(readyQueue, 1)
<1>1. readyQueue \in Seq(Procs) /\ runningProc \in Procs \cup {Idle}
  BY DEF IndInv, TypeOK, QueuesOK
<1>2. CASE Fork
  <2>1. nproc \in Procs
    BY <1>2, ProcFacts, ParamsAssumption DEF Fork, ForkDue, IndInv, TypeOK, LocalsOK
  <2>2. QED
    BY <1>2, <2>1 DEF Fork
<1>3. CASE IODone
  <2>1. PICK e \in ioDoneEventQueue :
          readyQueue' = Append(readyQueue, e.procid) \/ readyQueue' = readyQueue
    BY <1>3 DEF IODone, DueEvents
  <2>2. e.procid \in Procs
    BY DEF IndInv, TypeOK, QueuesOK
  <2>3. QED
    BY <2>1, <2>2
<1>4. CASE PutReady
  BY <1>1, <1>4 DEF PutReady, IndInv, FlagsInv, RunningIsActive
<1>5. CASE Schedule
  <2>1. CASE DispatchIdle
    BY <2>1 DEF DispatchIdle
  <2>2. ASSUME NEW i \in 1 .. Len(readyQueue), Chosen(i), Dispatch(i)
        PROVE  Len(readyQueue) >= 1 /\ readyQueue' = RemoveAt(readyQueue, 1)
    <3>1. \A p, q \in Procs : ~Better(p, q)
      BY DEF Better
    <3>2. \A j \in 1 .. Len(readyQueue) : readyQueue[j] \in Procs
      BY <1>1, ElementOfSeq
    <3>3. i = 1
      <4>1. i # 1 => 1 \in 1 .. i - 1 /\ 1 \in 1 .. Len(readyQueue)
        BY <1>1
      <4>2. i # 1 => Better(readyQueue[i], readyQueue[1])
        BY <2>2, <4>1 DEF Chosen
      <4>3. QED
        BY <3>1, <3>2, <4>1, <4>2
    <3>4. QED
      BY <1>1, <2>2, <3>3 DEF Dispatch
  <2>3. QED
    BY <1>5, <2>1, <2>2 DEF Schedule
<1>6. QED
  BY <1>2, <1>3, <1>4, <1>5
  DEF Next, procExecSim, Stop, vars, Tick, Terminate, IORequest, Quantum, SkipCase

\* Round robin is first come, first served.
THEOREM RoundRobinCorrect == Spec => NoOvertaking
<1> DEFINE Waits == schFunc = "RR" =>
         \A p, q \in ToSet(readyQueue) :
             p \in ToSet(readyQueue') /\ Position(p) < Position(q) =>
                 q \in ToSet(readyQueue') /\ Position(p)' < Position(q)'
<1>1. IndInv /\ IndInv' /\ [Next]_vars => [Waits]_vars
  <2> SUFFICES ASSUME IndInv, IndInv', [Next]_vars, schFunc = "RR"
               PROVE  Waits
    BY DEF Waits
  <2>1. /\ readyQueue \in Seq(Procs) /\ IsInjective(readyQueue) /\ IsInjective(readyQueue')
    BY DEF IndInv, TypeOK, QueuesOK, ProcessPlacement, QueuedOnce
  <2>2. KeepsOrder(readyQueue, readyQueue')
    <3>1. CASE readyQueue' = readyQueue
      BY <3>1 DEF KeepsOrder
    <3>2. CASE \E x \in Procs : readyQueue' = Append(readyQueue, x)
      BY <2>1, <3>2, AppendKeepsOrder
    <3>3. CASE Len(readyQueue) >= 1 /\ readyQueue' = RemoveAt(readyQueue, 1)
      BY <2>1, <3>3, RemoveKeepsOrder
    <3>4. QED
      BY <3>1, <3>2, <3>3, QueueSteps
  <2>3. ASSUME NEW p
        PROVE  Position(p) = PlaceIn(readyQueue, p) /\ Position(p)' = PlaceIn(readyQueue', p)
    BY DEF Position, PlaceIn
  <2>4. QED
    BY <2>2, <2>3 DEF KeepsOrder
<1>2. QED
  BY <1>1, Invariance, PTL DEF Spec, NoOvertaking

============================================================================
