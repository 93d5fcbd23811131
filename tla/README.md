# A TLA+ development for school_codes

The repository is a collection of small programs. Four of them have state
worth a specification and are modelled here: a CPU scheduling simulator, a
virtual memory simulator, a simple file system, and an echo server with its two
clients. The others are listed in the inventory and in section 5, with the
reason why they have no model.

Contents: the inventory of the system, the modules and how they correspond to
the code, the runs, the proofs, what is left out and why, the findings, and
what could come next.

## 1. Inventory

### CPU scheduling simulator (`src/os_c_linux/schedule_simulation/schedule.c`)

- *State*: `procTable` (state, service time, priority, saved registers), the
  ready queue and the queue of I/O events as linked lists, the process on the
  CPU and its registers, the clock, the counters of arrivals, requests and
  terminations, two flags `scheCheck` and `putReadyCheck`.
- *Operations*: one sequential loop, `procExecSim`. An iteration is one tick
  followed by the CASEs: a process ends (4), requests I/O (5), a process
  arrives (2), I/O is done (3), the quantum is over (1); then the running
  process is put back, and one of five policies (RR, SJF, SRTN, GS, SFS) picks
  the next.
- *Hard*: several CASEs apply in the same tick and talk to each other through
  the flags and the state of the running process; registers are saved at three
  places; comparisons of times are for equality.
- *Correct when*: a process is in one place at a time; registers follow their
  process; the CPU does not idle while somebody is ready; no turn exceeds the
  quantum; the policy is obeyed at every tick; everybody gets exactly the
  service asked for, and the simulation ends.

### Virtual memory simulator (`src/os_c_linux/memory_simulation/memsim.c`)

- *State*: page frames in a linked list with a header (`phyMemQueue`), page
  tables (one level, two levels, or one inverted hash table), the counters of
  the report.
- *Operations*: three simulations, each a loop that takes one reference of
  every process's trace in turn: a hit, a fault into an unused frame, a fault
  that replaces the page of some process.
- *Hard*: one frame list shared by all processes, so a fault of one process
  invalidates an entry in the table of another; pointer surgery with special
  cases at the ends of the list; a search with no end test; traces of different
  lengths.
- *Correct when*: tables and frames agree; no NULL pointer is followed;
  replacement is FIFO or LRU; the reported counts add up.

### Simple file system (`src/os_c_linux/file_simulation`)

- *State*: the disk image (superblock, free map, inodes, directory blocks,
  indirect blocks, data blocks); in memory only the superblock and the working
  directory.
- *Operations*: the commands of the shell `sfs_main.c`, implemented by
  `sfs_func_my.c` on whole-block reads and writes (`sfs_disk.c`).
- *Hard*: every command has its own copy of the search for an entry and for
  free blocks; the free map is read and written apart from the blocks it
  describes; disk and directory may be full; freed blocks are used again;
  entries are counted in `sfi_size`; a command is several block writes, between
  which the program may die.
- *Correct when*: no block has two owners or is free while owned; nothing is
  lost; directories form a tree; files read back as written and no command
  changes another file; what is half done does not harm what was there.
- `sfs_func_ext.o` (fsck, bitmap) is an object file without source.

### Echo server and clients (`src/network_c_linux`)

- *State*: of the server (`servertest.c`), the array `client[]` of descriptors
  with its highest used slot `maxi`, the set `allset` with its highest
  descriptor `maxfd`, the set `rset` that `select` filled and the countdown
  `nready`; of a client, how far it is in its input; of the kernel, the
  connections with a stream in each direction and the backlog of the listening
  socket.
- *Operations*: the server is one process: `select`, at most one `accept`, then a
  loop over the slots that reads once from each ready client and writes back
  what it read. `shutClient.c` sends a file of lines, half-closes and reads until
  the server closes; `writeClient.c` sends the lines its user types and returns at
  the end of them.
- *Hard*: processes interleave; new connections and ready clients share the
  countdown; `accept` is not checked; a write to a client blocks the server for
  everybody; a client may leave with echoes on their way, and then a write of the
  server may raise SIGPIPE; stdio buffers lines that `select` knows nothing of.
- *Correct when*: slots, set and connections agree; every ready client is
  served; every line comes back once, in order, to the client that sent it;
  nobody waits for ever; a client that behaves gets all its echoes.
- `maketext.c` writes the file: lines of one length. `dayTimeServer.c` and
  `dayTimeClient.c` make one write and one read per connection.

### Board (`src/db_java_local_board`), balance and lotto (`src/java_practice`)

- The board is a Spring controller over a JPA repository. Hard: an edit form
  opened before another user's delete or edit overwrites or re-creates a post.
- `Balance.java` keeps one `int`; `lotto/Main.java` draws and compares numbers.

### Other

`src/swe_cicd` (a hello world, a container file, agent binaries) and
`src/ai_model` (a placeholder) have no behaviour to model.

### Interaction

The programs do not call each other. Within a program the components interact
by calls in one thread: `main` generates the workload that `procExecSim` reads;
the page-table code and the frame list of the simulator share `phyMem`; the
shell calls the commands, which share the image through `sfs_disk.c`. The only
concurrency in the repository is between the processes of the network programs,
which meet in the sockets of the kernel, and between users of the board.

## 2. Modules

| Module | Models | Uses |
|---|---|---|
| `ProcessLifecycle` | abstract: what a scheduler promises its processes | |
| `Scheduler` | `schedule.c` | `ProcessLifecycle` (refinement) |
| `SchedulerProofs` | theorems: places, registers, the quantum, the policy, the service, the length of a simulation, and the refinement | `Scheduler` |
| `FrameList` | the linked list of frames in `memsim.c`, pointer by pointer | |
| `PageReplacement` | abstract: FIFO and LRU replacement | |
| `VMSim` | what the three simulations share: frames, rounds, counters | `FrameList` |
| `OneLevelVM` | `oneLevelVMSim` | `VMSim`, `PageReplacement` (refinement) |
| `VMSimProofs` | lemmas about the frame list and its order, the entries, the rounds and the history | `VMSim` |
| `OneLevelVMProofs` | theorems: tables and frames agree, no NULL is followed, the rounds are fair, the refinement, what LRU keeps | `OneLevelVM`, `VMSimProofs` |
| `TwoLevelVM` | `twoLevelVMSim` | `VMSim`, `PageReplacement` (refinement) |
| `TwoLevelVMProofs` | theorems: tables and frames agree, tables are made on demand, the refinement | `TwoLevelVM`, `VMSimProofs` |
| `InvertedVM` | `invertedPageVMSim` | `VMSim` |
| `InvertedVMProofs` | theorems: hash table and frames agree, no NULL is followed, the accesses add up | `InvertedVM`, `VMSimProofs` |
| `NameTree` | abstract: a tree of names and contents, as the user sees it | |
| `SfsDisk` | a disk image: its blocks, and the entries, files and pointers it holds | |
| `Sfs` | the commands of `sfs_func_my.c`, each as a whole | `SfsDisk`, `NameTree` (refinement) |
| `SfsProofs` | theorems: the disk is in order, files read back, the refinement of the tree of names | `Sfs` |
| `SfsWrites` | the same commands as block writes, and the death of the program | `Sfs` |
| `SfsWritesProofs` | theorems: the image between any two writes; lemmas about disks of which only what has a name counts | `SfsWrites`, `SfsProofs` |
| `Sockets` | external: the kernel's stream sockets | |
| `EchoServer` | `servertest.c` | `Sockets` |
| `EchoClients` | `shutClient.c`, `writeClient.c` | `Sockets` |
| `EchoSystem` | server and clients together | `EchoServer`, `EchoClients` |
| `EchoProofs` | theorems: slots, no standoff, echoes in order, the count of reported descriptors, what ends the server | `EchoSystem` |
| `MC*` | the instances for TLC | the module they name |

**Scheduler.** The loop body is split at its CASEs: `pc` says which CASE is
next, and each CASE is one action when its condition holds (`Terminate`,
`IORequest`, `Fork`, `IODone`, `Quantum`, `PutReady`, `Schedule`) and a disjunct
of `SkipCase` when it does not. `IODone` handles one due event per step, in
queue order. So the invariants hold between any two CASEs, not only at the end
of an iteration. The workload `main` draws at random is any workload of the
given ranges (`Workload`), including the case that the span of the request
intervals is negative. The two registers change in the same way, so one
(`cpuReg`, `saveReg`) stands for both; their overflow is ignored. Guaranteed
Scheduling compares ratios of floats, the model the exact ratios.

**FrameList, VMSim.** A frame list is a record of `next`, `prev` and `tail`, so
that the mistakes of pointer code can be expressed: NULL, a frame linked to
itself, a frame cut off. A trace is not a file but any sequence of references,
chosen while it is read and ending anywhere. `recency` is a history variable:
the pages in the order of their last reference. `PageReplacement` sees the page
referenced last, so a hit on one page cannot pass for a hit on another, and
each process's hits and faults. `Walk` reads the list along `next` for the
refinement (`Hops` are its steps), and the loaded pages in that order are the
abstract `order`.

**Sfs.** Every command is one step, reads and writes included, for the program
is a single process. Blocks keep their numbers; a block's content is an element
of one of four partial functions (`inode`, `dirBlock`, `indirect`, `data`), and
`bitmap` is the set of blocks marked in the free map. A file's content is the
sequence of chunks of the host file it came from, so that a mixed-up block shows.
`Lowest` is the search all commands make for free blocks; `Scan` is the
different one `sfs_cpin` makes for the data. `lacking` and `output` hold what the
last command reported. `NameTree` knows paths, contents and the working directory, and
no blocks: `VisibleTree` and `WorkingPath` map the disk to them, and every step of
`Sfs` is one of `NameTree` until the tree is lost. Two commands lose it, since
the code does not check them: `rmdir ..` in an empty root directory frees the root
(`RootLost`), and `mv` renames `.` and `..` like any name, after which a
directory holds itself or its parent under another name (`DotRenamed`), and
`rmdir` of that name frees the working directory. Both commands are steps of `Sfs`;
the properties speak of what comes before them (`~Lost`), and
`ImplementsNameTree` says that no other command loses the tree. What commands do to
the disk after that is not modelled (`Command`).

**SfsWrites.** `Begin` takes one of Sfs's commands and the list of the blocks it
will write, in the order of the code; `WriteNext` is one `disk_write` to `image`;
`Crash` throws the rest of the list away, before any of the writes, and leaves the
image, unmounted. The program is what dies, not the machine: a write that was made
stays made, and a block is written whole. The properties are checked at every
such image. Commands go on from those that are `Intact`: each name leads
to an inode that was written, each directory to blocks that were, and
all of it is marked. In the others (a death between the entry and the new inode or
directory block, or in `cpin` before the map is written) the next command reads
what a block held before, or gives the blocks of the half-copied file out
again; `fresh` remembers which inode the death left so, and what commands do there is
not modelled. The variables of `Sfs` are the disk as the command
will leave it; `Image` is an instance of `SfsDisk` over what has been written, so
that `Content`, `Entries` and the pointers mean the same in both.

**Sockets, EchoServer, EchoClients, EchoSystem.** Each process runs from one
system call that can block, or whose result others can change, to the next; so
the server interleaves at `select`, before `accept`, before each read, and while
a write does not fit. `pc` names these places. The unit of a stream is a line;
`MAXLINE`, the size of a read, and the room of the two directions are numbers of
lines. `rset` and the loop's `i` together are the reported descriptors the loop
has not passed; the module keeps just these, since the loop only goes up. The
sockets are the kernel's: a closed end, a half-closed one, one aborted with
echoes unread; the reset that tells the server so is a step of its own, which
may come late. A client's round of `select` is one step up to the `Writen`.

Operators introduced by a comment `Slip:` are deliberate mistakes, one for each
property: put in the place of the definition that follows them, they make TLC
report the property violated, which shows that the property has something to
say. No specification uses them.

## 3. Runs

All properties are stated, with the code they are about, in the modules.

| Run | Checks |
|---|---|
| `MCScheduler` | three processes, two requests, all policies: `ProcessPlacement`, `RegistersTrackService`, `WorkConserving`, `QuantumBound`, `PolicyRespected`, `ServedExactly`, `NoOvertaking` |
| `MCSchedulerLive` | two processes: every simulation ends (`Completes`), in time (`MakespanBound`), `Scheduler` implements `ProcessLifecycle`, and the proofs' `IndInv` holds |
| `MCSchedulerIO` | violation: `IOOnlyWhenNotTerminating` |
| `MCOneLevelVM` | 1, 2 and 4 frames, both policies: `PageTableMatchesFrames`, `NoNullDereference`, `RoundsAreFair`, `ImplementsPolicy` |
| `MCOneLevelVMTwoFrames` | violation: `LRUKeepsMostRecent` with 2 frames |
| `MCTwoLevelVM` | 1, 2 and 4 frames: `PageTableMatchesFrames`, `TablesOnDemand`, `ImplementsLRU` |
| `MCInvertedVM` | 1, 2 and 4 frames: `HashMatchesFrames`, `NoNullDereference`, `AccessesAddUp` |
| `MCSfs` | any commands on ten blocks, until one loses the tree: `BlocksOwnedOnce`, `NothingOrphaned`, `DirectoryTree`, `FilesReadBack`, `ImplementsNameTree` |
| `MCSfsWrites` | the writes of the commands one by one, a death of the program before any of them: `CommandsComplete`, `ImageSafe`, `FilesReadBackMeanwhile` |
| `MCEchoSystem` | a half-closing client, two typing ones: `SlotsMatchConnections`, `NreadyCountsReady`, `EchoesInOrder`, `NoStandoff`, `OnlyLeaversEndServer`, `ShutClientsComplete` |
| `MCSfsRoot` | violation: `RootStays` |
| `MCSfsNoBlock` | violation: `NoBlockMeansNone` |

Bounds, and why they are enough:

- *Scheduler.* Service of 1 to 3 ticks with a quantum of 2 gives turns shorter
  than, equal to and longer than the quantum; three processes let an arrival, a
  wake-up and an expiry fall into one tick with a queue of two; I/O of 0 to 2
  ticks covers an event that is due in the tick it is issued. `MaxTime` is
  above what `MakespanBound` allows for these workloads (20 for 6 + 9 + 4 ticks,
  15 for 4 + 6 + 4), so no simulation is cut off. The liveness run has two
  processes, and allows requests with an interval of 0.
- *Virtual memory.* Frame counts are powers of two in the code. One frame and
  two are its special cases, four leaves frames in the middle of the list. Two
  processes with three pages each need more frames than there are, and five
  references per trace (`MaxTraces`; four in the two-level run) fill the memory,
  hit and replace. The two-level run uses two first-level and two second-level
  indices. `ImplementsPolicy` and `ImplementsLRU` do not ask for LRU with two
  frames, since that is a finding.
- *Sfs.* Two direct pointers, one pointer per indirect block, two entries per
  directory block and two bytes per block put every limit of the code (a full
  directory block, a full directory, the indirect block, the largest file) within
  reach of a volume of ten blocks; three names fill it. A free map of words of
  two bits makes the word boundaries of `Scan` matter. The host files are one
  that fills the last direct block (after which `cpin` reads an empty one), one that
  fills the last indirect one, one too large, and one that does not exist; one
  that ends within a block is in the instance of SfsWrites. Names are symmetric: the
  program only compares them for equality.
- *SfsWrites.* As in Sfs, with two names, one host file, which needs the
  indirect block and does not fill its last one, three entries per directory
  block and a map of two blocks (ten bits, six to a block), so that a map can be half
  written. One death, wherever it is, is followed by everything that can be done on
  the image it left if that is `Intact`, its further commands' writes included; a
  second one (`MaxCrashes`) would start from such an image again.
- *Echo.* Descriptors from 4 to 5 are free (`OPEN_MAX` and `FD_SETSIZE` are 6; both
  are 1024 in the code's world, where `ServerAssumption` puts the limit on
  descriptors at or below that on slots): two connections are open while a
  third waits, so that `accept` fails, slots are given back in any order and
  taken again. There are as many writeClients as descriptors, so their users can keep
  the shutClient waiting for ever, which is why `ShutClientsComplete` has an exception. A read takes two lines and each direction holds two, which is the
  least that is allowed, so that streams fill and writes are split. The shutClient
  sends six lines, which is as many as are under way at most, so that it would be
  stuck if it did not read. One user types two lines in one go (`Pastes`), so that
  one stays in stdio's buffer, and leaves before, between or after its echoes; the other
  types nothing, and leaves at any time or never.

*Deadlock* is checked in every run; a simulation that has ended stutters in an
explicit `Stop`.

*Fairness.* `MCSchedulerLive` assumes weak fairness of `procExecSim`, one thread
that always takes its next step. There is no fairness of single actions, as at
most one is enabled. `MCEchoSystem` assumes weak fairness of the server's process
and of each client's process, that is, that the operating system schedules a
process that can run. Users are not held to anything (they may connect never,
stop typing, or not close their input), and neither is the network: the reset of
a connection may be lost.

## 4. Proofs

`SchedulerProofs` proves, for any number of processes and requests, any quantum,
any set of policies, any workload in the ranges and any `MaxTime`, under
`ParamsAssumption` of `Scheduler` only:

| Theorem | States |
|---|---|
| `Invariance` | `IndInv` is an invariant |
| `TypeCorrect` | `TypeOK` |
| `PlacementCorrect` | `ProcessPlacement` |
| `RegistersCorrect` | `RegistersTrackService` |
| `CpuCorrect` | `WorkConserving` |
| `QuantumCorrect` | `QuantumBound` |
| `Refinement` | `Scheduler` implements `ProcessLifecycle` |
| `PolicyCorrect` | `PolicyRespected` |
| `ServiceCorrect` | `ServedExactly` |
| `RoundRobinCorrect` | `NoOvertaking` |
| `MakespanCorrect` | `MakespanBound` |

The argument. Between two CASEs the places of the processes are not yet what
they must be at the next tick: a process that ended is still on the CPU, one that
is to be preempted is still running. `IndInv` adds to the properties what the
rest of the iteration relies on:

- `FlagsInv`: whoever leaves the CPU without a successor, or becomes ready
  while the CPU is idle, has raised `scheCheck`; `scheCheck` over a running
  process comes with `putReadyCheck`, and `putReadyCheck` only with a running
  process. Without it `PutReady` could put a blocked process into the ready
  queue, and `Schedule` could drop a running one.
- `ServiceInv`: a process that is ready or has not arrived still needs service,
  one that terminated does not, nobody has more than asked for. It makes the
  test `targetServiceTime != serviceTime` of CASE 3 the right one for a process
  that finished in the tick of its request, and it carries the refinement.
- `TurnInv`: after CASE 1 a turn that goes on is below the quantum, although
  `qTime` is compared for equality.
- `CountInv`: processes from `nproc` on have not arrived, so `Fork` never takes
  one that is somewhere else.

There is one lemma for each action, and two lemmas about queues: appending and
removing keep a queue free of repetitions (`AppendQueue`, `RemoveAtQueue`). The
refinement maps a process that was served to `exit` wherever the tail of the
iteration still takes it; `LifeStep` shows that each action is one step of
`ProcessLifecycle` or a stutter.

The last four theorems start from `IndInv`:

- `PolicyInv`: from one call of the policy until the next is due, the running
  process is preferred to all that are ready. The call establishes it
  (`ChosenIsPreferred`, from `Chosen`); a process that joins the queue raises
  `scheCheck`; and a tick only improves what the running one has to show,
  except under GS, whose promise is for the start of a turn.
- `ExactInv`: `termProc` is the number of finished processes, where the one CASE 4
  is about to count is not among them yet; a process is never served for longer
  than it has been there, and not at all before it arrives.
- Under round robin the queue changes in two ways only, by an append and by
  the removal of its head (`QueueSteps`), and both leave the others in their
  order (`AppendKeepsOrder`, `RemoveKeepsOrder`).
- `MakespanInv`: every tick so far, and the tick every pending event is due at, is
  at most `Explained`: the arrivals up to the next one, the service given, and the
  I/O of the requests issued. A tick with a process on the CPU adds to the
  service. In one without, nobody is ready and nothing is finished
  (`WorkConserving`, `ExactInv`), so an arrival or an event is still ahead
  (`IdleFor`), and these are within the bound. That a due arrival or event is never
  passed, although the arrival is compared for equality, is part of the
  invariant. The sums are recursive functions; what a proof needs of them is
  that they grow with a summand by what it grows by (`SumOneMore`), from a
  least counterexample (`SetInduction`).

`EchoProofs` proves, for any set of clients, any files, any limits on slots and descriptors and any buffers, under
`SocketsAssumption`, `ServerAssumption` and `ClientsAssumption` only:

| Theorem | States |
|---|---|
| `SlotsCorrect` | `SlotsMatchConnections` |
| `NeverAStandoff` | `NoStandoff` |
| `OrderCorrect` | `EchoesInOrder` |
| `CountCorrect` | `NreadyCountsReady` |
| `EndCorrect` | `OnlyLeaversEndServer` |

The argument.

- `ServerInv` is inductive by itself. It states the agreement of slots, set and
  connections by the element (`SlotsInv`), that the backlog holds each waiting
  connection once (`QueueInv`), and that a write is for a slot in use (`WriteInv`).
  That a slot is free when a descriptor is comes from counting: slots in use
  and open descriptors correspond one to one, the listening socket has a
  descriptor and no slot, and there are no more descriptors than slots.
- `FlowInv` bounds what is under way between a client and its echoes, which is
  what the client has sent and not got, by one read of the server and one
  direction's room, and by one line more when the client is about to send.
  A client comes to its `Writen` only after a round in which it read everything
  a read takes, or found nothing to read. With the room of a direction at least
  a read's size, both directions cannot be full.
- `ConnInv` ties the two ends of a connection together: what a client that has
  not connected, that is sending or that has left can have in its streams; and
  that a connection the server closed is one whose client sends no more.
  `ReadyInv` says that what `select` reported stays true until the loop comes to
  it. With them each step moves a line from one part of
  `got \o toClient \o Echoing \o toServer` to the next, and `OrderInv`, the
  property with the streams associated to the right, is inductive.
- `CountInv`: from `select` on `nready` is the number of reported descriptors not
  served, and the listening one is served first. The property counts slots;
  slots still to serve and reported descriptors correspond one to one, by
  `ServerInv` and `ReadyInv`.
- `LeftInv` follows a client that is gone while the server holds its connection.
  It can only be a writeClient that returned, since a shutClient ends only
  when the server's end is closed. At that moment, by `OrderInv`, what it printed,
  what it left unread and what the server still has make up all it sent, and from then on
  a reset means that something was lost. A write fails only after a reset.

`OneLevelVMProofs`, `TwoLevelVMProofs` and `InvertedVMProofs` prove, for any
number of frames, processes and pages and traces of any lengths, under
`VMAssumption` (and `TwoLevelAssumption`, `InvertedAssumption` in the other two) only:

| Theorem | States |
|---|---|
| `TablesInvariant`, `HashInvariant` | `IndInv` of the module is an invariant |
| `TypesCorrect`, `TwoLevelTypesCorrect`, `InvertedTypesCorrect` | `TypeOK` of the module |
| `TablesCorrect` | `PageTableMatchesFrames`, one level, FIFO and LRU |
| `ListCorrect` | `NoNullDereference` |
| `RoundsCorrect` | `RoundsAreFair` |
| `PolicyRefinement` | `ImplementsPolicy`: FIFO, and LRU unless there are two frames |
| `MostRecentKept` | `LRUKeepsMostRecent`, if two is not one of the `FrameCounts` |
| `TwoLevelTablesCorrect` | `PageTableMatchesFrames`, two levels |
| `TablesAllocatedOnce` | `TablesOnDemand` |
| `LRURefinement` | `ImplementsLRU`, unless there are two frames |
| `HashCorrect` | `HashMatchesFrames` |
| `InvertedListCorrect` | `NoNullDereference`, inverted table |
| `AccessesCorrect` | `AccessesAddUp` |

The argument.

- Under LRU the list is either linked through exactly the loaded frames, there and
  back (`Linked`: some sequence of the frames without repetition describes both
  directions), or no loaded frame has a successor and the first one stays.
  The second is what becomes of a list of one or two frames after its first
  replacement (finding 2); a replacement then takes that first frame again,
  and no operation follows a pointer of it. A hit moves an element of the
  sequence to its end, a replacement its head, and a load appends one
  (`HitKeepsList`, `ReplaceKeepsList`, `LoadKeepsList`). So the frame to be replaced
  is always a loaded one. FIFO needs less: its list has only to lead to loaded frames.
- `Agree`: the valid pages are the contents of the loaded frames, and no page is in two.
  A fault is on a page that is not valid, so loading keeps it (`LoadAgrees`); a
  replacement keeps it because the entry that is invalidated is that of the page
  in the frame (`ReplaceAgrees`). `EntriesOK` adds that a valid entry names the
  frame of its page, so that a hit moves a loaded frame; FIFO does not use it.
- `RoundInv`: in a round there is a number of references that all processes have
  made and those before `turn` have made one more than, unless one of them
  has come to the end of its trace.
- The refinements. `InOrder`: the list leads through the loaded frames in an order `s`,
  and the abstract `order` is the pages in the frames of `s` (`PagesListed`). That the
  recursive `Hops` go along `s` needs no induction with an operator: if they left
  it, there would be a first hop that does (`HopsAre`, by `LeastNatural`). The three
  operations then change the pages as the policy changes its `order` (`HitOrder`,
  `LoadOrder`, `ReplaceOrder`). FIFO takes its victim by `PHYMEMCOUNT` and not from the list:
  `InTurn` adds to the invariant that the frames along the list are those
  from the counter on and around, so both name the same frame. With two frames
  under LRU there is no such `s` after a replacement (finding 2).
- `MostRecentKept`. `RecentOrder`: `recency` is some older pages followed by the pages along
  the list. A hit takes a page out of the second part, a load or a
  replacement one out of the first, if it is there at all, and a replacement hands over
  the least recent of the second part. So the frames hold the end of `recency`, and before
  they are full all of it.

- Two levels: a table exists exactly for the first-level entries some reference
  went through. The references are those in `recency`, from which a hit takes a
  page only to put it back at the end (`ReferenceRecency`).
- Inverted table. `HashOK` relates the chains to a set of frames, and is kept
  when the entry of a new frame is put at the head of its chain
  (`ChainPrepend`) and when the entry of a replaced page is taken out, wherever in
  its chain it is (`ChainRemove`). It says that the entry looked for is there, which
  the search that has no end test relies on. The entries of a chain name different
  frames, so a chain is no longer than there are frames, and that bounds the
  accesses of one search.
- The list of the inverted simulation is not linked through the loaded frames
  for ever, since a hit on the tail links it to itself. It becomes `Loose`: all
  that is left of the order is that the head is a loaded frame and a link from one leads to
  one or nowhere. This is enough: no NULL is followed, the frame to be replaced is
  always loaded.

`SfsProofs` proves, for any size of volume and of its blocks, any numbers of direct
and indirect pointers and of entries per block, any names and any host files, under
the assumptions of `SfsDisk` only:

| Theorem | States |
|---|---|
| `SfsInvariant` | `IndInv` is an invariant |
| `SfsTypesCorrect` | `TypeOK` |
| `BlocksOwnedOnceCorrect` | `BlocksOwnedOnce` |
| `NothingOrphanedCorrect` | `NothingOrphaned` |
| `DirectoryTreeCorrect` | `DirectoryTree` |
| `FilesReadBackCorrect` | `FilesReadBack` |
| `NameTreeImplemented` | `ImplementsNameTree` |

The argument.

- The properties speak of lists of blocks that follow the pointers of the disk.
  `DiskOK` says the same by the element: each block is of one kind, which is the kind
  its pointer is for (`Kinds`, `DirectKinds`, `IndirectKinds`); no two pointers are
  equal (`DirectOnce`, `IndirectOnce`, `RowsOnce`) and no two entries give a name
  to the same inode (`LinksOnce`); everything is pointed to (`AllPointed`,
  `AllLinked`); each directory has its own entries, and its size counts the ones
  in use (`DotsLead`, `SizesCount`); what a file's pointers lead to is the start of a
  host file (`FilesHold`). From it `OwnedOnce`, `NoneOrphaned`, `TreeOK` and
  `ReadBack` derive the properties.
- `DiskOK` is about any disk, not only the one the variables hold, and has a
  parameter: the inodes that have no name. So a command is followed through
  the disks between its steps. `touch`, `mkdir` and `cpin` first give the directory one
  more block if it is full, then make an inode without a name, for `cpin`
  with its blocks, and then enter the name; `rm` and `rmdir` take the name away and then
  free what has none. Each of these steps is a lemma, and a command is the
  composition of its steps.
- That the blocks taken are free and different from each other comes from the
  scans: `Lowest` takes the least free block each time, and `Scan` never goes back, so
  what it takes grows strictly. That there is a first free entry and a least hole is
  the existence of a least natural number (`LeastNatural`).
- `sfi_size` counts entries, so entering and removing a name need the cardinality
  of the set of used entries, which is finite as the rows and columns are.
- A file's content depends on its own blocks only. No other command writes them, since
  it writes blocks that were free and blocks of other kinds.
- When the tree is lost (`Lost`: the root's inode was freed, finding 3, or a dot was
  renamed) only `SfsTypes` is left, as in the properties.
- The refinement is about paths of any length. The names on the disk are taken as
  links, triples of a directory, a name and an inode (`LinksIn`). By `DiskOK` they are
  `Treelike`: each inode but the root's has one link, and a directory has a name
  once. `PathsAlong`, a recursive function that goes one level deeper at a time,
  yields a set of paths that is `Grown` (each path is the root's or one link longer than
  another) and `Complete` (each path that can go on does); it gets there, since a path
  is not longer than there are directories with links (`DepthBound`, `LevelsExist`).
  There is only one such set (`SamePaths`). So it is enough to show what a
  command makes of this set: one more path (`PathAdded`), one less
  (`PathDropped`), or the paths below one moved (`PathMoved`), and from it what becomes
  of the tree (`TreeGrows`, `TreeShrinks`, `TreeMoves`).
- The one fact needed beyond `IndInv` is `Placed`: the working directory can be
  reached from the root, so that `cd` and every command have a path to work at. Then
  each command is the step of `NameTree` of its kind or is refused there
  (`TouchSteps`, `MvSteps`, ... and `RefusedSteps`), or it is one of the two that lose
  the tree. That the others keep it follows from what they do to the links: an
  ordinary name that is entered, taken away or renamed makes no directory
  its own or its parent's child.

`VolumeAssumption` says that the root directory's block is on the volume; otherwise the
image could not be made.

`SfsWritesProofs` proves, for any volume, any names and host files and any number of
deaths of the program (`MaxCrashes`), under the assumptions of `SfsDisk` and
`WritesAssumption`:

| Theorem | States |
|---|---|
| `WInvariant` | `WInv` is an invariant |
| `CommandsCompleteAlways` | `CommandsComplete` |
| `ImageSafeAlways` | `ImageSafe` |
| `FilesReadBackMeanwhileAlways` | `FilesReadBackMeanwhile` |

The argument.

- `DiskOK` is not an invariant here. After a death of the program blocks are marked
  that nothing leads to, inodes are on the disk that have no name, and a
  directory's size counts an entry it does not have. `Sane` is what is left: it speaks
  only of the inodes that have a name (`Live`). What they lead to is
  marked, no two places of them name the same block (`TargetsOnce`), each
  entry in use is one of theirs (`NamesLead`), directories have their dots
  (`DirsFormed`), what files lead to is on the disk (`FilesHeld`), files
  are the start of a host file and no directory has more entries than its size says
  (`AllSized`). It takes an inode `g`, which is the
  one a command is making: its name may be there before it is.
- The disk is seen through `Reading`: a block nobody has written reads as an empty
  directory or table, or as `Stale` data, so that `Sane` speaks of images
  that lack blocks. The steps of `SfsProofs` are proved again for it, by the
  place at which a block is named (`Place`): a step that leaves alone all the names
  lead to (`FrameSane`), a size or a block of a directory written, an entry
  written or taken away, an inode counted or left out.
- `WInv` says that the disk a command leaves is sane (`Rest`), and that the writes that
  are left lead to it from the image (`Trail`): there is a sequence of
  images, one between every two writes, from `image` to `Disk`, each of them `Fine`.
  A fine image is sane, perhaps but for the inode being made; is sane without
  exception if it is `Intact` (by the element, `Crashable`); and
  has the contents of the files which the finished disk has. Writing is then going one image
  further (`TrailNext`), and an empty list is `CommandsComplete`.
- That is `Going`, one half of `WInv`. After a death the image is the disk and fine,
  the inode being made is still excepted, and no command is under way (`AfterDeath`, the
  other half): mounting keeps that, and a command or `cd` asks for an `Intact`
  image, which is sane without exception, so it goes on as before the death (`GoesOn`,
  `CrashOK`).
- So the work is in `Begin`: each command's list of writes is a trail. The lists
  are put together from pieces as in the code (`TrailCat`): the free map, block by
  block, for which it matters that bits are only added before what uses them
  is written, and only cleared after the last thing that pointed there is gone
  (`MapTrail`); the entering of a name (`EnterTrail`); the removal of one
  (`RemoveTrail`); and `cpin`'s loops, whose n-th write leaves a file that holds as much
  of the host file as its size says (`Copying`, `StageFine`).
- `ImageSafe` and `FilesReadBackMeanwhile` are stated with the pointers and contents
  of `Image`. `PlacesLinked` and `LinkedPlaces` translate them: the pointers
  followed from a name are exactly the places of the named inodes.

Only model-checked:

- `Completes` and `ShutClientsComplete`: liveness is out of the prover's reach.

## 5. What the models leave out

- *Scheduler*: parameters outside `ParamsAssumption`, such as an interarrival or
  a service time of 0, which the program accepts but never gets done with, or no
  I/O requests at all, for which it reads past its array; `printResult`;
  `blockedQueue`, which no code uses; register overflow.
- *Memory simulator*: parsing of traces and arguments; the offset and the
  read/write flag, which nothing uses; `TwoLevelVM` takes the memory `malloc`
  returns to be free of valid entries (see `Init` there). For the inverted table
  LRU is not claimed: a hit on the last frame links it to itself
  (`memsim.c:409-417`), a later replacement follows the list from there, and no
  text of the repository promises an order. `MCInvertedVM` shows that no NULL is followed
  and the table stays right.
- *Sfs*: `ls` and `dump`, which only print; a mount of
  another image; name lengths; I/O errors, at which the program ends. Commands on a
  volume whose tree is `Lost`: what they do depends on what the freed
  blocks are used for next. Commands on an image that a death left not `Intact`: they
  read what a block held before, or give out the blocks of a half-copied file.
  In `SfsWrites` the two commands that lose the tree are left out, as nothing
  follows them. The block `cpin` reads into,
  `ctemp[1]`, is one byte too short for `fgets`; the model takes the byte behind
  it to be unused.
- *Echo*: lines of unequal length. `NoStandoff` counts lines; if a user types
  lines of very different lengths, a client that reads one line per round can
  fall behind by bytes. Signals other than SIGPIPE; a client's read error after
  the server's death; a `connect` that fails, which no client checks; a limit on
  descriptors above `FD_SETSIZE`, with which `FD_SET` writes past the set; the
  length of the backlog; a client that blocks in the middle of a line.
- *Daytime programs*: a connection is one write and a close; no property relates
  two of its steps.
- *Board*: each operation is one call of a repository interface that Spring Data
  implements; transactions, generated keys and what a save of a deleted row does
  are the libraries'. A model would be one of JPA, not of this code.
- *Balance, lotto*: single-threaded, three assignments in one, none that stays
  in the other.
- `sfs_func_ext.o`, `src/swe_cicd`, `src/ai_model`: no source to model.

Observed, and allowed by the properties: `rmdir` frees only the first block of
a directory, so a directory that once grew leaves its other blocks marked
(`NothingOrphaned` says that they are empty).

## 6. Findings

1. `schedule.c:115`: I/O is said to be requested "only when the process does not
   terminate", but CASE 5 does not look at CASE 4 (`MCSchedulerIO`). The process
   goes through `S_BLOCKED` once more; the proofs show that it is not served
   again.
2. `memsim.c:155`: with two frames the replaced frame is not linked again, and
   replacement is not LRU any more (`MCOneLevelVMTwoFrames`; `memsim.c:4` says
   LRU).
3. `sfs_func_my.c:523`: `rmdir ..` in an empty root directory frees the root's
   inode, block 1 (`MCSfsRoot`; `sfs.h:11`).
4. `sfs_func_my.c:961`: the scans of `cpin` resume at the last bit in every later
   word of the free map, so `cpin` reports "No block available" while blocks are
   free (`MCSfsNoBlock`; `sfs_func_my.c:45`).

Seen with `EchoSystem`, and said by no text of the repository, so no finding: a
`writeClient` that returns with echoes on their way can end the server for
everybody (`OnlyLeaversEndServer` says when), and when descriptors run out the
server either spins over `select` and `accept` until one is free again, or
aborts, if the build checks `FD_SET`. Users of `writeClient` that hold every
descriptor keep other clients in the backlog as long as they like
(`ShutClientsComplete` excepts this). And with `Sfs`: after `mkdir d`, `cd d`,
`mv . x` the command `rmdir x` frees the working directory (`Lost`).

## 7. What could come next

The file system after a death that left a name leading to a block not
written: what its commands make of the stale inode or directory block there, and
which files `cpin`'s unmarked blocks are then given to.
