# A TLA+ model of the CPU scheduler simulator

The repository is a C program that reads an input file (one line per process: start
time, duration, priority, list of CPU and I/O events) and a command line (number of
cores, number of ready queues, one list of options per queue), and simulates, one time
unit after the other, how the processes are scheduled on the cores and on one disk. This
directory holds a model of it in TLA+, the TLC runs that check the model and the TLAPS
proofs about it. File names and line numbers below are those of the repository's root.

## 1. The system

| Component | State it keeps | Operations | Model |
|---|---|---|---|
| Main loop and workload (`simulation.c`) | time; per process its state, the remaining events, its advancement | `launchSimulation`, `handleSimulationEvents`, `processArrived`, `advanceNextEvent`, `advanceProcessTime`, the getters | `CpuScheduler`; its allocations in `FrontEnd` |
| Input parser (`simulation.c:242-393`) | the workload being built | `parseInputFile`, `freeWorkload` | `FrontEnd` |
| Scheduler (`schedulingLogic.c`) | the ready queues, the wait queue, `queuesSizesBeforeRR` | `handleSchedulerEvents` (aging, core events, limits, preemption, end of interrupts, Round-Robin slices), `handleProcessForCPU`, `handleProcessForDisk`, `assignProcessesToResources`, `advanceSchedulingTime` | `CpuScheduler`, all of it; `initScheduler` and `freeScheduler` in `FrontEnd` |
| Cores and disk (`computer.c`) | per core a state, a node, three timers, the slice, `continueOnCPU`; the disk's state and node | `handleInterrupt`; `initComputer`, `freeComputer` | `CpuScheduler`; `FrontEnd` |
| Process queues (`queues.c`) | doubly linked lists of nodes | enqueue FCFS / SJF / by priority, dequeue, remove, lookups | `LinkedQueue`, pointer by pointer; `Queues`, as sequences |
| Graph (`graph.c`) | a list of drawing events per process and for the disk | `addProcessEventToGraph`, `addDiskEventToGraph`, the rows of `printGraph` | `ProcessGraph` |
| Statistics (`stats.c`) | seven counters per process | updates from the handlers, `printStats` | the updates in `CpuScheduler`, the allocations in `FrontEnd` |
| Queue options (`schedulingAlgorithms.c`) | type, slice, execution limit, age limit | `setAlgorithmType` | `CommandLine` |
| Command line and `main` (`main.c`) | option lists; what is allocated | `parseArguments`, `main` | `CommandLine`, `FrontEnd` |

The components share one thread and call each other directly. In each time unit
`handleSimulationEvents` runs first (arrivals, then the whole of `handleSchedulerEvents`,
then the end of a disk operation), then idle cores and the idle disk get processes, then
the progress of the processes and the timers of the cores advance. What makes this hard
is not parallelism but *order*: five activities of several processes (a burst ends, a
switch-out ends, a slice ends, an age or execution limit is reached, an interrupt starts
or ends) may fall on one time unit, on different cores, and each handler sees what the
handlers before it have done. A node is handed over between queues, cores and the disk
through pointers; a process that starts an I/O operation is on the wait queue *and* on
the core that still switches it out. Most conditions are tests with `==` on a counter,
once per time unit, so that a missed time unit is never made up for. And `rand()` lets an
interrupt hit a core in any state.

`PROJECT.json` lists the hazards this leads to, each at its line, with the properties
that watch it.

## 2. The modules

| Module | What it is |
|---|---|
| `Queues` | The list operations of `queues.c` as operators on sequences of processes, and what they do to the backward pointers |
| `LinkedQueue`, `LinkedQueueMC` | The lists themselves: `head`, `tail`, `size`, `prev`, `next`, with the loop of a sorted insertion step by step, shown to implement `Queues` |
| `CpuScheduler` | The simulation: its state, initial states, one action for each alternative of each handler's loop body, `Next`, `Spec`, the type invariant |
| `SchedulerProperties` | The properties of the simulation |
| `ProcessLife` | What the simulator promises to a process, without any scheduler; `CpuScheduler` refines it |
| `ProcessGraph`, `ProcessGraphMC` | The simulation composed with the graph that `advanceProcessTime` draws |
| `CommandLine` | `parseArguments`, with its allocations |
| `FrontEnd`, `FrontEndMC` | The program from `main` to its exit around the simulation: command line, input file, what `launchSimulation` allocates, and what is freed, with allocations that fail |
| `SchedulerMC` and the `.cfg` files | The inputs and bounds of the TLC runs |
| `QueuesProofs` | Lemmas about the list operations |
| `LinkedQueueProofs` | The pointers represent the sequences |
| `CpuSchedulerProofs` | The inductive invariant; the types and the disk's interrupts |
| `OwnershipProofs` | Work conservation; where the processes are, and that bursts end on time |
| `ProcessLifeProofs` | `CpuScheduler` implements `ProcessLife`; CPU times are exact, turnaround times covered, interrupts transparent |
| `ReadyQueueProofs` | The ready queues stay sorted; the options with which no list fault can happen; slices and execution limits are kept, and slice ends serve somebody |
| `ProcessGraphProofs` | The graph agrees with the simulation |
| `FrontEndProofs` | What becomes of the command line and the file; what is allocated and freed on every way out of `main` |

`CpuScheduler` stands on `Queues`, which `LinkedQueue` justifies. `ProcessGraph` runs
`CpuScheduler` and the graph together. `FrontEnd` contains the simulation as one step: what
it takes over from it is only that the processes come some way through their events.

### How the state corresponds to the code

* `phase` and `index` are the program counter: the handler whose loop runs next and the
  process, queue or core it stands at. `cursor` is the variable `node` of the aging loop.
* `workload[p]` is the input line (`ProcessSimulationInfo` without what changes),
  `proc[p]` what changes: the PCB's state, the remaining events, `advancementTime`.
* `node[p]` is the queue node of `p`. A process gets one node when it arrives and keeps it
  until it terminates, so a process number stands for the pointer to its node; `NULL` is 0.
* `readyQueues[q]` and `waitingQueue` are the forward chains. `stalePrev` is the set of
  nodes whose `prev` does not point to their predecessor: `removeNode` (`queues.c:207`)
  leaves it on the unlinked node, and `removeNode` and the sorted insertions follow it.
* `core[c]`, `disk`, `stats[p]` have the fields of the structs, `sizesBeforeRR` is
  `queuesSizesBeforeRR`.
* `fault` is `"none"` until the code follows a pointer that is NULL, dangling or out of an
  array, or links a node that is linked already; the model then stops, because what the
  program does next is undefined. The values say what happened: `nullEvent`
  (`advanceNextEvent` without a next event), `nullDisk` (`disk->processNode` of a WAITING
  process while the disk has none), `queueIndex` (a queue number outside the array),
  `relinked`, `stalePrev`, `freed`.

### How the actions correspond to the code

| Phase | Code | Actions |
|---|---|---|
| `loop` | `simulation.c:462` | `StartTick`, `EndOfWorkload` |
| `arrival` | `processArrived` | `ProcessArrived`, `ArrivalsDone` |
| `aging` | `schedulingLogic.c:237-258` | `AgingNextQueue`, `AgingKeep`, `AgingMove`, `AgingDone` |
| `event` | `schedulingLogic.c:262-320` | `NoProcess`, `SwitchInDone`, `SwitchOutDone`, `Terminate`, `StartIO`, `NoEvent` |
| `limit` | `schedulingLogic.c:325-355` | `WithinLimit`, `Demote` |
| `preempt` | `schedulingLogic.c:356-381` | `Preempt`, `KeepRunning` |
| `resume` | `schedulingLogic.c:383-413` | `Resume`, `NoResume` |
| `sizes`, `slice` | `schedulingLogic.c:414-464` | `QueuesSizesBeforeRR`, `SliceContinues`, `SwitchOutAfterSlice`, `NewSlice` |
| `interrupt` | `simulation.c:547-564`, `handleInterrupt` | `NoInterrupt`, `InterruptCore`, `NoInterruptTime` |
| `assignCores`, `assignDisk` | `assignProcessesToResources` | `PutProcessOnCPU`, `SkipCore`, `PutProcessOnDisk`, `SkipDisk` |
| `advanceProcesses` | `advanceProcessTime` | `AdvanceProcessTime` |
| `advanceScheduling` | `advanceSchedulingTime` | `AdvanceSchedulingTime` |
| `free`, `done` | `freeComputer`, end of the program | `FreeComputer`, `Stop` |

Each handler body is one action with every call it makes: `HandleProcessForCPU` includes
the stored SJF key, the position in a sorted queue and the change of the backward chain;
`SwitchOutReady` is the block that three places of `handleSchedulerEvents` repeat. The
durations of context switches and interrupts are constants, so both branches of the tests
on `SWITCH_IN_DURATION`, `SWITCH_OUT_DURATION` and `INTERRUPT_TIME` are in the model.
Names with an underscore and a comment "mutant" are variants with a mistake; no
specification uses them. Putting them in place of the operator they vary shows that the
properties notice the mistake.

The order of simultaneous arrivals, of cores and of queues is the order of the C loops.
What varies between the executions of the model is what varies between executions of the
program: the input, the options, and the core `rand()` picks.

The model was also compared with the compiled program: on 400 random inputs and option
lists the program's final statistics were an outcome of the model whenever the program
ended, and the model reported a fault whenever the program crashed.

### The lists

In `LinkedQueue` the variables `head`, `tail`, `size`, `prev`, `next` and `key` are the
fields of `Queue` and `Node`. Calls are made in any order, on nodes that are in no list
(to link) or in the list (to unlink); the fault `relinked` of the scheduler's model
watches over this. The loop of `enqueueNodePriority` and `enqueueNodeSJF` is the actions
`SearchFromSecond`, `SearchOn` and `LinkBefore` with its pointer `tmp` in `call`.
Three history variables relate the pointers to `Queues`: `chain` is what the operators of
`Queues` say a list holds, `stale` what they say of the wrong `prev` pointers, and `sound`
is true until one of these has been followed. This is the refinement: `ImplementsSequences`
says that the pointers represent `chain`, in every step.

### The graph

`graph` has the rows of events of the processes and of the disk. `GraphNext` is `Next`,
with `AddEvents` joined to `AdvanceProcessTime`, the one handler that calls the graph. The
rows `printGraph` prints are `Printed(row, t)`: an event is repeated until the next one.

### The command line and `main`

`heap` is the set of blocks allocated and not freed, named by what they hold. Any `malloc`
tested by the code (and those not tested, where the program then follows NULL) may fail. An argument is
an option with the number `atoi` makes of its value. A line of the input file is what
`parseInputFile` finds out about it: skipped, complete, with its fields, with a list that
is closed, lacks its last `)`, lacks its `[`, is empty or missing, and so many events.
`fault` is `null`, `uninitialised`, `freed` or `behind` when C leaves open what happens
next. The list behind the last queue is written behind the array. What comes of this depends
on the sizes `malloc` rounds up to: either the model stops with the fault `behind`
(`WriteBehind`), or no harm is done and the program goes on with a list too many (`overrun`).

## 3. The runs

The inputs of the simulation runs are small sets of input files (every combination of the
bursts, start times and priorities given there) and of option lists; the rest of a
behaviour is determined, apart from the choice of the interrupted core, so the runs cover
every execution of these inputs to its end.

| Run | What it checks | Bounds |
|---|---|---|
| `multilevel` | Nothing undefined happens; each node is in one place (`OneOwner`); CPU time is exact; bursts, slices and execution limits are noticed in time; the statistics add up; graph and statistics agree, nobody is drawn on another's core, the disk's row shows the I/O; slice ends serve somebody; interrupts are transparent; termination is final; everybody finishes; `ProcessLife` is implemented | 4 processes, 2 cores, 2 queues (RR over RR, PRIORITY over FCFS, with `--limit` and `--age`), 80 time units; the graph has room for 3 of the 4 processes, and for the program's 10000 time slots |
| `preemptive` | PRIORITY and SJF queues stay sorted by keys that are up to date, nodes are in one place | 3 processes, 1 core, 2 queues, equal keys included, 40 time units |
| `zero_durations` | The same kind of properties with all three durations 0 | 3 processes, 2 cores, 2 queues, 60 time units |
| `any_input` | Types, the disk's ownership by an interrupt, PCB and core states agree, no idle resource, on inputs the program accepts although it was not written for them | 5 processes, 2 cores, 2 queues of all types, options on queues where they make no sense, 25 time units |
| `linked_queue` | The pointers represent the sequences of `Queues` until a wrong `prev` is followed, which always breaks a list; a sorted insertion stops at the right node | 4 nodes (symmetric), a sorted and an unsorted list, 2 keys |
| `front_end` | Each queue gets the options of its own list, and unknown arguments are refused; exactly one list too many gets through; good input with one list for each queue meets nothing undefined; nothing is freed twice (but for options that were not given); what leaks; the two passes over the file agree; `main` ends | up to 9 arguments, files of up to 3 lines, good and bad, up to 2 failed allocations |
| `short_io`, `equal_priority`, `age_skipped`, `slice_missed`, `cut_off`, `stale_prev` | One disagreement each between the code and what it or its comments say, see section 5 | one to four processes, the program's own 200 time units; the bounds of `linked_queue` |

Why these bounds are enough: two cores are needed for a slice end to meet a switch-out on
another core and for an interrupt to miss the core of the process concerned; four
processes fill both cores, leave one in a queue and one on the disk; two queues are needed
for demotion, aging and for preemption by a higher queue. Bursts of one to six time units
are around the durations of the context switches (1 and 2), of the slices (2 and 3) and
of the limits (1 to 5), so the ends of all of them coincide in some execution. In the runs
`multilevel` and `zero_durations` every process finishes long before `MaxTime`, so
the cut-off hides nothing; in `preemptive` two processes of equal priority never finish,
and in `any_input` the bound keeps every behaviour short. Time and all counters are
bounded by `MaxTime` in the program itself (`simulation.c:483`). A list of four nodes has
a head, a tail and two nodes between them, which a wrong `prev` needs: one removed from
the middle, and its successor used afterwards. With two failing allocations the program
can survive the first (the ones it does not test) and fail at the second.

`NoUndefinedBehaviour` and `OneOwner` assume of the input that event times increase, an
I/O burst is at least as long as a switch-out, bursts alternate and the last one is a CPU
burst (`GoodInputs`). The input files of `test_files` satisfy this, with two exceptions:
`input_2.txt` has two CPU events in a row (line 4), and `input_test_2.txt` has events without
times, which the parser reads as two CPU events at time 0. Of the options the runs assume
that the first queue has no age limit and the last no execution limit. The run `any_input`
drops these assumptions, `short_io` shows what the one on I/O bursts is for.

The deadlock check is on in every run but `front_end`: in the simulation and in the lists
an end or a fault is the stuttering action `Stop`. In `front_end` the program really
ends, and `MainEnds` says that it does not get stuck before.

**Fairness.** `Spec` has `WF_vars(Next)`: the program is one thread that never
blocks, so a handler that has been reached is executed. Nothing else is assumed, and in
particular nothing about `rand()`, about which allocation fails or about the input.
`AllProcessesTerminate` and `MainEnds` are checked under it. `LinkedQueue` has callers of
its own choosing and states no fairness.

**Refinement.** `ImplementsProcessLife` maps every process to the place its node is in
(outside, ready, core, waiting, disk, done) and its advancement to the service it has had.
Each step of the simulator is then a step of `ProcessLife` or leaves it alone: nobody is
served on a core in an I/O burst or on the disk in a CPU burst, nobody more than once per time unit, no
more processes are on cores than there are cores, nobody goes to the disk but from a core
and nobody terminates before all bursts are served. Steps of `ProcessLife` are of one
process, so the run also shows that no handler moves two at once.

**A property left out on purpose.** `ExecutionWithinLimit` is
checked in `multilevel` only. With a switch-in duration of 0 a process becomes OCCUPIED
after the limit test of its time unit and can pass its limit, which the test with `==`
then never notices. `LimitsAreKept` in section 4 says under which conditions it holds.
`SliceNotExceeded` needs conditions on the options too, which `SlicesAreKept` states; TLC
checks in `multilevel` that its options meet both (`GoodOptions` in `SchedulerMC`).

## 4. The proofs

`tlapm` checks, for every number of processes, cores and queues, every set of input files
and options, and every duration:

* `TypeCorrect`: `Spec => []TypeOK`.
* `InterruptExclusive`: `Spec => []InterruptHoldsDisk`. At most one core is interrupted;
  meanwhile the disk is idle and keeps the process whose operation is over; a running disk
  has a process.

* `WorkConservation`: `Spec => []NoIdleResource`. When the time advances, no core is idle
  while a process is ready, and the disk is idle with a process waiting only during an
  interrupt.

The first two follow from `Invariance`, `Spec => []Inv`, where `Inv` is the conjunction of

* `TypeOK` and `InterruptHoldsDisk` themselves,
* `IndexOK`: in the loop over the cores `index` is the number of a core, and a core whose
  limit or preemption is tested is OCCUPIED;
* `CoreOK`: a core that executes or switches has a process.

None of the parts is inductive alone. `Resume` keeps the types only because the disk has
the process it hands back, which is `InterruptHoldsDisk`; this is kept only because the
core whose interrupt ends is the one interrupted core, for which `index` has to be a core;
`SwitchOutReady` links the core's process, which exists because the core is OCCUPIED when
the limit or the preemption is tested, even if a demotion without a context switch lies
between the two. `NextInv` has one case per action, each a lemma with one step per part.

`WorkConservation` has an invariant of its own, `AssignedOK`: no core below `index` is idle
while a process is ready (the loop of `assignProcessesToResources` so far), then no core at
all, then the same for the disk. It holds because the loop only takes processes out of the
queues, and because `assignProcessesToResources` runs after every handler that could put
one in or free a core.

The proofs use the named assumptions of `CpuScheduler`: the sizes are positive
(`SizeAssumption`), durations are natural numbers (`DurationAssumption`), inputs and
options have the fields of their structs and a process has an event (`InputAssumption`).
`MaxTime` may be any natural number, input lines need not alternate bursts, and queue options
may be anything. TLC evaluates the assumptions in every run and has checked `Inv` as well.

`QueuesProofs` has the lemmas about lists: where a sorted insertion puts a node, that
linking adds and unlinking removes exactly one node, that head and successor are nodes.

**Where the processes are.** `OwnershipProofs` proves, for any number of processes, cores
and queues, all options, all durations and all input files like those of `test_files` (but
for the two named in section 3):

* `NobodyLost`: `Spec => []OneOwner`.
* `BurstsEndOnTime`: `Spec => []NeverPastEvent`.
* `RunningIsOnCore`: `Spec => []RunningOnOccupiedCore`.
* `EndIsFinal`: `Spec => TerminationIsFinal`.
* `OnlyListFaults`: while the simulation runs, its fault is none, `queueIndex` or `stalePrev`. A missing
  event, an empty disk, a node linked twice and a node freed twice are ruled out.

"Like those of `test_files`" is the hypothesis `GoodInputs`: the times of the events
increase and are smaller than the duration, bursts alternate between CPU and I/O, beginning
with CPU at time 0 and ending with CPU, and an I/O burst is at least as long as a switch-out. The named
assumption `GoodWorkloads` of `SchedulerMC` lets TLC check that the inputs of the runs
`multilevel`, `preemptive` and `zero_durations` are of this kind. `short_io` shows that the
last condition is needed: without it `OneOwner` fails.

The two faults that remain depend on the options and on the order in which nodes are
removed from the lists (`any_input` and `stale_prev` meet them). They end the run, so every property above holds up to them;
`OneOwner` and `NeverPastEvent` say so themselves.

All five follow from `Ownership`, `Spec => []Kept`. Unless a fault has ended the run, `Kept` says:

* each queue holds a process at most once, no two queues the same one, and queues, disk and cores
  exclude each other (`Exclusive`), but for a core that switches its process out for I/O:
  there the process is *also* on the wait queue or the disk;
* a core has at most one running timer, the one its state names (`Timers`);
* a process in a CPU place has an I/O event next or none, one in an I/O place a CPU event
  (`Bursts`), so that `handleSchedulerEvents` takes the end of a burst for what it is;
* a process in a queue has at least one time unit left to its event, one on a core or the
  disk at least none (`InTime`), and a process that is switched out for I/O at least as
  many as its `switchOutTimer` shows (`SwitchedOutInTime`): the switch-out ends first;
* what the handlers before this one have established in this time unit
  (`HandledInTime`, `DiskInTime`, `Alive`): an OCCUPIED core that has been looked at has time left, so it may progress.

`SwitchedOutInTime` is the reason why the rest is inductive. The process of a core is
served by the disk while the core counts its switch-out down; both lose one time unit per
iteration, except that an interrupt of the core stops its timer. The interrupt has the
disk idle for as long (`InterruptHoldsDisk`), so the process stops too. Without this, the
process could come back to a ready queue while its old core still has it. `NextKept` has a
lemma for each handler that moves a process, and one (`GoOnKept`) for those that do not.

**What becomes of a process.** `ProcessLifeProofs` proves, for the same inputs and again
for all sizes, options and durations:

* `LifeIsImplemented`: `Spec /\ []NoUndefinedBehaviour => ImplementsProcessLife`. The second
  conjunct excludes the runs that a list fault ends: when `OneOwner` is broken, a process
  has no place to map to.
* `CpuTimeExact`: `Spec => []CpuTimeIsExact`.
* `InterruptsAreTransparent`: `Spec => InterruptIsTransparent`.
* `TurnaroundIsCovered`: `Spec => []TurnaroundCoversAll`.

`Owned`, what `Kept` says while there is no fault, tells where a process is before and
after a step. It does not tell how far the process is in its input line, which is what
`ProcessLife` computes the burst from; the code only has the head of the remaining
events. `InLine` closes the
gap: the remaining events are the end of the input line, and the advancement has reached
the event before them; that it has not passed the first of them is part of `Owned`. So a
process on a core is in a CPU burst of its line and one on the disk in an I/O burst
(`InBurst`), hence a unit of service is one `ProcessLife` allows (`ServeStep`) and adds to
the CPU time exactly when it should (`OneMoreUnit`). Each other handler has a lemma that
makes it one move of one process or none (`ArriveStep`, `ContextSwitchStep`, `StartIOStep`, `EndIOStep`, ...). That at most
`CoreCount` processes are on cores is a cardinality argument: two cores never have the
same process, so one more process on a core needs a core that was free (`CoreFree`).

`TurnaroundIsCovered` is about sums over a whole life. Its invariant, `Accounted`, keeps the account at
every moment: the time since the arrival is at least the advancement, the waiting time, one switch-in for every
context switch and the part of the switch-in that is over. In a time unit at most one of
these goes up, because `Owned` has the process in one place only.

**The order of the queues.** `ReadyQueueProofs` proves `QueuesStayOrdered`,
`Spec => []QueuesAreOrdered`, for the same inputs. A sorted insertion puts a node behind
the smaller and equal keys and before the larger ones (`SortedPositionSplits`); and the
keys of a linked node do not change, although four handlers write the fields they are
computed from, because by `Owned` these handlers write those of processes that are in no
ready queue.

**Which options are safe.** `SafeOptions` says that no queue has an age limit and that the
last one has no execution limit. `ReadyQueueProofs` proves for them, with `GoodInputs`:

* `SafeOptionsAreSafe`: no handler follows a NULL, dangling or out-of-range pointer before
  the loop ends. (In a run that is cut off, `freeComputer` may still free a node twice,
  which is the run `cut_off`.)
* `LifeIsAlwaysImplemented`: `Spec => ImplementsProcessLife`, for every run.
* `FinishedRunsAreSafe`: when every process terminates, which is how a run ends that is not
  cut off, `NoUndefinedBehaviour` holds to the end, and by `FinishedRunsFreeOnce` such a run
  frees every node once whatever its options: by the ownership invariant a terminated
  process is in no queue and on no core or disk, so `freeComputer` finds nothing.

Without aging a node is only ever unlinked at the head of a list, so no `prev` pointer gets
stale; without a limit on the last queue no process is sent to a queue behind it.

**Slices and limits.** Both are tested with `==` once per time unit, on OCCUPIED cores
only, so what has to be shown is that no counter jumps over its limit between two tests.
`ReadyQueueProofs` proves, for `GoodInputs`:

* `SlicesAreKept`: with `SliceOptions`, `Spec => []SliceNotExceeded`. `SliceOptions` says that
  slices last at least one time unit, and that a queue with an execution limit above a
  Round-Robin queue is a Round-Robin queue itself, with a slice that is not longer. A
  process demoted without leaving its core keeps its slice counter; from any other queue
  it may arrive beyond its new slice and is then never switched out (the run `slice_missed`).
* `LimitsAreKept`: with `LimitOptions`, `Spec => []ExecutionWithinLimit`. `LimitOptions` says
  that limits are at least 1 and a switch-in takes time. Without the latter a process can
  come back from the disk with its limit just reached, and executes before it is tested.

The invariants `SlicesKept` and `LimitsKept` are about the cores that execute or will when
their interrupt is over (`Executing`): their counters are at most at the limit, and below
it from the moment the loop has tested them (`SliceTested`, `LimitTested`) until they
execute again. An interrupt keeps a core from the tests, but also from counting; what
makes the invariants inductive is that a core can only be interrupted behind both tests.
That the algorithm of such a process exists at all is `QueuesExist`, which uses the order of the
queues (`AllInOrder`): a process comes to a core with the number of the queue it was in.

* `SliceEndsServe`: `Spec => SliceEndsServeSomebody`, for `GoodInputs` and all options.

This one counts. `queuesSizesBeforeRR` starts with the length of every ready queue and
deducts the cores that are already being switched out, from the first queue to the last.
`SlicesServe` says that from there on the switching cores and the sizes that are left
(`Served`) are together no more than the ready processes, unless nothing is left; a slice
end moves one from the second to the first. `SizesServe` establishes it: each ready process
is at a place of its own in the queues (`SlotsAreReady`, from `DistinctReady`), and where a
size is left all switching cores have been handed out before, each to another place
(`EachSpareIsHandedOut`). That looks for the queue a core is handed out to; it is the first one
behind which fewer cores are left (`LeastNumber`).

**The graph.** `ProcessGraphProofs` proves for `GraphSpec`, with `GoodInputs` and room for
all time units (`MaxTime < MaxTimeSlots`):

* `RowsMatchStatistics`: `GraphSpec => []GraphAgreesWithStats`.
* `CoresAreNotShared`: `GraphSpec => []OneProcessPerCore`, for at most 62 cores.
* `DiskRowIsIO`: `GraphSpec => []DiskRowShowsIO`, for at most 62 processes.

There are 62 symbols; the next number has the symbol of another one. `GraphOK` says that
all events of a row are of earlier time units, so that an event added now changes no
column that is there. `Agrees` is the account of each row: so many columns show a core as
the CPU time says, and so on; `Apart` and `DiskAgrees` are the same for two rows, and for
the row of the disk. The simulation is part of `GraphSpec`, so `Inv`, `Kept` and `InLine`
hold in it (`StepInvariance`, `StepOwnership`).

**The pointers.** `LinkedQueueProofs` proves, for any number of nodes, lists and keys:

* `ListsImplementSequences`: `Spec => []ImplementsSequences`. The pointers represent the
  sequences of `Queues` in every order of calls, until a wrong `prev` is followed.
* `StalePrevBreaksList`: `Spec => []StalePrevIsFatal`. Following one always breaks a list,
  so the scheduler's model is right to stop there with the fault `stalePrev`.
* `SearchStopsInOrder`: `Spec => []SearchInOrder`, and `PointersAreNodes`, the types.

All follow from `ListInvariant`, `Spec => []FullInv`. `FullInv` is
`TypeOK /\ DistinctNodes /\ ImplementsSequences /\ SearchInOrder /\ CallOK`, with
`StalePrevIsFatal`. `DistinctNodes` (no node is twice in the lists) is what makes writing
the pointers of one node harmless to all others; `CallOK` says that the list does not
change under the loop of a sorted insertion, and that the node to insert is in none.
A sorted insertion ends at a node because the key of the tail is larger, which was tested
before the loop. Every operation has a lemma on pointers only, from which the
action's lemma follows.

**Around the simulation.** `FrontEndProofs` proves for `FrontEnd`, for every command line,
every file and any number of failing allocations:

* `OptionsAreParsedAsWritten`: `Spec => []ParsedAsWritten`, and `AtMostOneListTooMany`:
  `Spec => []OneListTooMany`.
* `TheTwoPassesAgree`: `Spec => []PassesAgree`.
* `NothingElseIsFreed`: `Spec => []FreesOnlyAllocated`.
* `GoodInputIsRunThrough`: `Spec => []GoodInputIsSafe`, with exactly one list of options for each
  queue: with one more the write behind the array is undefined, with fewer the frees are.
* `LeaksAreKnown`: `Spec => []OnlyKnownLeaks`, and `TypesAreKept`, the types.

The assumptions are those on the form of the inputs (`CommandLineAssumption`,
`FileAssumption`). The three invariants behind this:

* `ReadAsWritten`: behind argument `i`, the lists are what the arguments in front of `i` say
  when they are read as a whole (`ListBelow`), and each of these arguments is a known one. An option adds to the last list because no
  list begins between its own beginning and `i`.
* `FileInvariant`: the first pass has counted the process lines above `line`, the second
  has read just these into the workload, in order; so it cannot pass the count.
* `HeapInvariant` says of every place of the program what is allocated at least (`Present`,
  so that no free goes wrong) and at most (`Bounded`, so that nothing else can leak), and
  what is there if no allocation has failed (`NothingMissing`). `FaultsExplained` gives the
  cause of every fault: too few lists of options for a wrong free, too many for a write behind
  the array, the file or a failed allocation for every other.

The hard step is `LaunchKeepsHeap`: each of the allocations of `launchSimulation` has its
own way back, and what it frees must be just what was allocated in front of it. The
blocks stand in one sequence; `LaunchPlaces` says which block is at which place, for any
number of queues, cores and processes, `BuiltBlocks` what stands in front of it, and
`Unwinding` that this is what is freed.

Only model-checked:

* `AllProcessesTerminate` and `MainEnds`: liveness is out of the prover's reach.
* `NoUndefinedBehaviour` for other options than `SafeOptions`, and for a run that is cut
  off. With `--age` it does not
  hold for every input: the lines given under `stale_prev` in section 5 break a list.

## 5. Where the code and what is said about it disagree

| Run | What it shows |
|---|---|
| `short_io` | An I/O burst of one time unit ends while its process is still switched out. `schedulingLogic.c:283` then takes the end of the I/O burst for the end of a CPU burst: the event is consumed, the process is put on the wait queue again, and the end of its interrupt follows a NULL event. |
| `equal_priority` | `<=` in `schedulingLogic.c:217` and `:221` lets a process of equal priority preempt. The two then switch each other out without executing until the loop is cut off. |
| `age_skipped` | The aging loop goes on with `node->next` after the node has moved to the other queue, so the rest of its old queue is not looked at; as the test is `==`, these processes are never moved up. |
| `slice_missed` | `schedulingLogic.c:359-360` says of one core that "a running process should be preempted whenever a higher priority process is ready to run, or when the running process has used up its time slice". A process demoted without leaving its core (`:335`) keeps its slice counter; if that is already beyond the slice of its new Round-Robin queue, the test with `==` (`:437`) never holds again, and it executes on while another process of the queue is ready. In the program: the lines `1,0,14,1,[(0,CPU),(4,IO),(12,CPU)]`, `2,6,12,1,[(0,CPU)]` and the arguments `-c 1 -q 2 --algorithm=FCFS --limit=3 --algorithm=RR --RRSlice=2`; process 2 is never switched out. |
| `stale_prev` | `removeNode` is described by `queues.h:111` as "Dequeue a specific Node from the given queue (if present)". It sets the `prev` of the removed node's successor to the removed node (`queues.c:207`). When that successor is then removed at the tail of the list, the list ends at a node that is not in it, and the node stays in the list. In the program this loses a process for ever: with the lines `1,0,6,2,[(0,CPU)]`, `2,1,6,3,[(0,CPU)]`, `3,2,6,1,[(0,CPU)]`, `4,3,40,0,[(0,CPU)]` and the arguments `-c 1 -q 2 --algorithm=FCFS --limit=1 --algorithm=PRIORITY --age=10`. |
| `cut_off` | When the loop is left at time 200 during such a switch-out, `freeComputer` frees the node twice. |

Seen while modelling and not runs of their own, because nothing in the repository says
what should happen: a process queued by the end of an interrupt is seen by the preemption
test one time unit late; an interrupt on a core that switches out a process for I/O makes the
process READY while it is on the wait queue (`computer.c:119`); `main.c:82` accepts one
option list too many and writes it behind the array (`main.c:98`), which is undefined
behaviour and harmless only when `malloc` has rounded the size up (`OneListTooMany` says that
it is never more than one list); fewer lists than queues end with a free of what was never
allocated (`FreesOnlyAllocated`); a line that does not fit the buffer, and a list of events
that is empty or without `[` or `)`, lead to uninitialised or NULL pointers
(`GoodInputIsSafe` says that nothing else in the file does, when every queue has one list); the types of the events are
never read, they are assumed to alternate (`test_files/input_2.txt:4` has two CPU events in
a row).

## 6. What is not modelled

* The layout of what is printed: `printStats`, the header and the wrapping of `printGraph`,
  `printVerbose`; and `meanResponseTime`, which `processArrived` and the end of a process
  derive from two modelled fields.
* The handle of the input file, and the allocations inside the simulation's loop (nodes of
  the queues, events of the graph).
* Two lines with the same PID, and negative start times: a process is its line, and it
  starts at a natural number. No file of the repository has either.
* `topReadyQueue` and `min3`, which nothing calls, and `graph_stats_example.c`.
* In `FrontEnd` the simulation is one step, which leaves every process with some of its
  events freed. What a text is (digits, separators, `strtok`) is abstracted to what
  the parser concludes from it.

## 7. What is left

1. The weakest condition on `--age` under which no stale `prev` is followed.
