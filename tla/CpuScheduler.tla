---------------------------- MODULE CpuScheduler ----------------------------
(***************************************************************************)
(* The simulator: the main loop of launchSimulation (simulation.c), the    *)
(* scheduler (schedulingLogic.c), the cores and the disk (computer.c).     *)
(*                                                                         *)
(* The program is sequential.  One iteration of its loop is one time unit, *)
(* and its handlers run in a fixed order; `phase` says which one is next   *)
(* and `index` at which process, queue or core its for-loop stands.  An    *)
(* action is one iteration of a handler's loop, or one of the alternatives *)
(* of that iteration.  Three things vary between executions: the input     *)
(* file, the command line, and the core rand() picks for an interrupt.     *)
(*                                                                         *)
(* Where the C code would follow a pointer that is NULL, dangling or out   *)
(* of an array, the action records the reason in `fault` and the model     *)
(* stops: what the program does afterwards is undefined.                   *)
(***************************************************************************)
EXTENDS Queues, FiniteSets

CONSTANTS
    NbProcesses,        \* lines of the input file
    CoreCount,          \* -c
    QueueCount,         \* -q
    Workloads,          \* the input files considered
    Configurations,     \* the option lists of the ready queues considered
    SwitchInDuration,   \* SWITCH_IN_DURATION  (1 in computer.h)
    SwitchOutDuration,  \* SWITCH_OUT_DURATION (2 in computer.h)
    InterruptTime,      \* INTERRUPT_TIME      (1 in computer.c)
    MaxTime             \* the loop is left when time > MaxTime (200)

Procs  == 1..NbProcesses
Cores  == 0..(CoreCount - 1)
Queue  == 0..(QueueCount - 1)
NO_LIMIT == -1

AlgorithmTypes == {"FCFS", "SJF", "RR", "PRIORITY"}
ProcessStates  == {"READY", "RUNNING", "WAITING", "TERMINATED"}
CoreStates     == {"SWITCH_IN", "SWITCH_OUT", "INTERRUPTED", "OCCUPIED", "IDLE"}
DiskStates     == {"DISK_RUNNING", "DISK_IDLE"}

\* One line of the input file, and the options of one ready queue.
Event == [type : {"CPU", "IO"}, time : Nat]
ProcessInput ==
  [startTime : Nat, processDuration : Nat, priority : Int, events : Seq(Event)]
SchedulingAlgorithm ==
  [type : AlgorithmTypes, RRSliceLimit : Int, executiontTimeLimit : Int, ageLimit : Int]

ASSUME SizeAssumption ==
  /\ NbProcesses \in Nat \ {0}
  /\ CoreCount \in Nat \ {0}
  /\ QueueCount \in Nat \ {0}
  /\ MaxTime \in Nat

ASSUME DurationAssumption ==
  /\ SwitchInDuration \in Nat
  /\ SwitchOutDuration \in Nat
  /\ InterruptTime \in Nat

\* "The first event will always be a CPU event (at time 0)": the list of events
\* of a process is not empty.
ASSUME InputAssumption ==
  /\ \A w \in Workloads : /\ w \in [Procs -> ProcessInput]
                          /\ \A p \in Procs : w[p].events # <<>>
  /\ \A c \in Configurations : c \in [Queue -> SchedulingAlgorithm]

VARIABLES
    time,           \* of launchSimulation
    phase,          \* the handler that runs next
    index,          \* its loop counter
    cursor,         \* `node` of the aging loop
    workload,       \* the input file
    algorithms,     \* readyQueueAlgorithms
    proc,           \* PCB state, remaining events, advancement of a process
    node,           \* the fields of its queue node
    readyQueues,
    waitingQueue,   \* waitingQueues[0]
    stalePrev,      \* nodes whose prev does not point to their predecessor
    sizesBeforeRR,  \* queuesSizesBeforeRR
    core,
    disk,
    stats,
    fault           \* "none", or why the program's behaviour is undefined

inputs == <<workload, algorithms>>
lists  == <<readyQueues, waitingQueue, stalePrev>>
system == <<inputs, proc, node, lists, sizesBeforeRR, core, disk, stats, fault>>
vars   == <<time, phase, index, cursor, system>>

Phases == {"loop", "arrival", "aging", "event", "limit", "preempt", "resume",
           "sizes", "slice", "interrupt", "assignCores", "assignDisk",
           "advanceProcesses", "advanceScheduling", "free", "done"}

Faults == {"none", "nullEvent", "nullDisk", "queueIndex", "relinked", "stalePrev", "freed"}

\* What the structs hold.
Process == [state : ProcessStates, nextEvents : Seq(Event), advancementTime : Nat]
Node    == [queueNbr : Int, executionTime : Int, currentQueueExecutionTime : Nat,
            currentQueueWaitingTime : Nat]
Core    == [state : CoreStates, node : Procs \cup {NULL}, switchInTimer : Int,
            switchOutTimer : Int, interruptTimer : Int, quantumTime : Nat,
            continueOnCPU : BOOLEAN]
Disk    == [state : DiskStates, node : Procs \cup {NULL}]
ProcessStats ==
  [arrivalTime : Nat, finishTime : Nat, turnaroundTime : Int, cpuTime : Nat,
   waitingTime : Nat, nbContextSwitches : Nat]

-----------------------------------------------------------------------------
(* Initial state *)

initNode == [queueNbr |-> 0, executionTime |-> -1,
             currentQueueExecutionTime |-> 0, currentQueueWaitingTime |-> 0]

initCore == [state |-> "IDLE", node |-> NULL, switchInTimer |-> 0,
             switchOutTimer |-> 0, interruptTimer |-> 0, quantumTime |-> 0,
             continueOnCPU |-> FALSE]

initStats == [arrivalTime |-> 0, finishTime |-> 0, turnaroundTime |-> 0,
              cpuTime |-> 0, waitingTime |-> 0, nbContextSwitches |-> 0]

Init ==
  /\ time = 0 /\ phase = "loop" /\ index = 0 /\ cursor = NULL
  /\ workload \in Workloads
  /\ algorithms \in Configurations
  /\ proc = [p \in Procs |-> [state |-> "READY", nextEvents |-> workload[p].events,
                              advancementTime |-> 0]]
  /\ node = [p \in Procs |-> initNode]
  /\ readyQueues = [q \in Queue |-> <<>>]
  /\ waitingQueue = <<>>
  /\ stalePrev = {}
  /\ sizesBeforeRR = [q \in Queue |-> 0]
  /\ core = [c \in Cores |-> initCore]
  /\ disk = [state |-> "DISK_IDLE", node |-> NULL]
  /\ stats = [p \in Procs |-> initStats]
  /\ fault = "none"

-----------------------------------------------------------------------------
(* What the handlers ask of the state *)

\* Time left until the next of the given events of p, or its end.
TimeLeft(p, events) ==
  (IF events = <<>> THEN workload[p].processDuration ELSE events[1].time)
    - proc[p].advancementTime

\* getProcessCurEventTimeLeft
CurEventTimeLeft(p) == TimeLeft(p, proc[p].nextEvents)

\* advanceNextEvent unlinks the first of the remaining events.
Rest_kept(events) == events                \* mutant: the event stays in the list

Rest(events) == IF events = <<>> THEN events ELSE Tail(events)

WorkloadOver == \A p \in Procs : proc[p].state = "TERMINATED"

Interrupted == \E c \in Cores : core[c].state = "INTERRUPTED"

\* processInReadyQueues
InReadyQueues_anyReady(p) == proc[p].state = "READY"   \* mutant: no look at the queues

InReadyQueues(p) == \E q \in Queue : ProcessInQueue(readyQueues[q], p)

\* The node of p is linked in a queue.
Linked(p) == InReadyQueues(p) \/ ProcessInQueue(waitingQueue, p)

\* otherProcessInReadyQueue: a ready queue up to q is not empty.
OtherProcessInReadyQueue(q) == \E r \in Queue : r <= q /\ readyQueues[r] # <<>>

\* higherPriorityProcessInReadyQueue: the head of p's own queue goes first.
HigherPriorityProcessInReadyQueue(q, p) ==
  /\ readyQueues[q] # <<>>
  /\ LET head == readyQueues[q][1]
     IN \/ /\ algorithms[q].type = "SJF"
           /\ node[head].executionTime <= node[p].executionTime
        \/ /\ algorithms[q].type = "PRIORITY"
           /\ workload[head].priority <= workload[p].priority

\* mutant: the test of --limit, which includes the process's own queue
HigherPriorityProcessInReadyQueues_ownQueue(q, p) ==
  OtherProcessInReadyQueue(q) \/ HigherPriorityProcessInReadyQueue(q, p)

HigherPriorityProcessInReadyQueues(q, p) ==
  OtherProcessInReadyQueue(q - 1) \/ HigherPriorityProcessInReadyQueue(q, p)

-----------------------------------------------------------------------------
(* Assignments shared by several handlers.  `rq` and `stale` are the ready *)
(* queues and backward links before the call, `nd` the node of p.          *)

\* handleProcessForCPU: link p in the queue its node names.
HandleProcessForCPU(rq, stale, p, nd, timeLeft) ==
  LET q     == nd.queueNbr
      put   == IF q \in Queue /\ algorithms[q].type = "SJF"
               THEN [nd EXCEPT !.executionTime = timeLeft] ELSE nd
      k     == InsertPosition(algorithms[q].type, rq[q], p,
                              [x \in Procs |-> workload[x].priority],
                              [x \in Procs |-> IF x = p THEN put.executionTime
                                               ELSE node[x].executionTime])
      wrong == IF q \notin Queue THEN "queueIndex"
               ELSE IF \/ \E r \in Queue : ProcessInQueue(rq[r], p)
                       \/ ProcessInQueue(waitingQueue, p) THEN "relinked"
               ELSE IF ~InsertIsSound(rq[q], k, stale) THEN "stalePrev"
               ELSE "none"
  IN /\ node' = [node EXCEPT ![p] = put]
     /\ fault' = wrong
     /\ readyQueues' = IF wrong = "none"
                       THEN [rq EXCEPT ![q] = InsertAt(@, k, p)] ELSE rq
     /\ stalePrev' = IF wrong = "none"
                     THEN StaleAfterInsert(rq[q], k, p, stale) ELSE stale

\* Start to switch out core c, whose process nd belongs to and goes back to a
\* ready queue afterwards (three places of handleSchedulerEvents do this).
SwitchOutReady(c, nd) ==
  LET p == core[c].node
  IN /\ IF SwitchOutDuration > 0
        THEN /\ core' = [core EXCEPT ![c].state = "SWITCH_OUT",
                                     ![c].switchOutTimer = SwitchOutDuration,
                                     ![c].continueOnCPU = TRUE]
             /\ node' = [node EXCEPT ![p] = nd]
             /\ UNCHANGED <<readyQueues, stalePrev, fault>>
        ELSE /\ core' = [core EXCEPT ![c].state = "IDLE", ![c].node = NULL]
             /\ HandleProcessForCPU(readyQueues, stalePrev, p, nd, CurEventTimeLeft(p))
     /\ proc' = [proc EXCEPT ![p].state = "READY"]
     /\ stats' = [stats EXCEPT ![p].nbContextSwitches = @ + 1]

At(here) == phase = here /\ fault = "none"

Goto(next, i) == phase' = next /\ index' = i

\* node->next of a node linked in a ready queue.
Successor(rq, p) ==
  LET holders == {q \in Queue : ProcessInQueue(rq[q], p)}
  IN IF holders = {} THEN NULL ELSE NextNode(rq[CHOOSE q \in holders : TRUE], p)

\* The first node the aging loop visits in queue q.
AgingHead(q) == IF algorithms[q].ageLimit = NO_LIMIT THEN NULL
                ELSE TopNode(readyQueues[q])

-----------------------------------------------------------------------------
(* launchSimulation: the head of the loop *)

StartTick ==
  /\ At("loop") /\ ~WorkloadOver
  /\ Goto("arrival", 1)
  /\ UNCHANGED <<time, cursor, system>>

EndOfWorkload ==
  /\ At("loop") /\ WorkloadOver
  /\ Goto("free", 0)
  /\ UNCHANGED <<time, cursor, system>>

-----------------------------------------------------------------------------
(* processArrived *)

ArrivesNow(p) == p >= index /\ workload[p].startTime = time

ProcessArrived(p) ==
  /\ At("arrival")
  /\ ArrivesNow(p) /\ \A o \in Procs : ArrivesNow(o) => p <= o
  /\ proc' = [proc EXCEPT ![p].state = "READY", ![p].nextEvents = Rest(@)]
  /\ HandleProcessForCPU(readyQueues, stalePrev, p, initNode,
                         TimeLeft(p, Rest(proc[p].nextEvents)))
  /\ stats' = [stats EXCEPT ![p].arrivalTime = time]
  /\ Goto("arrival", p + 1)
  /\ UNCHANGED <<time, cursor, inputs, waitingQueue, sizesBeforeRR, core, disk>>

ArrivalsDone ==
  /\ At("arrival") /\ ~ \E p \in Procs : ArrivesNow(p)
  /\ Goto("aging", 0)
  /\ cursor' = AgingHead(0)
  /\ UNCHANGED <<time, system>>

-----------------------------------------------------------------------------
(* handleSchedulerEvents: a process changes queue                          *)

MovedTo_keepsTime(p, q) ==                 \* mutant: the execution time is not reset
  [node[p] EXCEPT !.queueNbr = q, !.currentQueueWaitingTime = 0]

MovedTo(p, q) ==
  [node[p] EXCEPT !.queueNbr = q, !.currentQueueExecutionTime = 0,
                  !.currentQueueWaitingTime = 0]

-----------------------------------------------------------------------------
(* handleSchedulerEvents: aging.  `index` is the queue whose age limit is  *)
(* applied, `cursor` the node compared with it.                            *)

AgingNextQueue ==
  /\ At("aging") /\ cursor = NULL /\ index < QueueCount - 1
  /\ Goto("aging", index + 1)
  /\ cursor' = AgingHead(index + 1)
  /\ UNCHANGED <<time, system>>

AgingDone ==
  /\ At("aging") /\ cursor = NULL /\ index = QueueCount - 1
  /\ Goto("event", 0)
  /\ UNCHANGED <<time, cursor, system>>

TooOld(p) == node[p].currentQueueWaitingTime = algorithms[index].ageLimit

AgingKeep ==
  /\ At("aging") /\ cursor # NULL /\ ~TooOld(cursor)
  /\ cursor' = Successor(readyQueues, cursor)
  /\ UNCHANGED <<time, phase, index, system>>

\* The node moves to the queue above, and the loop goes on with its successor
\* there, not in the queue it came from.
AgingMove ==
  LET p  == cursor
      q  == node[p].queueNbr
  IN /\ At("aging") /\ cursor # NULL /\ TooOld(p)
     /\ IF q \in Queue /\ RemoveIsSound(readyQueues[q], p, stalePrev)
        THEN /\ HandleProcessForCPU([readyQueues EXCEPT ![q] = RemoveNode(@, p)],
                                    StaleAfterRemove(readyQueues[q], p, stalePrev),
                                    p, MovedTo(p, q - 1), CurEventTimeLeft(p))
             /\ cursor' = Successor(readyQueues', p)
        ELSE /\ fault' = "stalePrev"
             /\ UNCHANGED <<cursor, node, readyQueues, stalePrev>>
     /\ UNCHANGED <<time, phase, index, inputs, proc, waitingQueue, sizesBeforeRR,
                    core, disk, stats>>

-----------------------------------------------------------------------------
(* handleSchedulerEvents: the loop over the cores.  For core `index` the   *)
(* phases are event, limit, preempt (the last two only while it is         *)
(* OCCUPIED) and resume.                                                   *)

NoProcess ==
  /\ At("event") /\ core[index].node = NULL
  /\ Goto("resume", index)
  /\ UNCHANGED <<time, cursor, system>>

SwitchedIn(c)  == core[c].state = "SWITCH_IN" /\ core[c].switchInTimer = 0
SwitchedOut(c) == core[c].state = "SWITCH_OUT" /\ core[c].switchOutTimer = 0

SwitchInDone ==
  /\ At("event") /\ core[index].node # NULL /\ SwitchedIn(index)
  /\ core' = [core EXCEPT ![index].state = "OCCUPIED", ![index].quantumTime = 0]
  /\ proc' = [proc EXCEPT ![core[index].node].state = "RUNNING"]
  /\ Goto("limit", index)
  /\ UNCHANGED <<time, cursor, inputs, node, lists, sizesBeforeRR, disk, stats, fault>>

SwitchOutDone ==
  /\ At("event") /\ core[index].node # NULL /\ SwitchedOut(index)
  /\ core' = [core EXCEPT ![index].state = "IDLE", ![index].node = NULL]
  /\ IF core[index].continueOnCPU
     THEN LET p == core[index].node
          IN HandleProcessForCPU(readyQueues, stalePrev, p, node[p], CurEventTimeLeft(p))
     ELSE UNCHANGED <<node, readyQueues, stalePrev, fault>>
  /\ Goto("resume", index)
  /\ UNCHANGED <<time, cursor, inputs, proc, waitingQueue, sizesBeforeRR, disk, stats>>

\* The process of core c has reached its next event, or its end.
BurstOver_first(c) ==                      \* mutant: tested before the end of a switch-out
  core[c].node # NULL /\ ~SwitchedIn(c) /\ CurEventTimeLeft(core[c].node) = 0

BurstOver(c) ==
  /\ core[c].node # NULL /\ ~SwitchedIn(c) /\ ~SwitchedOut(c)
  /\ CurEventTimeLeft(core[c].node) = 0

Finished_anyBurst(p) == TRUE               \* mutant: each burst is taken for the last

Finished(p) == proc[p].advancementTime = workload[p].processDuration

\* The node is freed here; it must not be reachable from anywhere else.
Terminate ==
  LET p == core[index].node
  IN /\ At("event") /\ BurstOver(index) /\ Finished(p)
     /\ core' = [core EXCEPT ![index].state = "IDLE", ![index].node = NULL]
     /\ proc' = [proc EXCEPT ![p].state = "TERMINATED"]
     /\ stats' = [stats EXCEPT ![p].finishTime = time,
                               ![p].turnaroundTime = time - stats[p].arrivalTime]
     /\ fault' = IF \/ Linked(p) \/ disk.node = p
                    \/ \E c \in Cores \ {index} : core[c].node = p
                 THEN "freed" ELSE "none"
     /\ Goto("resume", index)
     /\ UNCHANGED <<time, cursor, inputs, node, lists, sizesBeforeRR, disk>>

\* handleProcessForDisk: the process is on the wait queue while its core still
\* switches it out.
StartIO ==
  LET p == core[index].node
  IN /\ At("event") /\ BurstOver(index) /\ ~Finished(p)
     /\ core' = IF SwitchOutDuration > 0
                THEN [core EXCEPT ![index].state = "SWITCH_OUT",
                                  ![index].switchOutTimer = SwitchOutDuration,
                                  ![index].continueOnCPU = FALSE]
                ELSE [core EXCEPT ![index].state = "IDLE", ![index].node = NULL,
                                  ![index].continueOnCPU = FALSE]
     /\ proc' = [proc EXCEPT ![p].state = "WAITING", ![p].nextEvents = Rest(@)]
     /\ IF Linked(p)
        THEN fault' = "relinked" /\ UNCHANGED waitingQueue
        ELSE waitingQueue' = Append(waitingQueue, p) /\ UNCHANGED fault
     /\ stats' = [stats EXCEPT ![p].nbContextSwitches = @ + 1]
     /\ Goto("resume", index)
     /\ UNCHANGED <<time, cursor, inputs, node, readyQueues, stalePrev, sizesBeforeRR, disk>>

NoEvent ==
  /\ At("event") /\ core[index].node # NULL
  /\ ~SwitchedIn(index) /\ ~SwitchedOut(index) /\ ~BurstOver(index)
  /\ Goto(IF core[index].state = "OCCUPIED" THEN "limit" ELSE "resume", index)
  /\ UNCHANGED <<time, cursor, system>>

\* The process has executed for as long as its queue allows.
LimitReached(p) ==
  /\ algorithms[node[p].queueNbr].executiontTimeLimit # NO_LIMIT
  /\ node[p].currentQueueExecutionTime = algorithms[node[p].queueNbr].executiontTimeLimit

WithinLimit ==
  /\ At("limit") /\ ~LimitReached(core[index].node)
  /\ Goto("preempt", index)
  /\ UNCHANGED <<time, cursor, system>>

\* The process moves to the queue below: through a context switch if a process
\* of that queue or of one above it is ready, otherwise without leaving the core
\* (and without starting a new time slice).
Demote ==
  LET p  == core[index].node
      q  == node[p].queueNbr + 1
  IN /\ At("limit") /\ LimitReached(p)
     /\ IF OtherProcessInReadyQueue(q)
        THEN SwitchOutReady(index, MovedTo(p, q)) /\ Goto("resume", index)
        ELSE /\ node' = [node EXCEPT ![p] = MovedTo(p, q)]
             /\ fault' = IF q \in Queue THEN "none" ELSE "queueIndex"
             /\ Goto("preempt", index)
             /\ UNCHANGED <<proc, readyQueues, stalePrev, core, stats>>
     /\ UNCHANGED <<time, cursor, inputs, waitingQueue, sizesBeforeRR, disk>>

Preempt ==
  LET p == core[index].node
  IN /\ At("preempt") /\ HigherPriorityProcessInReadyQueues(node[p].queueNbr, p)
     /\ SwitchOutReady(index, node[p])
     /\ Goto("resume", index)
     /\ UNCHANGED <<time, cursor, inputs, waitingQueue, sizesBeforeRR, disk>>

KeepRunning ==
  LET p == core[index].node
  IN /\ At("preempt") /\ ~HigherPriorityProcessInReadyQueues(node[p].queueNbr, p)
     /\ Goto("resume", index)
     /\ UNCHANGED <<time, cursor, system>>

InterruptOver(c) == core[c].state = "INTERRUPTED" /\ core[c].interruptTimer = 0

NextCore ==
  IF index < CoreCount - 1 THEN Goto("event", index + 1) ELSE Goto("sizes", 0)

\* The I/O operation of p is over: p is ready again, with its next event.
\* `running` is the set of processes that start to run in the same step.
EndIO(p, running) ==
  /\ proc' = [x \in Procs |->
       [proc[x] EXCEPT
          !.state = IF x \in running THEN "RUNNING" ELSE IF x = p THEN "READY" ELSE @,
          !.nextEvents = IF x = p THEN Rest(@) ELSE @]]
  /\ IF proc[p].nextEvents = <<>>
     THEN fault' = "nullEvent" /\ UNCHANGED <<node, readyQueues, stalePrev>>
     ELSE HandleProcessForCPU(readyQueues, stalePrev, p, node[p],
                              TimeLeft(p, Rest(proc[p].nextEvents)))

\* What core c was doing before the interrupt, told from its timers.
StateBeforeInterrupt_noSwitchOut(c) ==     \* mutant: the switch-out timer is forgotten
  IF core[c].node = NULL THEN "IDLE"
  ELSE IF core[c].switchInTimer # 0 THEN "SWITCH_IN" ELSE "OCCUPIED"

StateBeforeInterrupt(c) ==
  CASE core[c].node = NULL -> "IDLE"
    [] core[c].node # NULL /\ core[c].switchInTimer # 0 -> "SWITCH_IN"
    [] core[c].node # NULL /\ core[c].switchInTimer = 0
         /\ core[c].switchOutTimer # 0 -> "SWITCH_OUT"
    [] OTHER -> "OCCUPIED"

Resume ==
  LET before == StateBeforeInterrupt(index)
  IN /\ At("resume") /\ InterruptOver(index)
     /\ EndIO(disk.node, IF before = "OCCUPIED" THEN {core[index].node} ELSE {})
     /\ disk' = [disk EXCEPT !.node = NULL]
     /\ core' = [core EXCEPT ![index].state = before]
     /\ NextCore
     /\ UNCHANGED <<time, cursor, inputs, waitingQueue, sizesBeforeRR, stats>>

NoResume ==
  /\ At("resume") /\ ~InterruptOver(index)
  /\ NextCore
  /\ UNCHANGED <<time, cursor, system>>

-----------------------------------------------------------------------------
(* handleSchedulerEvents: Round-Robin slices                               *)

\* What a queue of this size takes from the switching cores that are left.
Deducted_none(size, spare) == 0            \* mutant: switching cores do not count
Deducted_noMin(size, spare) == spare       \* mutant: min(...) is forgotten

Deducted(size, spare) == IF size < spare THEN size ELSE spare

\* How many processes of each queue still need a core to be switched out for
\* them.  spare[q] is numberSwitchOutCores before the q-th iteration.
QueuesSizesBeforeRR ==
  /\ At("sizes")
  /\ \E spare \in [0..QueueCount -> 0..CoreCount] :
       /\ spare[0] = Cardinality({c \in Cores : core[c].state = "SWITCH_OUT"})
       /\ \A q \in Queue :
            spare[q + 1] = spare[q] - Deducted(Len(readyQueues[q]), spare[q])
       /\ sizesBeforeRR' =
            [q \in Queue |-> Len(readyQueues[q]) - Deducted(Len(readyQueues[q]), spare[q])]
  /\ Goto("slice", CoreCount - 1)
  /\ UNCHANGED <<time, cursor, inputs, proc, node, lists, core, disk, stats, fault>>

\* mutant: the slice is over one time unit later
SliceOver_late(c) ==
  /\ core[c].state = "OCCUPIED" /\ core[c].node # NULL
  /\ LET algorithm == algorithms[node[core[c].node].queueNbr]
     IN algorithm.type = "RR" /\ algorithm.RRSliceLimit < core[c].quantumTime

SliceOver(c) ==
  /\ core[c].state = "OCCUPIED" /\ core[c].node # NULL
  /\ LET algorithm == algorithms[node[core[c].node].queueNbr]
     IN algorithm.type = "RR" /\ algorithm.RRSliceLimit = core[c].quantumTime

\* The loop goes from the last core to the first.
PreviousCore ==
  IF index > 0 THEN Goto("slice", index - 1) ELSE Goto("interrupt", 0)

SliceContinues ==
  /\ At("slice") /\ ~SliceOver(index)
  /\ PreviousCore
  /\ UNCHANGED <<time, cursor, system>>

SwitchOutAfterSlice ==
  LET p == core[index].node
      q == node[p].queueNbr
  IN /\ At("slice") /\ SliceOver(index) /\ sizesBeforeRR[q] # 0
     /\ SwitchOutReady(index, node[p])
     /\ sizesBeforeRR' = [sizesBeforeRR EXCEPT ![q] = @ - 1]
     /\ PreviousCore
     /\ UNCHANGED <<time, cursor, inputs, waitingQueue, disk>>

NewSlice ==
  /\ At("slice") /\ SliceOver(index) /\ sizesBeforeRR[node[core[index].node].queueNbr] = 0
  /\ core' = [core EXCEPT ![index].quantumTime = 0]
  /\ PreviousCore
  /\ UNCHANGED <<time, cursor, inputs, proc, node, lists, sizesBeforeRR, disk, stats, fault>>

-----------------------------------------------------------------------------
(* handleSimulationEvents: the end of a disk operation (handleInterrupt)   *)

DiskOperationOver == ~Interrupted /\ disk.node # NULL /\ CurEventTimeLeft(disk.node) = 0

NoInterrupt ==
  /\ At("interrupt") /\ ~DiskOperationOver
  /\ Goto("assignCores", 0)
  /\ UNCHANGED <<time, cursor, system>>

\* The process on the interrupted core is READY and stays there.
ProcessInterrupted_runs(c) == proc         \* mutant: its state is left RUNNING

ProcessInterrupted(c) ==
  [p \in Procs |-> IF p = core[c].node THEN [proc[p] EXCEPT !.state = "READY"] ELSE proc[p]]

\* rand() picks the core.
InterruptCore(c) ==
  /\ At("interrupt") /\ DiskOperationOver /\ InterruptTime > 0
  /\ disk' = [disk EXCEPT !.state = "DISK_IDLE"]
  /\ core' = [core EXCEPT ![c].state = "INTERRUPTED", ![c].interruptTimer = InterruptTime]
  /\ proc' = ProcessInterrupted(c)
  /\ Goto("assignCores", 0)
  /\ UNCHANGED <<time, cursor, inputs, node, lists, sizesBeforeRR, stats, fault>>

DiskReleased_keepsNode == [disk EXCEPT !.state = "DISK_IDLE"]    \* mutants: half
DiskReleased_running   == [disk EXCEPT !.node = NULL]            \* of it is done

DiskReleased == [state |-> "DISK_IDLE", node |-> NULL]

NoInterruptTime ==
  /\ At("interrupt") /\ DiskOperationOver /\ InterruptTime = 0
  /\ EndIO(disk.node, {})
  /\ disk' = DiskReleased
  /\ Goto("assignCores", 0)
  /\ UNCHANGED <<time, cursor, inputs, waitingQueue, sizesBeforeRR, core, stats>>

-----------------------------------------------------------------------------
(* assignProcessesToResources *)

\* mutant: the last queue is not looked at
Assignable_notLast(c) == core[c].state = "IDLE" /\ OtherProcessInReadyQueue(QueueCount - 2)

Assignable(c) == core[c].state = "IDLE" /\ OtherProcessInReadyQueue(QueueCount - 1)

NextIdleCore ==
  IF index < CoreCount - 1 THEN Goto("assignCores", index + 1) ELSE Goto("assignDisk", 0)

SkipCore ==
  /\ At("assignCores") /\ ~Assignable(index)
  /\ NextIdleCore
  /\ UNCHANGED <<time, cursor, system>>

\* dequeueTopReadyQueue and putProcessOnCPU
PutProcessOnCPU(q) ==
  LET p == TopNode(readyQueues[q])
  IN /\ At("assignCores") /\ Assignable(index)
     /\ readyQueues[q] # <<>> /\ ~OtherProcessInReadyQueue(q - 1)
     /\ readyQueues' = [readyQueues EXCEPT ![q] = DequeueTopNode(@)]
     /\ stalePrev' = StaleAfterDequeue(readyQueues[q], stalePrev)
     /\ core' = IF SwitchInDuration > 0
                THEN [core EXCEPT ![index].state = "SWITCH_IN", ![index].node = p,
                                  ![index].switchInTimer = SwitchInDuration]
                ELSE [core EXCEPT ![index].state = "OCCUPIED", ![index].node = p,
                                  ![index].quantumTime = 0]
     /\ proc' = [proc EXCEPT ![p].state = IF SwitchInDuration > 0 THEN "READY"
                                          ELSE "RUNNING"]
     /\ NextIdleCore
     /\ UNCHANGED <<time, cursor, inputs, node, waitingQueue, sizesBeforeRR, disk, stats, fault>>

\* mutants: the state of the disk is not tested; the interrupt is not
DiskAvailable_busy      == ~Interrupted /\ waitingQueue # <<>>
DiskAvailable_interrupt == disk.state = "DISK_IDLE" /\ waitingQueue # <<>>

DiskAvailable == ~Interrupted /\ disk.state = "DISK_IDLE" /\ waitingQueue # <<>>

SkipDisk ==
  /\ At("assignDisk") /\ ~DiskAvailable
  /\ Goto("advanceProcesses", 0)
  /\ UNCHANGED <<time, cursor, system>>

PutProcessOnDisk ==
  LET p == TopNode(waitingQueue)
  IN /\ At("assignDisk") /\ DiskAvailable
     /\ waitingQueue' = DequeueTopNode(waitingQueue)
     /\ disk' = [state |-> "DISK_RUNNING", node |-> p]
     /\ proc' = [proc EXCEPT ![p].state = "WAITING"]
     /\ Goto("advanceProcesses", 0)
     /\ UNCHANGED <<time, cursor, inputs, node, readyQueues, stalePrev, sizesBeforeRR,
                    core, stats, fault>>

-----------------------------------------------------------------------------
(* advanceProcessTime and advanceSchedulingTime, by one time unit          *)

\* The processes that make progress: on a core, or on the disk.
Progresses_allWaiting(p) ==                \* mutant: all who wait share the disk
  proc[p].state = "RUNNING" \/ (proc[p].state = "WAITING" /\ disk.state = "DISK_RUNNING")

Progresses(p) ==
  \/ proc[p].state = "RUNNING"
  \/ proc[p].state = "WAITING" /\ disk.state = "DISK_RUNNING" /\ disk.node = p

\* disk->processNode is read for every WAITING process.
AdvanceProcessTime ==
  /\ At("advanceProcesses")
  /\ proc' = [p \in Procs |-> IF Progresses(p)
                              THEN [proc[p] EXCEPT !.advancementTime = @ + 1] ELSE proc[p]]
  /\ stats' = [p \in Procs |->
       CASE proc[p].state = "READY" /\ workload[p].startTime <= time /\ InReadyQueues(p)
              -> [stats[p] EXCEPT !.waitingTime = @ + 1]
         [] proc[p].state = "RUNNING" -> [stats[p] EXCEPT !.cpuTime = @ + 1]
         [] OTHER -> stats[p]]
  /\ fault' = IF \E p \in Procs : proc[p].state = "WAITING" /\ disk.node = NULL
              THEN "nullDisk" ELSE "none"
  /\ Goto("advanceScheduling", 0)
  /\ UNCHANGED <<time, cursor, inputs, node, lists, sizesBeforeRR, core, disk>>

\* The timer of the state the core is in.
AdvanceTimers(c) ==
  CASE core[c].state = "OCCUPIED"    -> [core[c] EXCEPT !.quantumTime = @ + 1]
    [] core[c].state = "SWITCH_IN"   -> [core[c] EXCEPT !.switchInTimer = @ - 1]
    [] core[c].state = "SWITCH_OUT"  -> [core[c] EXCEPT !.switchOutTimer = @ - 1]
    [] core[c].state = "INTERRUPTED" -> [core[c] EXCEPT !.interruptTimer = @ - 1]
    [] core[c].state = "IDLE"        -> core[c]

Executes(p) == \E c \in Cores : core[c].state = "OCCUPIED" /\ core[c].node = p

AdvanceSchedulingTime ==
  /\ At("advanceScheduling")
  /\ node' = [p \in Procs |->
       [node[p] EXCEPT
          !.currentQueueWaitingTime = IF InReadyQueues(p) THEN @ + 1 ELSE @,
          !.currentQueueExecutionTime = IF Executes(p) THEN @ + 1 ELSE @]]
  /\ core' = [c \in Cores |-> AdvanceTimers(c)]
  /\ time' = time + 1
  /\ Goto(IF time + 1 > MaxTime THEN "free" ELSE "loop", 0)
  /\ UNCHANGED <<cursor, inputs, proc, lists, sizesBeforeRR, disk, stats, fault>>

-----------------------------------------------------------------------------
(* freeComputer *)

\* freeScheduler, freeCPU and freeDisk each free the nodes they hold.
FreeComputer ==
  /\ At("free")
  /\ fault' = IF \E p \in Procs :
                   \/ Linked(p) /\ (disk.node = p \/ \E c \in Cores : core[c].node = p)
                   \/ disk.node = p /\ \E c \in Cores : core[c].node = p
                   \/ \E c, d \in Cores : c # d /\ core[c].node = p /\ core[d].node = p
              THEN "freed" ELSE "none"
  /\ Goto("done", 0)
  /\ UNCHANGED <<time, cursor, inputs, proc, node, lists, sizesBeforeRR, core, disk, stats>>

\* The program has ended, or its behaviour is no longer defined.
Stop ==
  /\ phase = "done" \/ fault # "none"
  /\ UNCHANGED vars

-----------------------------------------------------------------------------
Next ==
  \/ StartTick \/ EndOfWorkload
  \/ \E p \in Procs : ProcessArrived(p)
  \/ ArrivalsDone
  \/ AgingNextQueue \/ AgingDone \/ AgingKeep \/ AgingMove
  \/ NoProcess \/ SwitchInDone \/ SwitchOutDone \/ Terminate \/ StartIO \/ NoEvent
  \/ WithinLimit \/ Demote \/ Preempt \/ KeepRunning \/ Resume \/ NoResume
  \/ QueuesSizesBeforeRR \/ SliceContinues \/ SwitchOutAfterSlice \/ NewSlice
  \/ NoInterrupt \/ (\E c \in Cores : InterruptCore(c)) \/ NoInterruptTime
  \/ SkipCore \/ (\E q \in Queue : PutProcessOnCPU(q)) \/ SkipDisk \/ PutProcessOnDisk
  \/ AdvanceProcessTime \/ AdvanceSchedulingTime
  \/ FreeComputer \/ Stop

\* One thread, no blocking call: a handler that has been reached runs.
Spec == Init /\ [][Next]_vars /\ WF_vars(Next)

-----------------------------------------------------------------------------
(* The type of every variable: the PCBs, nodes, cores and statistics keep  *)
(* the fields of their structs, whatever the input file and the options.   *)
TypeOK ==
  /\ time \in Nat /\ phase \in Phases /\ index \in Nat
  /\ cursor \in Procs \cup {NULL}
  /\ workload \in [Procs -> ProcessInput]
  /\ algorithms \in [Queue -> SchedulingAlgorithm]
  /\ proc \in [Procs -> Process]
  /\ node \in [Procs -> Node]
  /\ readyQueues \in [Queue -> Seq(Procs)]
  /\ waitingQueue \in Seq(Procs)
  /\ stalePrev \subseteq Procs
  /\ sizesBeforeRR \in [Queue -> Nat]
  /\ core \in [Cores -> Core]
  /\ disk \in Disk
  /\ stats \in [Procs -> ProcessStats]
  /\ fault \in Faults

(* handleInterrupt and the end of the interrupt (schedulingLogic.c:383):   *)
(* no second interrupt starts while one is handled, the disk is idle but   *)
(* keeps the process whose operation is over until the interrupted core    *)
(* hands it back, and a running disk always has a process.                 *)
InterruptHoldsDisk ==
  /\ \A c, d \in Cores :
       core[c].state = "INTERRUPTED" /\ core[d].state = "INTERRUPTED" => c = d
  /\ Interrupted => disk.state = "DISK_IDLE" /\ disk.node # NULL
  /\ disk.state = "DISK_RUNNING" => disk.node # NULL
=============================================================================
