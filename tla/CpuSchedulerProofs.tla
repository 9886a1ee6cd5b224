------------------------- MODULE CpuSchedulerProofs -------------------------
(***************************************************************************)
(* Theorems about CpuScheduler that hold for every input file, every       *)
(* number of processes, cores and queues and every duration: the types of  *)
(* all variables, and the exclusive use of the disk by an interrupt.       *)
(*                                                                         *)
(* Neither is inductive alone.  A step of the loop over the cores keeps    *)
(* the types only if `index` is the number of a core and the core a        *)
(* handler works on has a process, and the end of an interrupt hands back  *)
(* a process only if the disk still has it.                                *)
(***************************************************************************)
EXTENDS CpuScheduler, QueuesProofs

\* The loop counters are in range, and a core whose limit or preemption is
\* looked at is executing.
IndexOK ==
  /\ phase \in {"event", "limit", "preempt", "resume", "slice"} => index \in Cores
  /\ phase \in {"limit", "preempt"} => core[index].state = "OCCUPIED"

\* A core that executes or switches has a process.
CoreOK ==
  \A c \in Cores :
    core[c].state \in {"OCCUPIED", "SWITCH_IN", "SWITCH_OUT"} => core[c].node # NULL

Inv == TypeOK /\ IndexOK /\ CoreOK /\ InterruptHoldsDisk

-----------------------------------------------------------------------------
(* The numbers of the cores and queues start at 0.                         *)
LEMMA FirstCoreAndQueue ==
  0 \in Cores /\ CoreCount - 1 \in Cores /\ 0 \in Queue
BY SizeAssumption DEF Cores, Queue

(* NULL is not the number of a process.                                    *)
LEMMA NullIsNoProcess ==
  NULL \notin Procs
BY SizeAssumption DEF NULL, Procs

(* A handler that leaves the system alone leaves each of its parts alone.  *)
LEMMA SystemUnchanged ==
  ASSUME UNCHANGED system
  PROVE  /\ UNCHANGED <<workload, algorithms, proc, node, readyQueues, waitingQueue>>
         /\ UNCHANGED <<stalePrev, sizesBeforeRR, core, disk, stats, fault>>
BY DEF system, inputs, lists

(* An assignment to a field of a core keeps the type of the core.          *)
LEMMA CoreFields ==
  ASSUME NEW k \in Core
  PROVE  /\ \A s \in CoreStates : [k EXCEPT !.state = s] \in Core
         /\ \A p \in Procs \cup {NULL} : [k EXCEPT !.node = p] \in Core
         /\ \A n \in Int : /\ [k EXCEPT !.switchInTimer = n] \in Core
                           /\ [k EXCEPT !.switchOutTimer = n] \in Core
                           /\ [k EXCEPT !.interruptTimer = n] \in Core
         /\ \A n \in Nat : [k EXCEPT !.quantumTime = n] \in Core
         /\ \A b \in BOOLEAN : [k EXCEPT !.continueOnCPU = b] \in Core
<1>1. \A s \in CoreStates : [k EXCEPT !.state = s] \in Core
  BY DEF Core
<1>2. \A p \in Procs \cup {NULL} : [k EXCEPT !.node = p] \in Core
  BY DEF Core
<1>3. \A n \in Int : /\ [k EXCEPT !.switchInTimer = n] \in Core
                    /\ [k EXCEPT !.switchOutTimer = n] \in Core
                    /\ [k EXCEPT !.interruptTimer = n] \in Core
  BY DEF Core
<1>4. \A n \in Nat : [k EXCEPT !.quantumTime = n] \in Core
  BY DEF Core
<1>5. \A b \in BOOLEAN : [k EXCEPT !.continueOnCPU = b] \in Core
  BY DEF Core
<1> QED
  BY <1>1, <1>2, <1>3, <1>4, <1>5

(* Counting a context switch keeps the type of the statistics.             *)
LEMMA ContextSwitchCounted ==
  ASSUME NEW s \in ProcessStats
  PROVE  [s EXCEPT !.nbContextSwitches = @ + 1] \in ProcessStats
BY DEF ProcessStats

(* advanceNextEvent leaves a list of events.                               *)
LEMMA RestIsSeq ==
  ASSUME NEW events \in Seq(Event)
  PROVE  Rest(events) \in Seq(Event)
BY HeadTailProperties DEF Rest

(* getProcessCurEventTimeLeft returns a number.                            *)
LEMMA TimeLeftIsInt ==
  ASSUME TypeOK, NEW p \in Procs, NEW events \in Seq(Event)
  PROVE  TimeLeft(p, events) \in Int
<1>1. events # <<>> => events[1] \in Event
  BY EmptySeq, ElementOfSeq
<1>2. workload[p].processDuration \in Nat /\ proc[p].advancementTime \in Nat
  BY DEF TypeOK, ProcessInput, Process
<1> QED
  BY <1>1, <1>2 DEF TimeLeft, Event

(* Moving a process to another queue keeps the type of its node.           *)
LEMMA MovedToIsNode ==
  ASSUME TypeOK, NEW p \in Procs, NEW q \in Int
  PROVE  MovedTo(p, q) \in Node
<1>1. node[p] \in Node
  BY DEF TypeOK
<1> QED
  BY <1>1 DEF MovedTo, Node

(* node->next of a ready process is a process or NULL.                     *)
LEMMA SuccessorIsNode ==
  ASSUME NEW rq \in [Queue -> Seq(Procs)], NEW p
  PROVE  Successor(rq, p) \in Procs \cup {NULL}
<1> DEFINE holders == {q \in Queue : ProcessInQueue(rq[q], p)}
           q == CHOOSE r \in holders : TRUE
<1>1. CASE holders = {}
  BY <1>1 DEF Successor
<1>2. CASE holders # {}
  <2>1. q \in Queue
    BY <1>2
  <2>2. Successor(rq, p) = NextNode(rq[q], p)
    BY <1>2 DEF Successor
  <2> HIDE DEF q
  <2>3. rq[q] \in Seq(Procs)
    BY <2>1
  <2> QED
    BY <2>2, <2>3, TopAndNextNode
<1> QED
  BY <1>1, <1>2

(* handleProcessForCPU links the node and keeps the types, or stops with a *)
(* fault.                                                                  *)
LEMMA HandleProcessForCPUType ==
  ASSUME TypeOK, NEW rq \in [Queue -> Seq(Procs)], NEW stale \in SUBSET Procs,
         NEW p \in Procs, NEW nd \in Node, NEW timeLeft \in Int,
         HandleProcessForCPU(rq, stale, p, nd, timeLeft)
  PROVE  /\ node' \in [Procs -> Node]
         /\ readyQueues' \in [Queue -> Seq(Procs)]
         /\ stalePrev' \in SUBSET Procs
         /\ fault' \in Faults
<1> DEFINE q   == nd.queueNbr
           put == IF q \in Queue /\ algorithms[q].type = "SJF"
                  THEN [nd EXCEPT !.executionTime = timeLeft] ELSE nd
           priority  == [x \in Procs |-> workload[x].priority]
           execution == [x \in Procs |-> IF x = p THEN put.executionTime
                                         ELSE node[x].executionTime]
           k     == InsertPosition(algorithms[q].type, rq[q], p, priority, execution)
           wrong == IF q \notin Queue THEN "queueIndex"
                    ELSE IF \/ \E r \in Queue : ProcessInQueue(rq[r], p)
                            \/ ProcessInQueue(waitingQueue, p) THEN "relinked"
                    ELSE IF ~InsertIsSound(rq[q], k, stale) THEN "stalePrev"
                    ELSE "none"
<1>1. /\ node' = [node EXCEPT ![p] = put]
      /\ fault' = wrong
      /\ readyQueues' = IF wrong = "none" THEN [rq EXCEPT ![q] = InsertAt(@, k, p)] ELSE rq
      /\ stalePrev' = IF wrong = "none" THEN StaleAfterInsert(rq[q], k, p, stale) ELSE stale
  BY DEF HandleProcessForCPU
<1>2. put \in Node
  BY DEF Node
<1>3. node' \in [Procs -> Node]
  BY <1>1, <1>2 DEF TypeOK
<1>4. fault' \in Faults
  BY <1>1 DEF Faults
<1>5. wrong = "none" => q \in Queue
  OBVIOUS
<1>6. stalePrev' \in SUBSET Procs
  BY <1>1 DEF StaleAfterInsert
<1>7. readyQueues' \in [Queue -> Seq(Procs)]
  <2>1. CASE wrong # "none"
    BY <1>1, <2>1
  <2>2. CASE wrong = "none"
    <3>1. q \in Queue /\ rq[q] \in Seq(Procs)
      BY <1>5, <2>2
    <3>2. priority \in [Procs -> Int]
      BY DEF TypeOK, ProcessInput
    <3>3. execution \in [Procs -> Int]
      BY <1>2 DEF TypeOK, Node
    <3>4. algorithms[q].type \in {"FCFS", "SJF", "RR", "PRIORITY"}
      BY <3>1 DEF TypeOK, SchedulingAlgorithm, AlgorithmTypes
    <3> HIDE DEF priority, execution, wrong, put, q
    <3>5. k \in 1..(Len(rq[q]) + 1)
      BY <3>1, <3>2, <3>3, <3>4, InsertPositionInRange
    <3> HIDE DEF k
    <3>6. InsertAt(rq[q], k, p) \in Seq(Procs)
      BY <3>1, <3>5, InsertAtIsSeq
    <3> QED
      BY <1>1, <2>2, <3>1, <3>6
  <2> QED
    BY <2>1, <2>2
<1> QED
  BY <1>3, <1>4, <1>6, <1>7

(* The three switch-outs after which the process goes back to a ready      *)
(* queue keep the types.                                                   *)
LEMMA SwitchOutReadyType ==
  ASSUME TypeOK, NEW c \in Cores, core[c].node \in Procs, NEW nd \in Node,
         SwitchOutReady(c, nd)
  PROVE  /\ core' \in [Cores -> Core]
         /\ proc' \in [Procs -> Process]
         /\ stats' \in [Procs -> ProcessStats]
         /\ node' \in [Procs -> Node]
         /\ readyQueues' \in [Queue -> Seq(Procs)]
         /\ stalePrev' \in SUBSET Procs
         /\ fault' \in Faults
<1> DEFINE p == core[c].node
<1>1. proc' \in [Procs -> Process]
  <2>1. proc' = [proc EXCEPT ![p].state = "READY"]
    BY DEF SwitchOutReady
  <2>2. proc \in [Procs -> Process] /\ [proc[p] EXCEPT !.state = "READY"] \in Process
    BY DEF TypeOK, Process, ProcessStates
  <2> QED BY <2>1, <2>2
<1>2. stats' \in [Procs -> ProcessStats]
  <2>1. stats' = [stats EXCEPT ![p].nbContextSwitches = @ + 1]
    BY DEF SwitchOutReady
  <2>2. stats \in [Procs -> ProcessStats] /\ stats[p] \in ProcessStats
    BY DEF TypeOK
  <2>3. [stats[p] EXCEPT !.nbContextSwitches = @ + 1] \in ProcessStats
    BY <2>2, ContextSwitchCounted
  <2> QED BY <2>1, <2>2, <2>3
<1>3. core' \in [Cores -> Core]
  <2> DEFINE switching == [core[c] EXCEPT !.state = "SWITCH_OUT",
                                          !.switchOutTimer = SwitchOutDuration,
                                          !.continueOnCPU = TRUE]
             idle      == [core[c] EXCEPT !.state = "IDLE", !.node = NULL]
  <2>1. core \in [Cores -> Core] /\ core[c] \in Core
    BY DEF TypeOK
  <2>2. \/ core' = [core EXCEPT ![c] = switching]
        \/ core' = [core EXCEPT ![c] = idle]
    <3>1. CASE SwitchOutDuration > 0
      <4>1. core' = [core EXCEPT ![c].state = "SWITCH_OUT",
                                 ![c].switchOutTimer = SwitchOutDuration,
                                 ![c].continueOnCPU = TRUE]
        BY <3>1 DEF SwitchOutReady
      <4> QED BY <2>1, <4>1
    <3>2. CASE ~(SwitchOutDuration > 0)
      <4>1. core' = [core EXCEPT ![c].state = "IDLE", ![c].node = NULL]
        BY <3>2 DEF SwitchOutReady
      <4> QED BY <2>1, <4>1
    <3> QED BY <3>1, <3>2
  <2>3. switching \in Core /\ idle \in Core
    <3>1. switching \in Core
      <4>1. SwitchOutDuration \in Int
        BY DurationAssumption
      <4> QED BY <2>1, <4>1, CoreFields DEF CoreStates
    <3>2. idle \in Core
      BY <2>1 DEF Core, CoreStates
    <3> QED BY <3>1, <3>2
  <2> HIDE DEF switching, idle
  <2> QED BY <2>1, <2>2, <2>3
<1>4. CASE SwitchOutDuration > 0
  BY <1>1, <1>2, <1>3, <1>4 DEF SwitchOutReady, TypeOK
<1>5. CASE ~(SwitchOutDuration > 0)
  <2>1. HandleProcessForCPU(readyQueues, stalePrev, p, nd, CurEventTimeLeft(p))
    BY <1>5 DEF SwitchOutReady
  <2>2. CurEventTimeLeft(p) \in Int
    BY TimeLeftIsInt DEF CurEventTimeLeft, TypeOK, Process
  <2>3. /\ readyQueues \in [Queue -> Seq(Procs)]
        /\ stalePrev \in SUBSET Procs
    BY DEF TypeOK
  <2> QED
    BY <1>1, <1>2, <1>3, <2>1, <2>2, <2>3, HandleProcessForCPUType
<1> QED
  BY <1>4, <1>5

(* The end of an I/O operation keeps the types.                            *)
LEMMA EndIOType ==
  ASSUME TypeOK, NEW p \in Procs, NEW running, EndIO(p, running)
  PROVE  /\ proc' \in [Procs -> Process]
         /\ node' \in [Procs -> Node]
         /\ readyQueues' \in [Queue -> Seq(Procs)]
         /\ stalePrev' \in SUBSET Procs
         /\ fault' \in Faults
<1>1. \A x \in Procs : proc[x].nextEvents \in Seq(Event) /\ Rest(proc[x].nextEvents) \in Seq(Event)
  BY RestIsSeq DEF TypeOK, Process
<1>2. proc' \in [Procs -> Process]
  <2> DEFINE after(x) ==
        [proc[x] EXCEPT
           !.state = IF x \in running THEN "RUNNING" ELSE IF x = p THEN "READY" ELSE @,
           !.nextEvents = IF x = p THEN Rest(@) ELSE @]
  <2>1. proc' = [x \in Procs |-> after(x)]
    BY DEF EndIO
  <2>2. ASSUME NEW x \in Procs PROVE after(x) \in Process
    <3>1. proc[x] \in Process
      BY DEF TypeOK
    <3> QED BY <1>1, <3>1 DEF Process, ProcessStates
  <2> HIDE DEF after
  <2> QED BY <2>1, <2>2
<1>3. CASE proc[p].nextEvents = <<>>
  BY <1>2, <1>3 DEF EndIO, TypeOK, Faults
<1>4. CASE proc[p].nextEvents # <<>>
  <2>1. HandleProcessForCPU(readyQueues, stalePrev, p, node[p],
                            TimeLeft(p, Rest(proc[p].nextEvents)))
    BY <1>4 DEF EndIO
  <2>2. TimeLeft(p, Rest(proc[p].nextEvents)) \in Int
    BY <1>1, TimeLeftIsInt
  <2>3. /\ readyQueues \in [Queue -> Seq(Procs)]
        /\ stalePrev \in SUBSET Procs
        /\ node[p] \in Node
    BY DEF TypeOK
  <2> QED
    BY <1>2, <2>1, <2>2, <2>3, HandleProcessForCPUType
<1> QED
  BY <1>3, <1>4

-----------------------------------------------------------------------------
(* The interrupt's claim on the disk survives every step that starts no    *)
(* interrupt and leaves the disk alone.                                    *)
LEMMA NoNewInterrupt ==
  ASSUME InterruptHoldsDisk, UNCHANGED disk,
         \A c \in Cores : core'[c].state = "INTERRUPTED" => core[c].state = "INTERRUPTED"
  PROVE  InterruptHoldsDisk'
BY DEF InterruptHoldsDisk, Interrupted

(* The initial states.                                                     *)
LEMMA InitInv ==
  ASSUME Init
  PROVE  Inv
<1>1. proc \in [Procs -> Process]
  <2>1. ASSUME NEW p \in Procs PROVE workload[p].events \in Seq(Event)
    BY InputAssumption DEF Init, ProcessInput
  <2> QED BY <2>1 DEF Init, Process, ProcessStates
<1>2. /\ initNode \in Node /\ initStats \in ProcessStats
      /\ [state |-> "DISK_IDLE", node |-> NULL] \in Disk
  BY DEF initNode, Node, initStats, ProcessStats, Disk, DiskStates
<1>3. initCore \in Core
  BY DEF initCore, Core, CoreStates
<1>4. <<>> \in Seq(Procs)
  OBVIOUS
<1>5. TypeOK
  BY <1>1, <1>2, <1>3, <1>4, SizeAssumption, InputAssumption DEF Init, TypeOK, Phases, Faults
<1>6. \A c \in Cores : core[c].state = "IDLE"
  BY DEF Init, initCore
<1>7. IndexOK /\ CoreOK /\ InterruptHoldsDisk
  BY <1>6 DEF Init, IndexOK, CoreOK, InterruptHoldsDisk, Interrupted
<1> QED
  BY <1>5, <1>7 DEF Inv

-----------------------------------------------------------------------------
(* A handler that only goes on: the system is what it was.                 *)
LEMMA GoOn ==
  ASSUME Inv, UNCHANGED <<time, system>>, phase' \in Phases, index' \in Nat,
         cursor' \in Procs \cup {NULL}, IndexOK'
  PROVE  Inv'
<1>1. /\ UNCHANGED <<workload, algorithms, proc, node, readyQueues, waitingQueue>>
      /\ UNCHANGED <<stalePrev, sizesBeforeRR, core, disk, stats, fault>>
  BY SystemUnchanged
<1>2. TypeOK'
  BY <1>1 DEF Inv, TypeOK
<1>3. CoreOK'
  BY <1>1 DEF Inv, CoreOK
<1>4. InterruptHoldsDisk'
  BY <1>1 DEF Inv, InterruptHoldsDisk, Interrupted
<1> QED
  BY <1>2, <1>3, <1>4 DEF Inv

(* The handlers that look at the state and go on.                          *)
LEMMA GoOnInv ==
  ASSUME Inv,
         \/ StartTick \/ EndOfWorkload \/ ArrivalsDone \/ AgingNextQueue
         \/ AgingDone \/ AgingKeep \/ NoProcess \/ NoEvent \/ WithinLimit
         \/ KeepRunning \/ NoResume \/ SliceContinues \/ NoInterrupt
         \/ SkipCore \/ SkipDisk
  PROVE  Inv'
<1> USE DEF Goto, At
<1>1. UNCHANGED <<time, system>>
  BY DEF StartTick, EndOfWorkload, ArrivalsDone, AgingNextQueue, AgingDone, AgingKeep,
         NoProcess, NoEvent, WithinLimit, KeepRunning, NoResume, SliceContinues,
         NoInterrupt, SkipCore, SkipDisk
<1>2. UNCHANGED core
  BY <1>1, SystemUnchanged
<1>3. TypeOK /\ IndexOK /\ index \in Nat /\ cursor \in Procs \cup {NULL}
  BY DEF Inv, TypeOK
<1>4. \A q \in Queue : AgingHead(q) \in Procs \cup {NULL}
  BY <1>3, TopAndNextNode DEF AgingHead, TypeOK
<1>5. Successor(readyQueues, cursor) \in Procs \cup {NULL}
  BY <1>3, SuccessorIsNode DEF TypeOK
<1>6. CASE StartTick
  BY <1>1, <1>3, <1>6, GoOn DEF StartTick, Phases, IndexOK
<1>7. CASE EndOfWorkload
  BY <1>1, <1>3, <1>7, GoOn DEF EndOfWorkload, Phases, IndexOK
<1>8. CASE ArrivalsDone
  BY <1>1, <1>3, <1>4, <1>8, GoOn, FirstCoreAndQueue DEF ArrivalsDone, Phases, IndexOK
<1>9. CASE AgingNextQueue
  <2>1. index + 1 \in Queue
    BY <1>3, <1>9, SizeAssumption DEF AgingNextQueue, Queue
  <2> QED BY <1>1, <1>3, <1>4, <1>9, <2>1, GoOn DEF AgingNextQueue, Phases, IndexOK
<1>10. CASE AgingDone
  BY <1>1, <1>3, <1>10, GoOn, FirstCoreAndQueue DEF AgingDone, Phases, IndexOK
<1>11. CASE AgingKeep
  BY <1>1, <1>3, <1>5, <1>11, GoOn DEF AgingKeep, Phases, IndexOK
<1>12. CASE NoProcess
  BY <1>1, <1>3, <1>12, GoOn DEF NoProcess, Phases, IndexOK
<1>13. CASE NoEvent
  BY <1>1, <1>2, <1>3, <1>13, GoOn DEF NoEvent, Phases, IndexOK
<1>14. CASE WithinLimit
  BY <1>1, <1>2, <1>3, <1>14, GoOn DEF WithinLimit, Phases, IndexOK
<1>15. CASE KeepRunning
  BY <1>1, <1>3, <1>15, GoOn DEF KeepRunning, Phases, IndexOK
<1>16. CASE NoResume
  <2>1. index < CoreCount - 1 => index + 1 \in Cores
    BY <1>3, SizeAssumption DEF Cores
  <2> QED BY <1>1, <1>3, <1>16, <2>1, GoOn DEF NoResume, NextCore, Phases, IndexOK
<1>17. CASE SliceContinues
  <2>1. index \in Cores /\ (index > 0 => index - 1 \in Cores /\ index - 1 \in Nat)
    BY <1>3, <1>17, SizeAssumption DEF SliceContinues, IndexOK, Cores
  <2> QED BY <1>1, <1>3, <1>17, <2>1, GoOn DEF SliceContinues, PreviousCore, Phases, IndexOK
<1>18. CASE NoInterrupt
  BY <1>1, <1>3, <1>18, GoOn DEF NoInterrupt, Phases, IndexOK
<1>19. CASE SkipCore
  BY <1>1, <1>3, <1>19, GoOn DEF SkipCore, NextIdleCore, Phases, IndexOK
<1>20. CASE SkipDisk
  BY <1>1, <1>3, <1>20, GoOn DEF SkipDisk, Phases, IndexOK
<1> QED
  BY <1>6, <1>7, <1>8, <1>9, <1>10, <1>11, <1>12, <1>13, <1>14, <1>15, <1>16, <1>17,
     <1>18, <1>19, <1>20

-----------------------------------------------------------------------------
(* processArrived *)

(* A process arrives: it is linked in the first queue.                     *)
LEMMA ProcessArrivedInv ==
  ASSUME Inv, NEW p \in Procs, ProcessArrived(p)
  PROVE  Inv'
<1> USE DEF Goto
<1>1. TypeOK
  BY DEF Inv
<1>2. Rest(proc[p].nextEvents) \in Seq(Event)
  BY <1>1, RestIsSeq DEF TypeOK, Process
<1>3. proc' \in [Procs -> Process]
  <2>1. proc' = [proc EXCEPT ![p].state = "READY", ![p].nextEvents = Rest(@)]
    BY DEF ProcessArrived
  <2>2. proc[p] \in Process /\ proc \in [Procs -> Process]
    BY <1>1 DEF TypeOK
  <2>3. [proc[p] EXCEPT !.state = "READY", !.nextEvents = Rest(@)] \in Process
    BY <1>2, <2>2 DEF Process, ProcessStates
  <2> QED BY <2>1, <2>2, <2>3
<1>4. stats' \in [Procs -> ProcessStats]
  <2>1. stats' = [stats EXCEPT ![p].arrivalTime = time]
    BY DEF ProcessArrived
  <2>2. stats[p] \in ProcessStats /\ stats \in [Procs -> ProcessStats] /\ time \in Nat
    BY <1>1 DEF TypeOK
  <2>3. [stats[p] EXCEPT !.arrivalTime = time] \in ProcessStats
    BY <2>2 DEF ProcessStats
  <2> QED BY <2>1, <2>2, <2>3
<1>5. /\ node' \in [Procs -> Node]
      /\ readyQueues' \in [Queue -> Seq(Procs)]
      /\ stalePrev' \in SUBSET Procs
      /\ fault' \in Faults
  <2>1. HandleProcessForCPU(readyQueues, stalePrev, p, initNode,
                            TimeLeft(p, Rest(proc[p].nextEvents)))
    BY DEF ProcessArrived
  <2>2. initNode \in Node
    BY DEF initNode, Node
  <2>3. TimeLeft(p, Rest(proc[p].nextEvents)) \in Int
    BY <1>1, <1>2, TimeLeftIsInt
  <2>4. readyQueues \in [Queue -> Seq(Procs)] /\ stalePrev \in SUBSET Procs
    BY <1>1 DEF TypeOK
  <2> QED BY <1>1, <2>1, <2>2, <2>3, <2>4, HandleProcessForCPUType
<1>6. /\ UNCHANGED <<time, cursor, workload, algorithms, waitingQueue, sizesBeforeRR>>
      /\ UNCHANGED <<core, disk>>
      /\ phase' = "arrival" /\ index' = p + 1
  BY DEF ProcessArrived, inputs
<1>7. p + 1 \in Nat
  BY DEF Procs
<1>8. TypeOK'
  BY <1>1, <1>3, <1>4, <1>5, <1>6, <1>7 DEF TypeOK, Phases
<1>9. IndexOK' /\ CoreOK'
  BY <1>6 DEF Inv, IndexOK, CoreOK
<1>10. InterruptHoldsDisk'
  BY <1>6, NoNewInterrupt DEF Inv
<1> QED
  BY <1>8, <1>9, <1>10 DEF Inv

-----------------------------------------------------------------------------
(* handleSchedulerEvents: aging *)

(* A process moves up: its node is unlinked and linked again.              *)
LEMMA AgingMoveInv ==
  ASSUME Inv, AgingMove
  PROVE  Inv'
<1> DEFINE p == cursor
           q == node[p].queueNbr
<1>1. TypeOK
  BY DEF Inv
<1>2. p \in Procs
  BY <1>1 DEF AgingMove, TypeOK
<1>3. readyQueues \in [Queue -> Seq(Procs)] /\ stalePrev \in SUBSET Procs
  BY <1>1 DEF TypeOK
<1>4. /\ node' \in [Procs -> Node]
      /\ readyQueues' \in [Queue -> Seq(Procs)]
      /\ stalePrev' \in SUBSET Procs
      /\ fault' \in Faults
      /\ cursor' \in Procs \cup {NULL}
  <2>1. CASE ~(q \in Queue /\ RemoveIsSound(readyQueues[q], p, stalePrev))
    BY <1>1, <2>1 DEF AgingMove, TypeOK, Faults
  <2>2. CASE q \in Queue /\ RemoveIsSound(readyQueues[q], p, stalePrev)
    <3> DEFINE rq    == [readyQueues EXCEPT ![q] = RemoveNode(@, p)]
               stale == StaleAfterRemove(readyQueues[q], p, stalePrev)
               nd    == MovedTo(p, q - 1)
    <3>1. /\ HandleProcessForCPU(rq, stale, p, nd, CurEventTimeLeft(p))
          /\ cursor' = Successor(readyQueues', p)
      BY <2>2 DEF AgingMove
    <3>2. readyQueues[q] \in Seq(Procs) /\ ProcessInQueue(readyQueues[q], p)
      BY <1>3, <2>2 DEF RemoveIsSound
    <3>3. rq \in [Queue -> Seq(Procs)]
      BY <1>3, <3>2, RemoveNodeIsSeq
    <3>4. stale \in SUBSET Procs
      BY <1>3, <3>2, StaleAfterRemoveIsSet
    <3>5. nd \in Node
      <4>1. q - 1 \in Int
        BY <1>1, <1>2 DEF TypeOK, Node
      <4> HIDE DEF q
      <4> QED BY <1>1, <1>2, <4>1, MovedToIsNode
    <3>6. CurEventTimeLeft(p) \in Int
      BY <1>1, <1>2, TimeLeftIsInt DEF CurEventTimeLeft, TypeOK, Process
    <3> HIDE DEF rq, stale, nd
    <3>7. /\ node' \in [Procs -> Node]
          /\ readyQueues' \in [Queue -> Seq(Procs)]
          /\ stalePrev' \in SUBSET Procs
          /\ fault' \in Faults
      BY <1>1, <1>2, <3>1, <3>3, <3>4, <3>5, <3>6, HandleProcessForCPUType
    <3> QED BY <3>1, <3>7, SuccessorIsNode
  <2> QED BY <2>1, <2>2
<1>5. /\ UNCHANGED <<time, phase, index, workload, algorithms, proc, waitingQueue>>
      /\ UNCHANGED <<sizesBeforeRR, core, disk, stats>>
  BY DEF AgingMove, inputs
<1>6. TypeOK'
  BY <1>1, <1>4, <1>5 DEF TypeOK
<1>7. IndexOK' /\ CoreOK'
  BY <1>5 DEF Inv, IndexOK, CoreOK
<1>8. InterruptHoldsDisk'
  BY <1>5, NoNewInterrupt DEF Inv
<1> QED
  BY <1>6, <1>7, <1>8 DEF Inv

-----------------------------------------------------------------------------
(* handleSchedulerEvents: the loop over the cores *)

(* In the loop over the cores `index` is a core, and the process on it, if *)
(* there is one, has a node.                                               *)
LEMMA CurrentCore ==
  ASSUME Inv, phase \in {"event", "limit", "preempt", "resume", "slice"}
  PROVE  /\ index \in Cores /\ core[index] \in Core
         /\ core[index].node # NULL =>
              /\ core[index].node \in Procs
              /\ node[core[index].node] \in Node
              /\ CurEventTimeLeft(core[index].node) \in Int
<1>1. TypeOK /\ index \in Cores
  BY DEF Inv, IndexOK
<1>2. core[index] \in Core
  BY <1>1 DEF TypeOK
<1>3. ASSUME core[index].node # NULL
      PROVE  core[index].node \in Procs
  BY <1>2, <1>3 DEF Core
<1>4. ASSUME NEW p \in Procs
      PROVE  node[p] \in Node /\ CurEventTimeLeft(p) \in Int
  BY <1>1, TimeLeftIsInt DEF TypeOK, CurEventTimeLeft, Process
<1> QED
  BY <1>1, <1>2, <1>3, <1>4

(* A switch-out that leads back to a ready queue, from any of its three    *)
(* places, keeps the invariant on the cores and the disk.                  *)
LEMMA SwitchOutReadyCores ==
  ASSUME Inv, NEW c \in Cores, core[c].node # NULL, NEW nd, SwitchOutReady(c, nd),
         UNCHANGED disk
  PROVE  CoreOK' /\ InterruptHoldsDisk'
<1>1. core \in [Cores -> Core]
  BY DEF Inv, TypeOK
<1>2. \A d \in Cores : d # c => core'[d] = core[d]
  BY <1>1 DEF SwitchOutReady
<1>3. \/ core'[c].state = "SWITCH_OUT" /\ core'[c].node = core[c].node
      \/ core'[c].state = "IDLE" /\ core'[c].node = NULL
  <2>1. core[c] \in Core
    BY <1>1
  <2>2. CASE SwitchOutDuration > 0
    <3>1. core' = [core EXCEPT ![c].state = "SWITCH_OUT",
                               ![c].switchOutTimer = SwitchOutDuration,
                               ![c].continueOnCPU = TRUE]
      BY <2>2 DEF SwitchOutReady
    <3> QED BY <1>1, <2>1, <3>1 DEF Core
  <2>3. CASE ~(SwitchOutDuration > 0)
    <3>1. core' = [core EXCEPT ![c].state = "IDLE", ![c].node = NULL]
      BY <2>3 DEF SwitchOutReady
    <3> QED BY <1>1, <2>1, <3>1 DEF Core
  <2> QED BY <2>2, <2>3
<1>4. CoreOK'
  BY <1>2, <1>3 DEF Inv, CoreOK
<1>5. \A d \in Cores : core'[d].state = "INTERRUPTED" => core[d].state = "INTERRUPTED"
  BY <1>2, <1>3
<1> QED
  BY <1>4, <1>5, NoNewInterrupt DEF Inv

(* The end of a switch-in: the process runs.                               *)
LEMMA SwitchInDoneInv ==
  ASSUME Inv, SwitchInDone
  PROVE  Inv'
<1> DEFINE p == core[index].node
<1>1. TypeOK /\ index \in Cores /\ core[index] \in Core /\ p \in Procs
  BY CurrentCore DEF SwitchInDone, At, Inv
<1>2. /\ core \in [Cores -> Core] /\ proc \in [Procs -> Process] /\ proc[p] \in Process
  BY <1>1 DEF TypeOK
<1>3. /\ core' = [core EXCEPT ![index].state = "OCCUPIED", ![index].quantumTime = 0]
      /\ proc' = [proc EXCEPT ![p].state = "RUNNING"]
      /\ phase' = "limit" /\ index' = index
      /\ UNCHANGED <<time, cursor, workload, algorithms, node, readyQueues, waitingQueue>>
      /\ UNCHANGED <<stalePrev, sizesBeforeRR, disk, stats, fault>>
  BY DEF SwitchInDone, Goto, inputs, lists
<1>4. proc' \in [Procs -> Process]
  <2>1. [proc[p] EXCEPT !.state = "RUNNING"] \in Process
    BY <1>2 DEF Process, ProcessStates
  <2> QED BY <1>2, <1>3, <2>1
<1>5. core' \in [Cores -> Core]
  <2>1. [core[index] EXCEPT !.state = "OCCUPIED", !.quantumTime = 0] \in Core
    BY <1>1, CoreFields DEF CoreStates
  <2> QED BY <1>2, <1>3, <2>1
<1>6. TypeOK'
  BY <1>1, <1>3, <1>4, <1>5 DEF TypeOK, Phases
<1>7. /\ core'[index].state = "OCCUPIED" /\ core'[index].node = p
      /\ \A d \in Cores : d # index => core'[d] = core[d]
  BY <1>1, <1>2, <1>3 DEF Core
<1>8. IndexOK' /\ CoreOK'
  BY <1>1, <1>3, <1>7, NullIsNoProcess DEF Inv, IndexOK, CoreOK
<1>9. InterruptHoldsDisk'
  BY <1>3, <1>7, NoNewInterrupt DEF Inv
<1> QED
  BY <1>6, <1>8, <1>9 DEF Inv

(* The end of a switch-out: the core is free.                              *)
LEMMA SwitchOutDoneInv ==
  ASSUME Inv, SwitchOutDone
  PROVE  Inv'
<1> DEFINE p == core[index].node
<1>1. /\ TypeOK /\ index \in Cores /\ core[index] \in Core /\ p \in Procs
      /\ node[p] \in Node /\ CurEventTimeLeft(p) \in Int
  BY CurrentCore DEF SwitchOutDone, At, Inv
<1>2. core \in [Cores -> Core]
  BY <1>1 DEF TypeOK
<1>3. /\ core' = [core EXCEPT ![index].state = "IDLE", ![index].node = NULL]
      /\ phase' = "resume" /\ index' = index
      /\ UNCHANGED <<time, cursor, workload, algorithms, proc, waitingQueue>>
      /\ UNCHANGED <<sizesBeforeRR, disk, stats>>
  BY DEF SwitchOutDone, Goto, inputs
<1>4. /\ node' \in [Procs -> Node]
      /\ readyQueues' \in [Queue -> Seq(Procs)]
      /\ stalePrev' \in SUBSET Procs
      /\ fault' \in Faults
  <2>1. CASE ~core[index].continueOnCPU
    BY <1>1, <2>1 DEF SwitchOutDone, TypeOK
  <2>2. CASE core[index].continueOnCPU
    <3>1. HandleProcessForCPU(readyQueues, stalePrev, p, node[p], CurEventTimeLeft(p))
      BY <2>2 DEF SwitchOutDone
    <3>2. readyQueues \in [Queue -> Seq(Procs)] /\ stalePrev \in SUBSET Procs
      BY <1>1 DEF TypeOK
    <3> QED BY <1>1, <3>1, <3>2, HandleProcessForCPUType
  <2> QED BY <2>1, <2>2
<1>5. core' \in [Cores -> Core]
  <2>1. [core[index] EXCEPT !.state = "IDLE", !.node = NULL] \in Core
    BY <1>1, CoreFields DEF CoreStates
  <2> QED BY <1>2, <1>3, <2>1
<1>6. TypeOK'
  BY <1>1, <1>3, <1>4, <1>5 DEF TypeOK, Phases
<1>7. /\ core'[index].state = "IDLE"
      /\ \A d \in Cores : d # index => core'[d] = core[d]
  BY <1>1, <1>2, <1>3 DEF Core
<1>8. IndexOK' /\ CoreOK'
  BY <1>1, <1>3, <1>7 DEF Inv, IndexOK, CoreOK
<1>9. InterruptHoldsDisk'
  BY <1>3, <1>7, NoNewInterrupt DEF Inv
<1> QED
  BY <1>6, <1>8, <1>9 DEF Inv

(* The end of a process.                                                   *)
LEMMA TerminateInv ==
  ASSUME Inv, Terminate
  PROVE  Inv'
<1> DEFINE p == core[index].node
<1>1. TypeOK /\ index \in Cores /\ core[index] \in Core /\ p \in Procs
  BY CurrentCore DEF Terminate, BurstOver, At, Inv
<1>2. /\ core \in [Cores -> Core] /\ proc \in [Procs -> Process] /\ proc[p] \in Process
      /\ stats \in [Procs -> ProcessStats] /\ stats[p] \in ProcessStats /\ time \in Nat
  BY <1>1 DEF TypeOK
<1>3. /\ core' = [core EXCEPT ![index].state = "IDLE", ![index].node = NULL]
      /\ proc' = [proc EXCEPT ![p].state = "TERMINATED"]
      /\ stats' = [stats EXCEPT ![p].finishTime = time,
                                ![p].turnaroundTime = time - stats[p].arrivalTime]
      /\ fault' \in {"freed", "none"}
      /\ phase' = "resume" /\ index' = index
      /\ UNCHANGED <<time, cursor, workload, algorithms, node, readyQueues, waitingQueue>>
      /\ UNCHANGED <<stalePrev, sizesBeforeRR, disk>>
  BY DEF Terminate, Goto, inputs, lists
<1>4. proc' \in [Procs -> Process]
  <2>1. [proc[p] EXCEPT !.state = "TERMINATED"] \in Process
    BY <1>2 DEF Process, ProcessStates
  <2> QED BY <1>2, <1>3, <2>1
<1>5. stats' \in [Procs -> ProcessStats]
  <2>1. time - stats[p].arrivalTime \in Int
    BY <1>2 DEF ProcessStats
  <2>2. [stats[p] EXCEPT !.finishTime = time,
                         !.turnaroundTime = time - stats[p].arrivalTime] \in ProcessStats
    BY <1>2, <2>1 DEF ProcessStats
  <2> QED BY <1>2, <1>3, <2>2
<1>6. core' \in [Cores -> Core]
  <2>1. [core[index] EXCEPT !.state = "IDLE", !.node = NULL] \in Core
    BY <1>1, CoreFields DEF CoreStates
  <2> QED BY <1>2, <1>3, <2>1
<1>7. TypeOK'
  BY <1>1, <1>3, <1>4, <1>5, <1>6 DEF TypeOK, Phases, Faults
<1>8. /\ core'[index].state = "IDLE"
      /\ \A d \in Cores : d # index => core'[d] = core[d]
  BY <1>1, <1>2, <1>3 DEF Core
<1>9. IndexOK' /\ CoreOK'
  BY <1>1, <1>3, <1>8 DEF Inv, IndexOK, CoreOK
<1>10. InterruptHoldsDisk'
  BY <1>3, <1>8, NoNewInterrupt DEF Inv
<1> QED
  BY <1>7, <1>9, <1>10 DEF Inv

(* The start of an I/O operation.                                          *)
LEMMA StartIOInv ==
  ASSUME Inv, StartIO
  PROVE  Inv'
<1> DEFINE p == core[index].node
<1>1. /\ TypeOK /\ index \in Cores /\ core[index] \in Core /\ p \in Procs
      /\ core[index].node # NULL
  BY CurrentCore DEF StartIO, BurstOver, At, Inv
<1>2. /\ core \in [Cores -> Core] /\ proc \in [Procs -> Process] /\ proc[p] \in Process
      /\ stats \in [Procs -> ProcessStats] /\ stats[p] \in ProcessStats
      /\ waitingQueue \in Seq(Procs)
  BY <1>1 DEF TypeOK
<1> DEFINE leaving == [core[index] EXCEPT !.state = "SWITCH_OUT",
                                          !.switchOutTimer = SwitchOutDuration,
                                          !.continueOnCPU = FALSE]
           left    == [core[index] EXCEPT !.state = "IDLE", !.node = NULL,
                                          !.continueOnCPU = FALSE]
<1>3. core' = [core EXCEPT ![index] = leaving] \/ core' = [core EXCEPT ![index] = left]
  <2>1. CASE SwitchOutDuration > 0
    <3>1. core' = [core EXCEPT ![index].state = "SWITCH_OUT",
                               ![index].switchOutTimer = SwitchOutDuration,
                               ![index].continueOnCPU = FALSE]
      BY <2>1 DEF StartIO
    <3> QED BY <1>1, <1>2, <3>1
  <2>2. CASE ~(SwitchOutDuration > 0)
    <3>1. core' = [core EXCEPT ![index].state = "IDLE", ![index].node = NULL,
                               ![index].continueOnCPU = FALSE]
      BY <2>2 DEF StartIO
    <3> QED BY <1>1, <1>2, <3>1
  <2> QED BY <2>1, <2>2
<1>4. /\ proc' = [proc EXCEPT ![p].state = "WAITING", ![p].nextEvents = Rest(@)]
      /\ stats' = [stats EXCEPT ![p].nbContextSwitches = @ + 1]
      /\ \/ fault' = "relinked" /\ UNCHANGED waitingQueue
         \/ waitingQueue' = Append(waitingQueue, p) /\ UNCHANGED fault
      /\ phase' = "resume" /\ index' = index
      /\ UNCHANGED <<time, cursor, workload, algorithms, node, readyQueues, stalePrev>>
      /\ UNCHANGED <<sizesBeforeRR, disk>>
  BY DEF StartIO, Goto, inputs
<1>5. proc' \in [Procs -> Process]
  <2>1. Rest(proc[p].nextEvents) \in Seq(Event)
    BY <1>2, RestIsSeq DEF Process
  <2>2. [proc[p] EXCEPT !.state = "WAITING", !.nextEvents = Rest(@)] \in Process
    BY <1>2, <2>1 DEF Process, ProcessStates
  <2> QED BY <1>2, <1>4, <2>2
<1>6. stats' \in [Procs -> ProcessStats]
  <2>1. [stats[p] EXCEPT !.nbContextSwitches = @ + 1] \in ProcessStats
    BY <1>2, ContextSwitchCounted
  <2> QED BY <1>2, <1>4, <2>1
<1>7. leaving \in Core /\ left \in Core
  <2>1. SwitchOutDuration \in Int
    BY DurationAssumption
  <2> QED BY <1>1, <2>1, CoreFields DEF CoreStates
<1>8. /\ leaving.state = "SWITCH_OUT" /\ leaving.node = p
      /\ left.state = "IDLE"
  BY <1>1 DEF Core
<1> HIDE DEF leaving, left
<1>9. core' \in [Cores -> Core]
  BY <1>2, <1>3, <1>7
<1>10. waitingQueue' \in Seq(Procs) /\ fault' \in Faults
  <2>1. Append(waitingQueue, p) \in Seq(Procs)
    BY <1>1, <1>2, AppendProperties
  <2>2. fault \in Faults
    BY <1>1 DEF TypeOK
  <2> QED BY <1>2, <1>4, <2>1, <2>2 DEF Faults
<1>11. TypeOK'
  BY <1>1, <1>4, <1>5, <1>6, <1>9, <1>10 DEF TypeOK, Phases
<1>12. /\ \/ core'[index].state = "SWITCH_OUT" /\ core'[index].node # NULL
          \/ core'[index].state = "IDLE"
       /\ \A d \in Cores : d # index => core'[d] = core[d]
  BY <1>1, <1>2, <1>3, <1>8
<1>13. IndexOK' /\ CoreOK'
  BY <1>1, <1>4, <1>12 DEF Inv, IndexOK, CoreOK
<1>14. InterruptHoldsDisk'
  BY <1>4, <1>12, NoNewInterrupt DEF Inv
<1> QED
  BY <1>11, <1>13, <1>14 DEF Inv

(* A process that has used up its time in a queue moves down, with or      *)
(* without leaving its core.                                               *)
LEMMA DemoteInv ==
  ASSUME Inv, Demote
  PROVE  Inv'
<1> DEFINE p == core[index].node
           q == node[p].queueNbr + 1
<1>1. TypeOK /\ index \in Cores /\ core[index].state = "OCCUPIED" /\ core[index].node # NULL
  BY DEF Demote, At, Inv, IndexOK, CoreOK
<1>2. p \in Procs /\ node[p] \in Node
  BY <1>1, CurrentCore DEF Demote, At
<1>3. MovedTo(p, q) \in Node
  <2>1. q \in Int
    BY <1>2 DEF Node
  <2> HIDE DEF q
  <2> QED BY <1>1, <1>2, <2>1, MovedToIsNode
<1>4. /\ index' = index
      /\ UNCHANGED <<time, cursor, workload, algorithms, waitingQueue>>
      /\ UNCHANGED <<sizesBeforeRR, disk>>
  BY DEF Demote, Goto, inputs
<1>5. CASE OtherProcessInReadyQueue(q)
  <2>1. SwitchOutReady(index, MovedTo(p, q)) /\ phase' = "resume"
    BY <1>5 DEF Demote, Goto
  <2>2. /\ core' \in [Cores -> Core] /\ proc' \in [Procs -> Process]
        /\ stats' \in [Procs -> ProcessStats] /\ node' \in [Procs -> Node]
        /\ readyQueues' \in [Queue -> Seq(Procs)] /\ stalePrev' \in SUBSET Procs
        /\ fault' \in Faults
    BY <1>1, <1>2, <1>3, <2>1, SwitchOutReadyType
  <2>3. TypeOK'
    BY <1>1, <1>4, <2>1, <2>2 DEF TypeOK, Phases
  <2>4. CoreOK' /\ InterruptHoldsDisk'
    BY <1>1, <1>4, <2>1, SwitchOutReadyCores
  <2>5. IndexOK'
    BY <1>1, <1>4, <2>1 DEF IndexOK
  <2> QED BY <2>3, <2>4, <2>5 DEF Inv
<1>6. CASE ~OtherProcessInReadyQueue(q)
  <2>1. /\ node' = [node EXCEPT ![p] = MovedTo(p, q)]
        /\ fault' \in {"none", "queueIndex"}
        /\ phase' = "preempt"
        /\ UNCHANGED <<proc, readyQueues, stalePrev, core, stats>>
    BY <1>6 DEF Demote, Goto
  <2>2. TypeOK'
    BY <1>1, <1>3, <1>4, <2>1 DEF TypeOK, Phases, Faults
  <2>3. IndexOK' /\ CoreOK'
    BY <1>1, <1>4, <2>1 DEF Inv, IndexOK, CoreOK
  <2>4. InterruptHoldsDisk'
    BY <1>4, <2>1, NoNewInterrupt DEF Inv
  <2> QED BY <2>2, <2>3, <2>4 DEF Inv
<1> QED
  BY <1>5, <1>6

(* A process is preempted.                                                 *)
LEMMA PreemptInv ==
  ASSUME Inv, Preempt
  PROVE  Inv'
<1> DEFINE p == core[index].node
<1>1. TypeOK /\ index \in Cores /\ core[index].node # NULL
  BY DEF Preempt, At, Inv, IndexOK, CoreOK
<1>2. p \in Procs /\ node[p] \in Node
  BY <1>1, CurrentCore DEF Preempt, At
<1>3. /\ SwitchOutReady(index, node[p])
      /\ phase' = "resume" /\ index' = index
      /\ UNCHANGED <<time, cursor, workload, algorithms, waitingQueue>>
      /\ UNCHANGED <<sizesBeforeRR, disk>>
  BY DEF Preempt, Goto, inputs
<1>4. /\ core' \in [Cores -> Core] /\ proc' \in [Procs -> Process]
      /\ stats' \in [Procs -> ProcessStats] /\ node' \in [Procs -> Node]
      /\ readyQueues' \in [Queue -> Seq(Procs)] /\ stalePrev' \in SUBSET Procs
      /\ fault' \in Faults
  BY <1>1, <1>2, <1>3, SwitchOutReadyType
<1>5. TypeOK'
  BY <1>1, <1>3, <1>4 DEF TypeOK, Phases
<1>6. CoreOK' /\ InterruptHoldsDisk'
  BY <1>1, <1>3, SwitchOutReadyCores
<1>7. IndexOK'
  BY <1>1, <1>3 DEF IndexOK
<1> QED
  BY <1>5, <1>6, <1>7 DEF Inv

(* The end of an interrupt: the core goes back to what it was doing, and   *)
(* the disk hands its process back.                                        *)
LEMMA ResumeInv ==
  ASSUME Inv, Resume
  PROVE  Inv'
<1> DEFINE before == StateBeforeInterrupt(index)
           p      == disk.node
<1>1. TypeOK /\ index \in Cores /\ core[index] \in Core /\ core[index].state = "INTERRUPTED"
  BY CurrentCore DEF Resume, InterruptOver, At, Inv
<1>2. p \in Procs /\ disk.state = "DISK_IDLE"
  BY <1>1 DEF Inv, InterruptHoldsDisk, Interrupted, TypeOK, Disk
<1>3. /\ before \in {"IDLE", "SWITCH_IN", "SWITCH_OUT", "OCCUPIED"}
      /\ before # "IDLE" => core[index].node # NULL
  BY DEF StateBeforeInterrupt
<1>4. /\ EndIO(p, IF before = "OCCUPIED" THEN {core[index].node} ELSE {})
      /\ disk' = [disk EXCEPT !.node = NULL]
      /\ core' = [core EXCEPT ![index].state = before]
      /\ NextCore
      /\ UNCHANGED <<time, cursor, workload, algorithms, waitingQueue, sizesBeforeRR, stats>>
  BY DEF Resume, inputs
<1> HIDE DEF before
<1>5. /\ proc' \in [Procs -> Process] /\ node' \in [Procs -> Node]
      /\ readyQueues' \in [Queue -> Seq(Procs)] /\ stalePrev' \in SUBSET Procs
      /\ fault' \in Faults
  BY <1>1, <1>2, <1>4, EndIOType
<1>6. core' \in [Cores -> Core]
  <2>1. [core[index] EXCEPT !.state = before] \in Core
    BY <1>1, <1>3, CoreFields DEF CoreStates
  <2> QED BY <1>1, <1>4, <2>1 DEF TypeOK
<1>7. disk' \in Disk /\ disk'.state = "DISK_IDLE"
  BY <1>1, <1>2, <1>4 DEF TypeOK, Disk
<1>8. \/ index' \in Cores /\ phase' = "event"
      \/ index' = 0 /\ phase' = "sizes"
  BY <1>1, <1>4, SizeAssumption DEF NextCore, Goto, Cores
<1>9. TypeOK'
  BY <1>1, <1>4, <1>5, <1>6, <1>7, <1>8 DEF TypeOK, Phases, Cores
<1>10. /\ core'[index].state = before /\ core'[index].node = core[index].node
       /\ \A d \in Cores : d # index => core'[d] = core[d]
  BY <1>1, <1>4 DEF TypeOK, Core
<1>11. IndexOK' /\ CoreOK'
  BY <1>3, <1>8, <1>10 DEF Inv, IndexOK, CoreOK
<1>12. InterruptHoldsDisk'
  <2>1. \A c \in Cores : core'[c].state # "INTERRUPTED"
    BY <1>1, <1>3, <1>10 DEF Inv, InterruptHoldsDisk
  <2> QED BY <1>7, <2>1 DEF InterruptHoldsDisk, Interrupted
<1> QED
  BY <1>9, <1>11, <1>12 DEF Inv

-----------------------------------------------------------------------------
(* handleSchedulerEvents: Round-Robin slices *)

(* The sizes of the queues, less the cores that are switching out, are     *)
(* counted.                                                                *)
LEMMA QueuesSizesBeforeRRInv ==
  ASSUME Inv, QueuesSizesBeforeRR
  PROVE  Inv'
<1>1. TypeOK
  BY DEF Inv
<1>2. PICK spare \in [0..QueueCount -> 0..CoreCount] :
        sizesBeforeRR' =
          [q \in Queue |-> Len(readyQueues[q]) - Deducted(Len(readyQueues[q]), spare[q])]
  BY DEF QueuesSizesBeforeRR
<1>3. ASSUME NEW q \in Queue
      PROVE  Len(readyQueues[q]) - Deducted(Len(readyQueues[q]), spare[q]) \in Nat
  <2>1. Len(readyQueues[q]) \in Nat
    BY <1>1, LenProperties DEF TypeOK
  <2>2. spare[q] \in Nat
    BY SizeAssumption DEF Queue
  <2> DEFINE n == Len(readyQueues[q])
             m == spare[q]
  <2> HIDE DEF n, m
  <2>3. n \in Nat /\ m \in Nat
    BY <2>1, <2>2 DEF n, m
  <2>4. n - Deducted(n, m) \in Nat
    BY <2>3 DEF Deducted
  <2> QED BY <2>4 DEF n, m
<1>4. sizesBeforeRR' \in [Queue -> Nat]
  BY <1>2, <1>3
<1>5. /\ phase' = "slice" /\ index' = CoreCount - 1
      /\ UNCHANGED <<time, cursor, workload, algorithms, proc, node, readyQueues>>
      /\ UNCHANGED <<waitingQueue, stalePrev, core, disk, stats, fault>>
  BY DEF QueuesSizesBeforeRR, Goto, inputs, lists
<1>6. index' \in Cores /\ index' \in Nat
  BY <1>5, SizeAssumption, FirstCoreAndQueue
<1>7. TypeOK'
  BY <1>1, <1>4, <1>5, <1>6 DEF TypeOK, Phases
<1>8. IndexOK' /\ CoreOK'
  BY <1>5, <1>6 DEF Inv, IndexOK, CoreOK
<1>9. InterruptHoldsDisk'
  BY <1>5, NoNewInterrupt DEF Inv
<1> QED
  BY <1>7, <1>8, <1>9 DEF Inv

(* The loop over the slices goes down to the first core.                   *)
LEMMA PreviousCoreIndex ==
  ASSUME index \in Cores, PreviousCore
  PROVE  /\ index' \in Nat /\ phase' \in {"slice", "interrupt"}
         /\ phase' = "slice" => index' \in Cores
BY SizeAssumption DEF PreviousCore, Goto, Cores

(* A slice is over and somebody waits for a core.                          *)
LEMMA SwitchOutAfterSliceInv ==
  ASSUME Inv, SwitchOutAfterSlice
  PROVE  Inv'
<1> DEFINE p == core[index].node
           q == node[p].queueNbr
<1>1. TypeOK /\ index \in Cores /\ core[index].node # NULL
  BY DEF SwitchOutAfterSlice, SliceOver, At, Inv, IndexOK
<1>2. p \in Procs /\ node[p] \in Node
  BY <1>1, CurrentCore DEF SwitchOutAfterSlice, At
<1>3. /\ SwitchOutReady(index, node[p])
      /\ sizesBeforeRR[q] # 0
      /\ sizesBeforeRR' = [sizesBeforeRR EXCEPT ![q] = @ - 1]
      /\ PreviousCore
      /\ UNCHANGED <<time, cursor, workload, algorithms, waitingQueue, disk>>
  BY DEF SwitchOutAfterSlice, inputs
<1>4. /\ core' \in [Cores -> Core] /\ proc' \in [Procs -> Process]
      /\ stats' \in [Procs -> ProcessStats] /\ node' \in [Procs -> Node]
      /\ readyQueues' \in [Queue -> Seq(Procs)] /\ stalePrev' \in SUBSET Procs
      /\ fault' \in Faults
  BY <1>1, <1>2, <1>3, SwitchOutReadyType
<1>5. sizesBeforeRR' \in [Queue -> Nat]
  <2> HIDE DEF q
  <2>1. sizesBeforeRR \in [Queue -> Nat]
    BY <1>1 DEF TypeOK
  <2>2. q \in Queue => sizesBeforeRR[q] - 1 \in Nat
    BY <1>3, <2>1
  <2> QED BY <1>3, <2>1, <2>2
<1>6. /\ index' \in Nat /\ phase' \in {"slice", "interrupt"}
      /\ phase' = "slice" => index' \in Cores
  BY <1>1, <1>3, PreviousCoreIndex
<1>7. TypeOK'
  BY <1>1, <1>3, <1>4, <1>5, <1>6 DEF TypeOK, Phases
<1>8. CoreOK' /\ InterruptHoldsDisk'
  BY <1>1, <1>3, SwitchOutReadyCores
<1>9. IndexOK'
  BY <1>6 DEF IndexOK
<1> QED
  BY <1>7, <1>8, <1>9 DEF Inv

(* A slice is over and nobody waits for a core.                            *)
LEMMA NewSliceInv ==
  ASSUME Inv, NewSlice
  PROVE  Inv'
<1>1. TypeOK /\ index \in Cores /\ core[index] \in Core
  BY CurrentCore DEF NewSlice, At, Inv
<1>2. core \in [Cores -> Core]
  BY <1>1 DEF TypeOK
<1>3. /\ core' = [core EXCEPT ![index].quantumTime = 0]
      /\ PreviousCore
      /\ UNCHANGED <<time, cursor, workload, algorithms, proc, node, readyQueues>>
      /\ UNCHANGED <<waitingQueue, stalePrev, sizesBeforeRR, disk, stats, fault>>
  BY DEF NewSlice, inputs, lists
<1>4. core' \in [Cores -> Core]
  <2>1. [core[index] EXCEPT !.quantumTime = 0] \in Core
    BY <1>1, CoreFields
  <2> QED BY <1>2, <1>3, <2>1
<1>5. /\ index' \in Nat /\ phase' \in {"slice", "interrupt"}
      /\ phase' = "slice" => index' \in Cores
  BY <1>1, <1>3, PreviousCoreIndex
<1>6. TypeOK'
  BY <1>1, <1>3, <1>4, <1>5 DEF TypeOK, Phases
<1>7. \A d \in Cores : core'[d].state = core[d].state /\ core'[d].node = core[d].node
  BY <1>1, <1>2, <1>3 DEF Core
<1>8. IndexOK' /\ CoreOK'
  BY <1>5, <1>7 DEF Inv, IndexOK, CoreOK
<1>9. InterruptHoldsDisk'
  BY <1>3, <1>7, NoNewInterrupt DEF Inv
<1> QED
  BY <1>6, <1>8, <1>9 DEF Inv

-----------------------------------------------------------------------------
(* handleSimulationEvents: the end of a disk operation *)

(* The disk interrupts a core: no other core is interrupted, and the disk  *)
(* keeps its process.                                                      *)
LEMMA InterruptCoreInv ==
  ASSUME Inv, NEW c \in Cores, InterruptCore(c)
  PROVE  Inv'
<1>1. TypeOK /\ core \in [Cores -> Core] /\ core[c] \in Core /\ disk \in Disk
  BY DEF Inv, TypeOK
<1>2. ~Interrupted /\ disk.node # NULL
  BY DEF InterruptCore, DiskOperationOver
<1>3. /\ disk' = [disk EXCEPT !.state = "DISK_IDLE"]
      /\ core' = [core EXCEPT ![c].state = "INTERRUPTED", ![c].interruptTimer = InterruptTime]
      /\ proc' = ProcessInterrupted(c)
      /\ phase' = "assignCores" /\ index' = 0
      /\ UNCHANGED <<time, cursor, workload, algorithms, node, readyQueues, waitingQueue>>
      /\ UNCHANGED <<stalePrev, sizesBeforeRR, stats, fault>>
  BY DEF InterruptCore, Goto, inputs, lists
<1>4. proc' \in [Procs -> Process]
  <2>1. ASSUME NEW p \in Procs
        PROVE  proc[p] \in Process /\ [proc[p] EXCEPT !.state = "READY"] \in Process
    <3>1. proc[p] \in Process
      BY <1>1 DEF TypeOK
    <3> QED BY <3>1 DEF Process, ProcessStates
  <2> QED BY <1>3, <2>1 DEF ProcessInterrupted
<1>5. core' \in [Cores -> Core]
  <2>1. InterruptTime \in Int
    BY DurationAssumption
  <2>2. [core[c] EXCEPT !.state = "INTERRUPTED", !.interruptTimer = InterruptTime] \in Core
    BY <1>1, <2>1, CoreFields DEF CoreStates
  <2> QED BY <1>1, <1>3, <2>2
<1>6. disk' \in Disk /\ disk'.state = "DISK_IDLE" /\ disk'.node = disk.node
  BY <1>1, <1>3 DEF Disk, DiskStates
<1>7. TypeOK'
  BY <1>1, <1>3, <1>4, <1>5, <1>6 DEF TypeOK, Phases
<1>8. /\ core'[c].state = "INTERRUPTED"
      /\ \A d \in Cores : d # c => core'[d] = core[d]
  BY <1>1, <1>3 DEF Core
<1>9. IndexOK' /\ CoreOK'
  BY <1>3, <1>8 DEF Inv, IndexOK, CoreOK
<1>10. InterruptHoldsDisk'
  BY <1>2, <1>6, <1>8 DEF InterruptHoldsDisk, Interrupted
<1> QED
  BY <1>7, <1>9, <1>10 DEF Inv

(* The end of a disk operation when interrupts take no time.               *)
LEMMA NoInterruptTimeInv ==
  ASSUME Inv, NoInterruptTime
  PROVE  Inv'
<1>1. TypeOK /\ disk \in Disk
  BY DEF Inv, TypeOK
<1>2. disk.node \in Procs /\ ~Interrupted
  BY <1>1 DEF NoInterruptTime, DiskOperationOver, Disk
<1>3. /\ EndIO(disk.node, {})
      /\ disk' = [state |-> "DISK_IDLE", node |-> NULL]
      /\ phase' = "assignCores" /\ index' = 0
      /\ UNCHANGED <<time, cursor, workload, algorithms, waitingQueue>>
      /\ UNCHANGED <<sizesBeforeRR, core, stats>>
  BY DEF NoInterruptTime, DiskReleased, Goto, inputs
<1>4. /\ proc' \in [Procs -> Process] /\ node' \in [Procs -> Node]
      /\ readyQueues' \in [Queue -> Seq(Procs)] /\ stalePrev' \in SUBSET Procs
      /\ fault' \in Faults
  BY <1>1, <1>2, <1>3, EndIOType
<1>5. disk' \in Disk
  BY <1>3 DEF Disk, DiskStates
<1>6. TypeOK'
  BY <1>1, <1>3, <1>4, <1>5 DEF TypeOK, Phases
<1>7. IndexOK' /\ CoreOK'
  BY <1>3 DEF Inv, IndexOK, CoreOK
<1>8. InterruptHoldsDisk'
  BY <1>2, <1>3 DEF InterruptHoldsDisk, Interrupted
<1> QED
  BY <1>6, <1>7, <1>8 DEF Inv

-----------------------------------------------------------------------------
(* assignProcessesToResources *)

(* The head of the first queue that is not empty gets an idle core.        *)
LEMMA PutProcessOnCPUInv ==
  ASSUME Inv, NEW q \in Queue, PutProcessOnCPU(q)
  PROVE  Inv'
<1> DEFINE p        == TopNode(readyQueues[q])
           entering == [core[index] EXCEPT !.state = "SWITCH_IN", !.node = p,
                                           !.switchInTimer = SwitchInDuration]
           entered  == [core[index] EXCEPT !.state = "OCCUPIED", !.node = p,
                                           !.quantumTime = 0]
<1>1. /\ TypeOK /\ core \in [Cores -> Core] /\ proc \in [Procs -> Process]
      /\ readyQueues \in [Queue -> Seq(Procs)] /\ stalePrev \in SUBSET Procs
      /\ index \in Nat
  BY DEF Inv, TypeOK
<1>2. readyQueues[q] # <<>>
  BY DEF PutProcessOnCPU
<1>3. p \in Procs /\ Tail(readyQueues[q]) \in Seq(Procs)
  BY <1>1, <1>2, TopAndNextNode, HeadTailProperties
<1>4. /\ readyQueues' = [readyQueues EXCEPT ![q] = Tail(@)]
      /\ stalePrev' = StaleAfterDequeue(readyQueues[q], stalePrev)
      /\ proc' = [proc EXCEPT ![p].state = IF SwitchInDuration > 0 THEN "READY" ELSE "RUNNING"]
      /\ phase' \in {"assignCores", "assignDisk"}
      /\ index' = index + 1 \/ index' = 0
      /\ UNCHANGED <<time, cursor, workload, algorithms, node, waitingQueue, sizesBeforeRR>>
      /\ UNCHANGED <<disk, stats, fault>>
  BY DEF PutProcessOnCPU, DequeueTopNode, NextIdleCore, Goto, inputs
<1> HIDE DEF p
<1>5. \/ core' = [core EXCEPT ![index] = entering]
      \/ core' = [core EXCEPT ![index] = entered]
  <2>1. CASE SwitchInDuration > 0
    <3>1. core' = [core EXCEPT ![index].state = "SWITCH_IN", ![index].node = p,
                               ![index].switchInTimer = SwitchInDuration]
      BY <2>1 DEF PutProcessOnCPU, p
    <3> QED BY <1>1, <3>1
  <2>2. CASE ~(SwitchInDuration > 0)
    <3>1. core' = [core EXCEPT ![index].state = "OCCUPIED", ![index].node = p,
                               ![index].quantumTime = 0]
      BY <2>2 DEF PutProcessOnCPU, p
    <3> QED BY <1>1, <3>1
  <2> QED BY <2>1, <2>2
<1>6. index \in Cores => /\ entering \in Core /\ entered \in Core
                        /\ entering.state = "SWITCH_IN" /\ entering.node = p
                        /\ entered.state = "OCCUPIED" /\ entered.node = p
  <2>1. SwitchInDuration \in Int
    BY DurationAssumption
  <2>2. ASSUME index \in Cores
        PROVE  core[index] \in Core /\ entering \in Core /\ entered \in Core
    BY <1>1, <1>3, <2>1, <2>2, CoreFields DEF CoreStates
  <2> QED BY <2>2 DEF Core
<1> HIDE DEF entering, entered
<1>7. core' \in [Cores -> Core]
  BY <1>1, <1>5, <1>6
<1>8. proc' \in [Procs -> Process]
  <2> DEFINE state == IF SwitchInDuration > 0 THEN "READY" ELSE "RUNNING"
  <2>1. state \in ProcessStates /\ proc' = [proc EXCEPT ![p].state = state]
    BY <1>4 DEF ProcessStates
  <2> HIDE DEF state
  <2>2. proc[p] \in Process
    BY <1>1, <1>3
  <2>3. [proc[p] EXCEPT !.state = state] \in Process
    BY <2>1, <2>2 DEF Process
  <2> QED BY <1>1, <2>1, <2>3
<1>9. readyQueues' \in [Queue -> Seq(Procs)] /\ stalePrev' \in SUBSET Procs
  BY <1>1, <1>3, <1>4 DEF StaleAfterDequeue
<1>10. TypeOK'
  BY <1>1, <1>4, <1>7, <1>8, <1>9 DEF TypeOK, Phases
<1>11. \A d \in Cores :
         \/ core'[d] = core[d]
         \/ core'[d].state \in {"SWITCH_IN", "OCCUPIED"} /\ core'[d].node \in Procs
  BY <1>1, <1>3, <1>5, <1>6
<1>12. IndexOK' /\ CoreOK'
  BY <1>4, <1>11, NullIsNoProcess DEF Inv, IndexOK, CoreOK
<1>13. InterruptHoldsDisk'
  BY <1>4, <1>11, NoNewInterrupt DEF Inv
<1> QED
  BY <1>10, <1>12, <1>13 DEF Inv

(* The head of the wait queue gets the disk.                               *)
LEMMA PutProcessOnDiskInv ==
  ASSUME Inv, PutProcessOnDisk
  PROVE  Inv'
<1> DEFINE p == TopNode(waitingQueue)
<1>1. TypeOK /\ waitingQueue \in Seq(Procs) /\ proc \in [Procs -> Process]
  BY DEF Inv, TypeOK
<1>2. waitingQueue # <<>> /\ ~Interrupted
  BY DEF PutProcessOnDisk, DiskAvailable
<1>3. p \in Procs /\ Tail(waitingQueue) \in Seq(Procs)
  BY <1>1, <1>2, TopAndNextNode, HeadTailProperties
<1>4. /\ waitingQueue' = Tail(waitingQueue)
      /\ disk' = [state |-> "DISK_RUNNING", node |-> p]
      /\ proc' = [proc EXCEPT ![p].state = "WAITING"]
      /\ phase' = "advanceProcesses" /\ index' = 0
      /\ UNCHANGED <<time, cursor, workload, algorithms, node, readyQueues, stalePrev>>
      /\ UNCHANGED <<sizesBeforeRR, core, stats, fault>>
  BY DEF PutProcessOnDisk, DequeueTopNode, Goto, inputs
<1> HIDE DEF p
<1>5. disk' \in Disk /\ disk'.node # NULL
  BY <1>3, <1>4, NullIsNoProcess DEF Disk, DiskStates
<1>6. proc' \in [Procs -> Process]
  <2>1. [proc[p] EXCEPT !.state = "WAITING"] \in Process
    BY <1>1, <1>3 DEF Process, ProcessStates
  <2> QED BY <1>1, <1>4, <2>1
<1>7. TypeOK'
  BY <1>1, <1>3, <1>4, <1>5, <1>6 DEF TypeOK, Phases
<1>8. IndexOK' /\ CoreOK'
  BY <1>4 DEF Inv, IndexOK, CoreOK
<1>9. InterruptHoldsDisk'
  BY <1>2, <1>4, <1>5 DEF InterruptHoldsDisk, Interrupted
<1> QED
  BY <1>7, <1>8, <1>9 DEF Inv

-----------------------------------------------------------------------------
(* The time advances *)

(* One time unit for the processes.                                        *)
LEMMA AdvanceProcessTimeInv ==
  ASSUME Inv, AdvanceProcessTime
  PROVE  Inv'
<1>1. TypeOK
  BY DEF Inv
<1>2. proc' \in [Procs -> Process]
  <2>1. ASSUME NEW p \in Procs
        PROVE  proc[p] \in Process /\ [proc[p] EXCEPT !.advancementTime = @ + 1] \in Process
    <3>1. proc[p] \in Process
      BY <1>1 DEF TypeOK
    <3> QED BY <3>1 DEF Process
  <2> QED BY <2>1 DEF AdvanceProcessTime
<1>3. stats' \in [Procs -> ProcessStats]
  <2>1. ASSUME NEW p \in Procs
        PROVE  /\ stats[p] \in ProcessStats
               /\ [stats[p] EXCEPT !.waitingTime = @ + 1] \in ProcessStats
               /\ [stats[p] EXCEPT !.cpuTime = @ + 1] \in ProcessStats
    <3>1. stats[p] \in ProcessStats
      BY <1>1 DEF TypeOK
    <3> QED BY <3>1 DEF ProcessStats
  <2> DEFINE counted(p) ==
        CASE proc[p].state = "READY" /\ workload[p].startTime <= time /\ InReadyQueues(p)
               -> [stats[p] EXCEPT !.waitingTime = @ + 1]
          [] proc[p].state = "RUNNING" -> [stats[p] EXCEPT !.cpuTime = @ + 1]
          [] OTHER -> stats[p]
  <2>2. stats' = [p \in Procs |-> counted(p)]
    BY DEF AdvanceProcessTime
  <2>3. ASSUME NEW p \in Procs PROVE counted(p) \in ProcessStats
    BY <2>1
  <2> HIDE DEF counted
  <2> QED BY <2>2, <2>3
<1>4. /\ fault' \in {"nullDisk", "none"}
      /\ phase' = "advanceScheduling" /\ index' = 0
      /\ UNCHANGED <<time, cursor, workload, algorithms, node, readyQueues, waitingQueue>>
      /\ UNCHANGED <<stalePrev, sizesBeforeRR, core, disk>>
  BY DEF AdvanceProcessTime, Goto, inputs, lists
<1>5. TypeOK'
  BY <1>1, <1>2, <1>3, <1>4 DEF TypeOK, Phases, Faults
<1>6. IndexOK' /\ CoreOK'
  BY <1>4 DEF Inv, IndexOK, CoreOK
<1>7. InterruptHoldsDisk'
  BY <1>4, NoNewInterrupt DEF Inv
<1> QED
  BY <1>5, <1>6, <1>7 DEF Inv

(* Advancing the timer of a core keeps its type, state and process.        *)
LEMMA AdvanceTimersType ==
  ASSUME TypeOK, NEW c \in Cores
  PROVE  /\ AdvanceTimers(c) \in Core
         /\ AdvanceTimers(c).state = core[c].state
         /\ AdvanceTimers(c).node = core[c].node
<1>1. core[c] \in Core
  BY DEF TypeOK
<1>2. core[c].state \in CoreStates
  BY <1>1 DEF Core
<1>3. CASE core[c].state = "OCCUPIED"
  <2>1. AdvanceTimers(c) = [core[c] EXCEPT !.quantumTime = @ + 1]
    BY <1>3 DEF AdvanceTimers
  <2> QED BY <1>1, <2>1 DEF Core
<1>4. CASE core[c].state = "SWITCH_IN"
  <2>1. AdvanceTimers(c) = [core[c] EXCEPT !.switchInTimer = @ - 1]
    BY <1>4 DEF AdvanceTimers
  <2> QED BY <1>1, <2>1 DEF Core
<1>5. CASE core[c].state = "SWITCH_OUT"
  <2>1. AdvanceTimers(c) = [core[c] EXCEPT !.switchOutTimer = @ - 1]
    BY <1>5 DEF AdvanceTimers
  <2> QED BY <1>1, <2>1 DEF Core
<1>6. CASE core[c].state = "INTERRUPTED"
  <2>1. AdvanceTimers(c) = [core[c] EXCEPT !.interruptTimer = @ - 1]
    BY <1>6 DEF AdvanceTimers
  <2> QED BY <1>1, <2>1 DEF Core
<1>7. CASE core[c].state = "IDLE"
  BY <1>1, <1>7 DEF AdvanceTimers
<1> QED
  BY <1>2, <1>3, <1>4, <1>5, <1>6, <1>7 DEF CoreStates

(* One time unit for the queues, the cores and the clock.                  *)
LEMMA AdvanceSchedulingTimeInv ==
  ASSUME Inv, AdvanceSchedulingTime
  PROVE  Inv'
<1>1. TypeOK
  BY DEF Inv
<1>2. node' \in [Procs -> Node]
  <2> DEFINE aged(p) ==
        [node[p] EXCEPT
           !.currentQueueWaitingTime = IF InReadyQueues(p) THEN @ + 1 ELSE @,
           !.currentQueueExecutionTime = IF Executes(p) THEN @ + 1 ELSE @]
  <2>1. node' = [p \in Procs |-> aged(p)]
    BY DEF AdvanceSchedulingTime
  <2>2. ASSUME NEW p \in Procs PROVE aged(p) \in Node
    <3> DEFINE waiting   == IF InReadyQueues(p) THEN node[p].currentQueueWaitingTime + 1
                            ELSE node[p].currentQueueWaitingTime
               execution == IF Executes(p) THEN node[p].currentQueueExecutionTime + 1
                            ELSE node[p].currentQueueExecutionTime
    <3>1. node[p] \in Node
      BY <1>1 DEF TypeOK
    <3>2. waiting \in Nat /\ execution \in Nat
      BY <3>1 DEF Node
    <3>3. aged(p) = [node[p] EXCEPT !.currentQueueWaitingTime = waiting,
                                    !.currentQueueExecutionTime = execution]
      BY <3>1 DEF Node
    <3> HIDE DEF waiting, execution, aged
    <3> QED BY <3>1, <3>2, <3>3 DEF Node
  <2> HIDE DEF aged
  <2> QED BY <2>1, <2>2
<1>3. core' = [c \in Cores |-> AdvanceTimers(c)]
  BY DEF AdvanceSchedulingTime
<1>4. core' \in [Cores -> Core]
  BY <1>1, <1>3, AdvanceTimersType
<1>5. \A c \in Cores : core'[c].state = core[c].state /\ core'[c].node = core[c].node
  BY <1>1, <1>3, AdvanceTimersType
<1>6. /\ time' = time + 1 /\ phase' \in {"free", "loop"} /\ index' = 0
      /\ UNCHANGED <<cursor, workload, algorithms, proc, readyQueues, waitingQueue>>
      /\ UNCHANGED <<stalePrev, sizesBeforeRR, disk, stats, fault>>
  BY DEF AdvanceSchedulingTime, Goto, inputs, lists
<1>7. TypeOK'
  BY <1>1, <1>2, <1>4, <1>6 DEF TypeOK, Phases
<1>8. IndexOK' /\ CoreOK'
  BY <1>5, <1>6 DEF Inv, IndexOK, CoreOK
<1>9. InterruptHoldsDisk'
  BY <1>5, <1>6, NoNewInterrupt DEF Inv
<1> QED
  BY <1>7, <1>8, <1>9 DEF Inv

(* freeComputer only looks where the nodes are.                            *)
LEMMA FreeComputerInv ==
  ASSUME Inv, FreeComputer
  PROVE  Inv'
<1>1. /\ fault' \in {"freed", "none"} /\ phase' = "done" /\ index' = 0
      /\ UNCHANGED <<time, cursor, workload, algorithms, proc, node, readyQueues>>
      /\ UNCHANGED <<waitingQueue, stalePrev, sizesBeforeRR, core, disk, stats>>
  BY DEF FreeComputer, Goto, inputs, lists
<1>2. TypeOK'
  BY <1>1 DEF Inv, TypeOK, Phases, Faults
<1>3. IndexOK' /\ CoreOK'
  BY <1>1 DEF Inv, IndexOK, CoreOK
<1>4. InterruptHoldsDisk'
  BY <1>1, NoNewInterrupt DEF Inv
<1> QED
  BY <1>2, <1>3, <1>4 DEF Inv

-----------------------------------------------------------------------------
(* Nothing happens.                                                        *)
LEMMA StutterInv ==
  ASSUME Inv, UNCHANGED vars
  PROVE  Inv'
<1>1. /\ UNCHANGED <<time, phase, index, cursor, system>>
  BY DEF vars
<1>2. UNCHANGED core
  BY <1>1, SystemUnchanged
<1>3. IndexOK'
  BY <1>1, <1>2 DEF Inv, IndexOK
<1> QED
  BY <1>1, <1>3, GoOn DEF Inv, TypeOK

(* Every step of the program keeps the invariant.                          *)
LEMMA NextInv ==
  ASSUME Inv, [Next]_vars
  PROVE  Inv'
<1>1. CASE \/ StartTick \/ EndOfWorkload \/ ArrivalsDone \/ AgingNextQueue
           \/ AgingDone \/ AgingKeep \/ NoProcess \/ NoEvent \/ WithinLimit
           \/ KeepRunning \/ NoResume \/ SliceContinues \/ NoInterrupt
           \/ SkipCore \/ SkipDisk
  BY <1>1, GoOnInv
<1>2. CASE \E p \in Procs : ProcessArrived(p)
  BY <1>2, ProcessArrivedInv
<1>3. CASE AgingMove
  BY <1>3, AgingMoveInv
<1>4. CASE SwitchInDone
  BY <1>4, SwitchInDoneInv
<1>5. CASE SwitchOutDone
  BY <1>5, SwitchOutDoneInv
<1>6. CASE Terminate
  BY <1>6, TerminateInv
<1>7. CASE StartIO
  BY <1>7, StartIOInv
<1>8. CASE Demote
  BY <1>8, DemoteInv
<1>9. CASE Preempt
  BY <1>9, PreemptInv
<1>10. CASE Resume
  BY <1>10, ResumeInv
<1>11. CASE QueuesSizesBeforeRR
  BY <1>11, QueuesSizesBeforeRRInv
<1>12. CASE SwitchOutAfterSlice
  BY <1>12, SwitchOutAfterSliceInv
<1>13. CASE NewSlice
  BY <1>13, NewSliceInv
<1>14. CASE \E c \in Cores : InterruptCore(c)
  BY <1>14, InterruptCoreInv
<1>15. CASE NoInterruptTime
  BY <1>15, NoInterruptTimeInv
<1>16. CASE \E q \in Queue : PutProcessOnCPU(q)
  BY <1>16, PutProcessOnCPUInv
<1>17. CASE PutProcessOnDisk
  BY <1>17, PutProcessOnDiskInv
<1>18. CASE AdvanceProcessTime
  BY <1>18, AdvanceProcessTimeInv
<1>19. CASE AdvanceSchedulingTime
  BY <1>19, AdvanceSchedulingTimeInv
<1>20. CASE FreeComputer
  BY <1>20, FreeComputerInv
<1>21. CASE Stop \/ UNCHANGED vars
  BY <1>21, StutterInv DEF Stop
<1> QED
  BY <1>1, <1>2, <1>3, <1>4, <1>5, <1>6, <1>7, <1>8, <1>9, <1>10, <1>11, <1>12, <1>13,
     <1>14, <1>15, <1>16, <1>17, <1>18, <1>19, <1>20, <1>21 DEF Next

\* The executions, whether or not they go on: safety needs no fairness.
StepSpec == Init /\ [][Next]_vars

LEMMA StepInvariance ==
  StepSpec => []Inv
<1>1. Init => Inv
  BY InitInv
<1>2. Inv /\ [Next]_vars => Inv'
  BY NextInv
<1> QED
  BY <1>1, <1>2, PTL DEF StepSpec

(* The inductive invariant holds in every state the program reaches.       *)
THEOREM Invariance ==
  Spec => []Inv
BY StepInvariance, PTL DEF Spec, StepSpec

(* Whatever the input file, the options and the core an interrupt picks,   *)
(* the PCBs, nodes, cores, lists and statistics keep the fields their      *)
(* structs declare: no counter that is only compared with 0 or counted up  *)
(* becomes negative, and no loop counter leaves its range.                 *)
THEOREM TypeCorrect ==
  Spec => []TypeOK
<1>1. Inv => TypeOK
  BY DEF Inv
<1> QED
  BY <1>1, Invariance, PTL

(* For any number of cores, handleInterrupt never starts a second          *)
(* interrupt, and from its start to its end the disk is idle and still     *)
(* holds the process whose operation is over: the disk->processNode that   *)
(* schedulingLogic.c:385 hands back is never NULL.                         *)
THEOREM InterruptExclusive ==
  Spec => []InterruptHoldsDisk
<1>1. Inv => InterruptHoldsDisk
  BY DEF Inv
<1> QED
  BY <1>1, Invariance, PTL
=============================================================================
