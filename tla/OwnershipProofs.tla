-------------------------- MODULE OwnershipProofs --------------------------
(***************************************************************************)
(* Where the processes are: no node is lost or duplicated, no burst is     *)
(* overrun, and no pointer that may be NULL is followed, for any number of *)
(* processes, cores and queues, all options and durations, and all input   *)
(* files like those of test_files (GoodInputs).                            *)
(*                                                                         *)
(* A process leaves its core for the disk when its CPU burst is over and   *)
(* waits there while the core still switches it out, so it is in two       *)
(* places at once.  That this ends well is a matter of time: its I/O burst *)
(* lasts at least as long as the switch-out.  The invariant Kept therefore *)
(* says of each process where it is and how much time its burst has left,  *)
(* of each timer how long it still runs, and of each handler what the      *)
(* handlers before it have established in this time unit.                  *)
(*                                                                         *)
(* Two faults remain possible on such inputs: a queue number out of range  *)
(* (--limit on the last queue, --age on the first) and a stale prev        *)
(* pointer.  The invariant holds up to the step that meets one of them.    *)
(*                                                                         *)
(* First, for all inputs: no core and no disk is idle while a process      *)
(* waits for it.                                                           *)
(***************************************************************************)
EXTENDS SchedulerProperties, CpuSchedulerProofs, FiniteSetTheorems

-----------------------------------------------------------------------------
(* Work conservation *)

QueuesEmpty == \A q \in Queue : readyQueues[q] = <<>>

\* What assignProcessesToResources has established: about the cores below
\* `index` during its loop, about all cores behind it, about the disk at its end.
AssignedOK ==
  /\ phase = "assignCores" =>
       \A c \in Cores : c < index /\ core[c].state = "IDLE" => QueuesEmpty
  /\ phase \in {"assignDisk", "advanceProcesses"} =>
       \A c \in Cores : core[c].state = "IDLE" => QueuesEmpty
  /\ phase = "advanceProcesses" =>
       (disk.state = "DISK_IDLE" /\ waitingQueue # <<>> => Interrupted)

-----------------------------------------------------------------------------
(* The last queue is the last one asked: a core is assignable exactly when *)
(* it is idle and some queue holds a process.                              *)
LEMMA AssignableIffReady ==
  ASSUME NEW c
  PROVE  Assignable(c) <=> core[c].state = "IDLE" /\ ~QueuesEmpty
<1>1. \A r \in Queue : r <= QueueCount - 1
  BY SizeAssumption DEF Queue
<1> QED
  BY <1>1 DEF Assignable, OtherProcessInReadyQueue, QueuesEmpty

(* The loop over the cores ends behind the last one.                       *)
LEMMA LastCore ==
  ASSUME index \in Nat, NextIdleCore
  PROVE  \/ phase' = "assignCores" /\ index' = index + 1
         \/ phase' = "assignDisk" /\ \A c \in Cores : c <= index
BY SizeAssumption DEF NextIdleCore, Goto, Cores

(* A core that gets no process is busy, or there is none to get.           *)
LEMMA SkipCoreAssigned ==
  ASSUME TypeOK, AssignedOK, SkipCore
  PROVE  AssignedOK'
<1>1. phase = "assignCores" /\ ~Assignable(index) /\ NextIdleCore /\ index \in Nat
  BY DEF SkipCore, At, TypeOK
<1>2. UNCHANGED <<core, readyQueues, disk, waitingQueue>>
  BY SystemUnchanged DEF SkipCore
<1>3. ASSUME NEW c \in Cores, c <= index, core[c].state = "IDLE"
      PROVE  QueuesEmpty
  <2>1. CASE c = index
    BY <1>1, <1>3, <2>1, AssignableIffReady
  <2>2. CASE c < index
    BY <1>1, <1>3, <2>2 DEF AssignedOK
  <2> QED BY <1>1, <1>3, <2>1, <2>2 DEF Cores
<1>4. QueuesEmpty' <=> QueuesEmpty
  BY <1>2 DEF QueuesEmpty
<1>5. CASE phase' = "assignCores" /\ index' = index + 1
  <2>1. \A c \in Cores : c < index' => c <= index
    BY <1>1, <1>5 DEF Cores
  <2> QED BY <1>2, <1>3, <1>4, <1>5, <2>1 DEF AssignedOK
<1>6. CASE phase' = "assignDisk" /\ \A c \in Cores : c <= index
  BY <1>2, <1>3, <1>4, <1>6 DEF AssignedOK
<1> QED
  BY <1>1, <1>5, <1>6, LastCore

(* While a process can be assigned, no core passed by is idle.             *)
LEMMA PutProcessOnCPUAssigned ==
  ASSUME TypeOK, AssignedOK, NEW q \in Queue, PutProcessOnCPU(q)
  PROVE  AssignedOK'
<1>1. /\ phase = "assignCores" /\ Assignable(index) /\ NextIdleCore /\ index \in Nat
      /\ core \in [Cores -> Core]
  BY DEF PutProcessOnCPU, At, TypeOK
<1>2. ~QueuesEmpty
  BY <1>1, AssignableIffReady
<1>3. /\ \A c \in Cores : c # index => core'[c] = core[c]
      /\ \A c \in Cores : c = index => core'[c].state # "IDLE"
  <2>1. CASE SwitchInDuration > 0
    <3>1. core' = [core EXCEPT ![index].state = "SWITCH_IN",
                               ![index].node = TopNode(readyQueues[q]),
                               ![index].switchInTimer = SwitchInDuration]
      BY <2>1 DEF PutProcessOnCPU
    <3> QED BY <1>1, <3>1 DEF Core
  <2>2. CASE ~(SwitchInDuration > 0)
    <3>1. core' = [core EXCEPT ![index].state = "OCCUPIED",
                               ![index].node = TopNode(readyQueues[q]),
                               ![index].quantumTime = 0]
      BY <2>2 DEF PutProcessOnCPU
    <3> QED BY <1>1, <3>1 DEF Core
  <2> QED BY <2>1, <2>2
<1>4. ASSUME NEW c \in Cores, c <= index
      PROVE  core'[c].state # "IDLE"
  <2>1. CASE c = index
    BY <1>3, <2>1
  <2>2. CASE c < index
    BY <1>1, <1>2, <1>3, <2>2 DEF AssignedOK
  <2> QED BY <1>1, <1>4, <2>1, <2>2 DEF Cores
<1>5. CASE phase' = "assignCores" /\ index' = index + 1
  <2>1. \A c \in Cores : c < index' => c <= index
    BY <1>1, <1>5 DEF Cores
  <2> QED BY <1>4, <1>5, <2>1 DEF AssignedOK
<1>6. CASE phase' = "assignDisk" /\ \A c \in Cores : c <= index
  BY <1>4, <1>6 DEF AssignedOK
<1> QED
  BY <1>1, <1>5, <1>6, LastCore

(* The disk gets a process, or there is a reason why not.                  *)
LEMMA DiskAssigned ==
  ASSUME AssignedOK, SkipDisk \/ PutProcessOnDisk
  PROVE  AssignedOK'
<1>1. phase = "assignDisk" /\ phase' = "advanceProcesses"
  BY DEF SkipDisk, PutProcessOnDisk, At, Goto
<1>2. UNCHANGED <<core, readyQueues>>
  BY SystemUnchanged DEF SkipDisk, PutProcessOnDisk
<1>3. QueuesEmpty' <=> QueuesEmpty
  BY <1>2 DEF QueuesEmpty
<1>4. (disk.state = "DISK_IDLE" /\ waitingQueue # <<>> => Interrupted)'
  <2>1. CASE SkipDisk
    <3>1. UNCHANGED <<core, disk, waitingQueue>> /\ ~DiskAvailable
      BY <2>1, SystemUnchanged DEF SkipDisk
    <3> QED BY <3>1 DEF DiskAvailable, Interrupted
  <2>2. CASE PutProcessOnDisk
    BY <2>2 DEF PutProcessOnDisk
  <2> QED BY <2>1, <2>2
<1> QED
  BY <1>1, <1>2, <1>3, <1>4 DEF AssignedOK

(* The other handlers run before the assignment or after it.               *)
LEMMA OtherwiseAssigned ==
  ASSUME AssignedOK,
         Next \/ UNCHANGED vars,
         ~SkipCore, \A q \in Queue : ~PutProcessOnCPU(q), ~SkipDisk, ~PutProcessOnDisk
  PROVE  AssignedOK'
<1>1. CASE UNCHANGED vars
  <2>1. UNCHANGED <<phase, index, core, readyQueues, disk, waitingQueue>>
    BY <1>1, SystemUnchanged DEF vars
  <2> QED BY <2>1 DEF AssignedOK, QueuesEmpty, Interrupted
<1>2. CASE Stop
  BY <1>1, <1>2 DEF Stop
<1>3. CASE NoInterrupt \/ (\E c \in Cores : InterruptCore(c)) \/ NoInterruptTime
  <2>1. phase' = "assignCores" /\ index' = 0
    BY <1>3 DEF NoInterrupt, InterruptCore, NoInterruptTime, Goto
  <2> QED BY <2>1 DEF AssignedOK, Cores
<1>4. CASE ~Stop /\ ~NoInterrupt /\ ~NoInterruptTime /\ (\A c \in Cores : ~InterruptCore(c)) /\ Next
  <2>1. phase' \notin {"assignCores", "assignDisk", "advanceProcesses"}
    BY <1>4 DEF Next, At, Goto, NextCore, PreviousCore, StartTick, EndOfWorkload,
       ProcessArrived, ArrivalsDone, AgingNextQueue, AgingDone, AgingKeep, AgingMove,
       NoProcess, SwitchInDone, SwitchOutDone, Terminate, StartIO, NoEvent, WithinLimit,
       Demote, Preempt, KeepRunning, Resume, NoResume, QueuesSizesBeforeRR,
       SliceContinues, SwitchOutAfterSlice, NewSlice, AdvanceProcessTime,
       AdvanceSchedulingTime, FreeComputer
  <2> QED BY <2>1 DEF AssignedOK
<1> QED
  BY <1>1, <1>2, <1>3, <1>4

(* Work conservation, for any number of cores and queues and all options:  *)
(* when the time advances no core is idle while a process is ready, and    *)
(* the disk is idle with somebody waiting only during an interrupt.        *)
THEOREM WorkConservation ==
  Spec => []NoIdleResource
<1>1. Init => AssignedOK
  BY DEF Init, AssignedOK
<1>2. TypeOK /\ AssignedOK /\ [Next]_vars => AssignedOK'
  BY SkipCoreAssigned, PutProcessOnCPUAssigned, DiskAssigned, OtherwiseAssigned
<1>3. AssignedOK => NoIdleResource
  BY DEF AssignedOK, NoIdleResource, QueuesEmpty
<1> QED
  BY <1>1, <1>2, <1>3, TypeCorrect, PTL DEF Spec

-----------------------------------------------------------------------------
(* The state, as far as the argument needs it *)

InQueues(rq) == {p \in Procs : \E q \in Queue : ProcessInQueue(rq[q], p)}

Ready   == InQueues(readyQueues)
Waiting == {p \in Procs : ProcessInQueue(waitingQueue, p)}
Leaving == {c \in Cores : LeavesForIO(c)}
Left    == [p \in Procs |-> CurEventTimeLeft(p)]

\* The processes in an I/O burst, and those in a CPU burst.
InIO  == {p \in Procs : p \in Waiting \/ disk.node = p}
InCPU == Ready \cup {p \in Procs : \E c \in Cores \ Leaving : core[c].node = p}

\* The event of core c has been handled in this time unit.
Handled(c) ==
  \/ phase = "event" /\ c < index
  \/ phase \in {"limit", "preempt", "resume"} /\ c <= index
  \/ phase \in {"sizes", "slice", "interrupt", "assignCores", "assignDisk",
                "advanceProcesses", "advanceScheduling"}

-----------------------------------------------------------------------------
(* The invariant *)

DistinctReady(rq) ==
  \A q, r \in Queue : \A i \in 1..Len(rq[q]), j \in 1..Len(rq[r]) :
    rq[q][i] = rq[r][j] => q = r /\ i = j

DistinctWaiting(s) == \A i, j \in 1..Len(s) : s[i] = s[j] => i = j

Exclusive ==
  /\ Ready \cap Waiting = {}
  /\ disk.node \notin Ready /\ disk.node \notin Waiting
  /\ \A c \in Cores : core[c].node \notin Ready
  /\ \A c \in Cores : core[c].node \in Procs => (c \in Leaving <=> core[c].node \in InIO)
  /\ \A c, d \in Cores : core[c].node = core[d].node => c = d \/ core[c].node = NULL

Timers ==
  \A c \in Cores :
    /\ core[c].switchInTimer >= 0 /\ core[c].switchOutTimer >= 0
    /\ core[c].switchInTimer = 0 \/ core[c].switchOutTimer = 0
    /\ core[c].state = "IDLE" => core[c].node = NULL
    /\ core[c].node = NULL \/ core[c].state = "OCCUPIED" =>
         core[c].switchInTimer = 0 /\ core[c].switchOutTimer = 0
    /\ core[c].state = "SWITCH_IN" => core[c].switchOutTimer = 0
    /\ core[c].state = "SWITCH_OUT" => core[c].switchInTimer = 0

Bursts ==
  \A p \in Procs :
    /\ GoodEvents(proc[p].nextEvents, workload[p].processDuration)
    /\ p \in InIO => proc[p].nextEvents # <<>> /\ proc[p].nextEvents[1].type = "CPU"
    /\ p \in InCPU /\ proc[p].nextEvents # <<>> => proc[p].nextEvents[1].type = "IO"
    /\ proc[p].state = "TERMINATED" =>
         proc[p].nextEvents = <<>> /\ proc[p].advancementTime = workload[p].processDuration

States ==
  /\ RunningOnOccupiedCore
  /\ \A p \in Procs : proc[p].state = "WAITING" => p \in InIO

InTime ==
  /\ \A p \in Ready \cup Waiting : Left[p] >= 1
  /\ \A c \in Cores \ Leaving : core[c].node \in Procs =>
       Left[core[c].node] >= IF core[c].state = "OCCUPIED" THEN 0 ELSE 1
  /\ disk.node \in Procs => Left[disk.node] >= 0
  /\ disk.node \in Procs /\ disk.state = "DISK_IDLE" =>
       /\ Interrupted /\ Left[disk.node] = 0
       /\ \A c \in Cores : core[c].node # disk.node

\* What the handlers of the time unit have established so far.
Alive ==
  /\ \A p \in Procs : Living(p) <=> p \in InIO \cup InCPU
  /\ \A p \in Procs : ~Arrived(p) =>
       proc[p] = [state |-> "READY", nextEvents |-> workload[p].events, advancementTime |-> 0]

HandledInTime ==
  \A c \in Cores : Handled(c) =>
    /\ core[c].state = "SWITCH_IN" => core[c].switchInTimer >= 1
    /\ core[c].state = "SWITCH_OUT" => core[c].switchOutTimer >= 1
    /\ core[c].state = "OCCUPIED" /\ phase # "advanceScheduling" => Left[core[c].node] >= 1

SwitchedOutInTime ==
  \A c \in Leaving :
    Left[core[c].node] >=
      core[c].switchOutTimer
        - (IF phase = "advanceScheduling" /\ core[c].state = "SWITCH_OUT" THEN 1 ELSE 0)

DiskInTime ==
  phase \in {"assignCores", "assignDisk", "advanceProcesses"} /\ disk.state = "DISK_RUNNING" =>
    Left[disk.node] >= 1

Owned ==
  /\ DistinctReady(readyQueues) /\ DistinctWaiting(waitingQueue)
  /\ Exclusive /\ Timers /\ Bursts /\ States /\ InTime
  /\ Alive /\ HandledInTime /\ SwitchedOutInTime /\ DiskInTime

OkFaults == phase # "done" => fault \in {"none", "queueIndex", "stalePrev"}

\* What every step keeps.  A fault ends the run.
Kept ==
  /\ OkFaults /\ RunningOnOccupiedCore
  /\ fault = "none" => Owned

-----------------------------------------------------------------------------
(* The views of the state *)

(* What is left to the next event is a number.                             *)
LEMMA LeftIsInt ==
  ASSUME TypeOK
  PROVE  Left \in [Procs -> Int]
<1>1. ASSUME NEW p \in Procs PROVE CurEventTimeLeft(p) \in Int
  BY TimeLeftIsInt DEF CurEventTimeLeft, TypeOK, Process
<1> QED
  BY <1>1 DEF Left

LEMMA LeftOf ==
  ASSUME NEW p \in Procs
  PROVE  /\ Left[p] = CurEventTimeLeft(p)
         /\ UNCHANGED workload /\ proc'[p] = proc[p] => Left'[p] = Left[p]
BY DEF Left, CurEventTimeLeft, TimeLeft

(* The events of p are now t, and it has not advanced.                     *)
LEMMA LeftAfter ==
  ASSUME NEW p \in Procs, NEW t, UNCHANGED workload, proc'[p].nextEvents = t,
         proc'[p].advancementTime = proc[p].advancementTime
  PROVE  Left'[p] = TimeLeft(p, t)
BY DEF Left, CurEventTimeLeft, TimeLeft

(* Nothing moves: all views are what they were.                            *)
LEMMA ViewsUnchanged ==
  /\ UNCHANGED readyQueues => UNCHANGED Ready
  /\ UNCHANGED waitingQueue => UNCHANGED Waiting
  /\ UNCHANGED core => UNCHANGED Leaving
  /\ UNCHANGED <<workload, proc>> => UNCHANGED Left
  /\ UNCHANGED <<Waiting, disk>> => UNCHANGED InIO
  /\ UNCHANGED <<Ready, core, Leaving>> => UNCHANGED InCPU
  /\ UNCHANGED core => UNCHANGED Interrupted
<1>1. UNCHANGED readyQueues => UNCHANGED Ready
  BY DEF Ready, InQueues
<1>2. UNCHANGED waitingQueue => UNCHANGED Waiting
  BY DEF Waiting
<1>3. UNCHANGED core => UNCHANGED Leaving
  BY DEF Leaving, LeavesForIO
<1>4. UNCHANGED <<workload, proc>> => UNCHANGED Left
  BY DEF Left, CurEventTimeLeft, TimeLeft
<1>5. UNCHANGED <<Waiting, disk>> => UNCHANGED InIO
  BY DEF InIO
<1>6. UNCHANGED <<Ready, core, Leaving>> => UNCHANGED InCPU
  BY DEF InCPU
<1>7. UNCHANGED core => UNCHANGED Interrupted
  BY DEF Interrupted
<1> QED
  BY <1>1, <1>2, <1>3, <1>4, <1>5, <1>6, <1>7

\* A core keeps its process, its state and the timers of a context switch.
CoreKept(c) ==
  /\ core'[c].node = core[c].node /\ core'[c].state = core[c].state
  /\ core'[c].switchInTimer = core[c].switchInTimer
  /\ core'[c].switchOutTimer = core[c].switchOutTimer
  /\ core'[c].continueOnCPU = core[c].continueOnCPU

LEMMA CoresKept ==
  ASSUME \A c \in Cores : CoreKept(c)
  PROVE  /\ UNCHANGED Leaving
         /\ UNCHANGED Interrupted
         /\ UNCHANGED Ready => UNCHANGED InCPU
<1>1. UNCHANGED Leaving
  BY DEF Leaving, LeavesForIO, CoreKept
<1>2. UNCHANGED Interrupted
  BY DEF Interrupted, CoreKept
<1>3. UNCHANGED Ready => UNCHANGED InCPU
  BY <1>1 DEF InCPU, CoreKept
<1> QED
  BY <1>1, <1>2, <1>3

(* No process changes its burst, or its place.                             *)
LEMMA BurstsKept ==
  ASSUME Bursts, UNCHANGED <<workload, InIO, InCPU>>,
         \A p \in Procs : proc'[p].nextEvents = proc[p].nextEvents,
         \A p \in Procs : proc'[p].state = "TERMINATED" => proc'[p] = proc[p]
  PROVE  Bursts'
<1>1. SUFFICES ASSUME NEW p \in Procs
      PROVE  /\ GoodEvents(proc'[p].nextEvents, workload'[p].processDuration)
             /\ p \in InIO' => proc'[p].nextEvents # <<>> /\ proc'[p].nextEvents[1].type = "CPU"
             /\ p \in InCPU' /\ proc'[p].nextEvents # <<>> => proc'[p].nextEvents[1].type = "IO"
             /\ proc'[p].state = "TERMINATED" =>
                  /\ proc'[p].nextEvents = <<>>
                  /\ proc'[p].advancementTime = workload'[p].processDuration
  BY DEF Bursts
<1>2. proc'[p].nextEvents = proc[p].nextEvents /\ workload' = workload
  OBVIOUS
<1>3. GoodEvents(proc[p].nextEvents, workload[p].processDuration)
  BY DEF Bursts
<1>4. GoodEvents(proc'[p].nextEvents, workload'[p].processDuration)
  BY <1>2, <1>3
<1>5. /\ p \in InIO => proc[p].nextEvents # <<>> /\ proc[p].nextEvents[1].type = "CPU"
      /\ p \in InCPU /\ proc[p].nextEvents # <<>> => proc[p].nextEvents[1].type = "IO"
  BY DEF Bursts
<1>6. proc'[p].state = "TERMINATED" =>
        /\ proc[p].nextEvents = <<>>
        /\ proc'[p].advancementTime = workload[p].processDuration
  BY DEF Bursts
<1> QED
  BY <1>2, <1>4, <1>5, <1>6

(* The cores keep their processes.                                         *)
LEMMA ExclusiveKept ==
  ASSUME Exclusive, UNCHANGED <<Ready, Waiting, Leaving, InIO, disk>>,
         \A c \in Cores : core'[c].node = core[c].node
  PROVE  Exclusive'
BY DEF Exclusive

(* A handler that moves no process keeps the invariant if what it has      *)
(* found out about the cores and the disk is true.                         *)
LEMMA GoOnOwned ==
  ASSUME Owned, UNCHANGED <<workload, proc, waitingQueue, disk>>,
         UNCHANGED Ready, DistinctReady(readyQueues)',
         \A c \in Cores : CoreKept(c),
         \A p \in Procs : Arrived(p)' <=> Arrived(p),
         phase # "advanceScheduling", phase' # "advanceScheduling",
         \A c \in Cores : Handled(c)' => 
           \/ Handled(c)
           \/ /\ core[c].state = "SWITCH_IN" => core[c].switchInTimer >= 1
              /\ core[c].state = "SWITCH_OUT" => core[c].switchOutTimer >= 1
              /\ core[c].state = "OCCUPIED" => Left[core[c].node] >= 1,
         /\ phase' \in {"assignCores", "assignDisk", "advanceProcesses"}
         /\ disk.state = "DISK_RUNNING"
         => Left[disk.node] >= 1 \/ phase \in {"assignCores", "assignDisk", "advanceProcesses"}
  PROVE  Owned'
<1>1. UNCHANGED <<Ready, Waiting, Leaving, Left, InIO, InCPU, Interrupted>>
  BY ViewsUnchanged, CoresKept
<1>2. DistinctReady(readyQueues)' /\ DistinctWaiting(waitingQueue)'
  BY DEF Owned
<1>3. Exclusive'
  BY <1>1 DEF Owned, Exclusive, CoreKept
<1>4. Timers'
  BY DEF Owned, Timers, CoreKept
<1>5. Bursts'
  BY <1>1 DEF Owned, Bursts
<1>6. States'
  BY <1>1 DEF Owned, States, RunningOnOccupiedCore, CoreKept
<1>7. InTime'
  BY <1>1 DEF Owned, InTime, CoreKept
<1>8. Alive'
  BY <1>1 DEF Owned, Alive, Living
<1>9. HandledInTime'
  BY <1>1 DEF Owned, HandledInTime, CoreKept
<1>10. SwitchedOutInTime'
  <2>1. \A c \in Leaving : c \in Cores
    BY DEF Leaving
  <2> QED BY <1>1, <2>1 DEF Owned, SwitchedOutInTime, CoreKept
<1>11. DiskInTime'
  BY <1>1 DEF Owned, DiskInTime
<1> QED
  BY <1>2, <1>3, <1>4, <1>5, <1>6, <1>7, <1>8, <1>9, <1>10, <1>11 DEF Owned

-----------------------------------------------------------------------------
(* The ready queues *)

(* Who is in the ready queues.                                             *)
LEMMA InQueuesElements ==
  ASSUME NEW rq \in [Queue -> Seq(Procs)]
  PROVE  \A x : x \in InQueues(rq) <=> \E r \in Queue : \E j \in 1..Len(rq[r]) : rq[r][j] = x
<1>1. \A r \in Queue : rq[r] \in Seq(Procs) /\ DOMAIN rq[r] = 1..Len(rq[r])
  OBVIOUS
<1> QED
  BY <1>1 DEF InQueues, ProcessInQueue

(* Linking a node that is in no ready queue.                               *)
LEMMA InsertedInQueues ==
  ASSUME NEW rq \in [Queue -> Seq(Procs)], DistinctReady(rq),
         NEW p \in Procs, p \notin InQueues(rq),
         NEW q \in Queue, NEW k \in 1..(Len(rq[q]) + 1)
  PROVE  LET new == [rq EXCEPT ![q] = InsertAt(@, k, p)]
         IN InQueues(new) = InQueues(rq) \cup {p} /\ DistinctReady(new)
<1> DEFINE new == [rq EXCEPT ![q] = InsertAt(@, k, p)]
<1>1. /\ rq[q] \in Seq(Procs) /\ Len(rq[q]) \in Nat
      /\ \A r \in Queue : r # q => new[r] = rq[r]
      /\ new[q] = InsertAt(rq[q], k, p)
  OBVIOUS
<1>2. /\ InsertAt(rq[q], k, p) \in Seq(Procs) /\ Len(new[q]) = Len(rq[q]) + 1
      /\ \A j \in 1..(Len(rq[q]) + 1) :
           new[q][j] = IF j < k THEN rq[q][j] ELSE IF j = k THEN p ELSE rq[q][j - 1]
  BY <1>1, InsertAtIsSeq, InsertAtElements
<1> HIDE DEF new
<1>3. \A r \in Queue : rq[r] \in Seq(Procs) /\ new[r] \in Seq(Procs)
  BY <1>1, <1>2
<1>0. /\ \A x : x \in InQueues(rq) <=> \E r \in Queue : \E j \in 1..Len(rq[r]) : rq[r][j] = x
      /\ \A x : x \in InQueues(new) <=> \E r \in Queue : \E j \in 1..Len(new[r]) : new[r][j] = x
  <2>1. new \in [Queue -> Seq(Procs)]
    BY <1>2 DEF new
  <2> QED BY <2>1, InQueuesElements
<1>4. \A r \in Queue : \A j \in 1..Len(rq[r]) : rq[r][j] # p
  BY <1>0
<1> DEFINE old(r, j) == IF r = q /\ j > k THEN j - 1 ELSE j
<1>5. \A r \in Queue : \A j \in 1..Len(new[r]) :
        \/ r = q /\ j = k
        \/ old(r, j) \in 1..Len(rq[r]) /\ new[r][j] = rq[r][old(r, j)]
  BY <1>1, <1>2
<1>6. DistinctReady(new)
  <2>1. SUFFICES ASSUME NEW r \in Queue, NEW s \in Queue, NEW i \in 1..Len(new[r]),
                        NEW j \in 1..Len(new[s]), new[r][i] = new[s][j]
                 PROVE  r = s /\ i = j
    BY DEF DistinctReady
  <2>2. ASSUME NEW u \in Queue, NEW h \in 1..Len(new[u])
        PROVE  new[u][h] = p <=> u = q /\ h = k
    <3> HIDE DEF old
    <3>1. new[q][k] = p
      BY <1>2
    <3> QED BY ZenonT(40), <1>4, <1>5, <3>1
  <2>3. CASE new[r][i] = p
    BY <2>1, <2>2, <2>3
  <2>4. CASE new[r][i] # p
    <3>1. ~(r = q /\ i = k) /\ ~(s = q /\ j = k)
      BY <2>1, <2>2, <2>4
    <3>2. /\ old(r, i) \in 1..Len(rq[r]) /\ old(s, j) \in 1..Len(rq[s])
          /\ rq[r][old(r, i)] = rq[s][old(s, j)]
      <4> HIDE DEF old
      <4> QED BY <1>5, <2>1, <3>1
    <3>3. r = s /\ old(r, i) = old(s, j)
      <4> HIDE DEF old
      <4> QED BY <3>2 DEF DistinctReady
    <3> QED BY <3>1, <3>3
  <2> QED BY <2>3, <2>4
<1>7. InQueues(new) \subseteq InQueues(rq) \cup {p}
  <2>1. new[q][k] = p
    BY <1>2
  <2> QED BY <1>0, <1>5, <2>1
<1>8. p \in InQueues(new)
  <2>1. k \in 1..Len(new[q]) /\ new[q][k] = p
    <3>1. k \in 1..(Len(rq[q]) + 1) /\ ~(k < k)
      BY <1>1
    <3> QED BY <1>2, <3>1
  <2> QED BY <1>0, <2>1
<1>9. ASSUME NEW x \in InQueues(rq) PROVE x \in InQueues(new)
  <2>1. PICK r \in Queue : \E j \in 1..Len(rq[r]) : rq[r][j] = x
    BY <1>0, <1>9
  <2>2. PICK j \in 1..Len(rq[r]) : rq[r][j] = x
    BY <2>1
  <2> DEFINE i == IF r = q /\ j >= k THEN j + 1 ELSE j
  <2>3. i \in 1..Len(new[r]) /\ new[r][i] = x
    <3>1. CASE r # q
      BY <1>1, <2>2, <3>1
    <3>2. CASE r = q /\ j < k
      BY <1>1, <1>2, <2>2, <3>2
    <3>3. CASE r = q /\ j >= k
      <4>1. j + 1 \in 1..(Len(rq[q]) + 1) /\ ~(j + 1 < k) /\ j + 1 # k /\ (j + 1) - 1 = j
        BY <1>1, <3>3
      <4> QED BY <1>1, <1>2, <2>2, <3>3, <4>1
    <3> QED BY <1>1, <3>1, <3>2, <3>3
  <2> QED BY <1>0, <2>3
<1> QED
  BY <1>6, <1>7, <1>8, <1>9 DEF new

(* Unlinking a node, wherever it is.                                       *)
LEMMA RemovedFromQueues ==
  ASSUME NEW rq \in [Queue -> Seq(Procs)], DistinctReady(rq), NEW q \in Queue,
         NEW k \in 1..Len(rq[q]), NEW t \in Seq(Procs), Len(t) = Len(rq[q]) - 1,
         \A j \in 1..Len(t) : t[j] = IF j < k THEN rq[q][j] ELSE rq[q][j + 1]
  PROVE  LET new == [rq EXCEPT ![q] = t]
         IN InQueues(new) = InQueues(rq) \ {rq[q][k]} /\ DistinctReady(new)
<1> DEFINE new == [rq EXCEPT ![q] = t]
<1>1. /\ rq[q] \in Seq(Procs) /\ Len(rq[q]) \in Nat /\ Len(t) \in Nat
      /\ \A r \in Queue : r # q => new[r] = rq[r]
      /\ new[q] = t
  OBVIOUS
<1> HIDE DEF new
<1>2. \A r \in Queue : rq[r] \in Seq(Procs) /\ new[r] \in Seq(Procs)
  BY <1>1
<1>3. \A r \in Queue : \A j \in 1..Len(new[r]) :
        \/ r = q /\ j < k /\ j \in 1..Len(rq[r]) /\ new[r][j] = rq[r][j]
        \/ r = q /\ j >= k /\ j + 1 \in 1..Len(rq[r]) /\ new[r][j] = rq[r][j + 1]
        \/ r # q /\ j \in 1..Len(rq[r]) /\ new[r][j] = rq[r][j]
  BY <1>1
<1>0. /\ \A x : x \in InQueues(rq) <=> \E r \in Queue : \E j \in 1..Len(rq[r]) : rq[r][j] = x
      /\ \A x : x \in InQueues(new) <=> \E r \in Queue : \E j \in 1..Len(new[r]) : new[r][j] = x
  <2>1. new \in [Queue -> Seq(Procs)]
    BY DEF new
  <2> QED BY <2>1, InQueuesElements
<1> DEFINE old(r, j) == IF r = q /\ j >= k THEN j + 1 ELSE j
<1>o. \A r \in Queue : \A j \in 1..Len(new[r]) :
        /\ old(r, j) \in 1..Len(rq[r]) /\ new[r][j] = rq[r][old(r, j)]
        /\ r = q => old(r, j) # k
  BY <1>1, <1>3
<1>4. DistinctReady(new)
  <2>1. SUFFICES ASSUME NEW r \in Queue, NEW s \in Queue, NEW i \in 1..Len(new[r]),
                        NEW j \in 1..Len(new[s]), new[r][i] = new[s][j]
                 PROVE  r = s /\ i = j
    BY DEF DistinctReady
  <2>2. /\ old(r, i) \in 1..Len(rq[r]) /\ old(s, j) \in 1..Len(rq[s])
        /\ rq[r][old(r, i)] = rq[s][old(s, j)]
    BY <1>o, <2>1
  <2> HIDE DEF old
  <2>3. r = s /\ old(r, i) = old(s, j)
    BY <2>2 DEF DistinctReady
  <2> QED BY <2>3 DEF old
<1>5. ASSUME NEW x \in InQueues(new) PROVE x \in InQueues(rq) \ {rq[q][k]}
  <2>1. PICK r \in Queue : \E j \in 1..Len(new[r]) : new[r][j] = x
    BY <1>0, <1>5
  <2>2. PICK j \in 1..Len(new[r]) : new[r][j] = x
    BY <2>1
  <2>3. PICK i \in 1..Len(rq[r]) : rq[r][i] = x /\ ~(r = q /\ i = k)
    BY <1>o, <2>2
  <2>4. x # rq[q][k]
    BY <2>3 DEF DistinctReady
  <2> QED BY <1>0, <2>3, <2>4
<1>6. ASSUME NEW x \in InQueues(rq) \ {rq[q][k]} PROVE x \in InQueues(new)
  <2>1. PICK r \in Queue : \E j \in 1..Len(rq[r]) : rq[r][j] = x
    BY <1>0, <1>6
  <2>j. PICK j \in 1..Len(rq[r]) : rq[r][j] = x
    BY <2>1
  <2>2. \E i \in 1..Len(new[r]) : new[r][i] = x
    <3>1. CASE r # q
      BY <1>1, <2>j, <3>1
    <3>2. CASE r = q /\ j < k
      BY <1>1, <2>j, <3>2
    <3>3. CASE r = q /\ j > k
      <4>1. j - 1 \in 1..Len(t) /\ t[j - 1] = rq[q][j]
        BY <1>1, <3>3
      <4> QED BY <1>1, <2>j, <3>3, <4>1
    <3> QED BY <1>6, <2>j, <3>1, <3>2, <3>3
  <2> QED BY <1>0, <2>2
<1> QED
  BY <1>4, <1>5, <1>6 DEF new

(* handleProcessForCPU of a process whose node is linked nowhere: the node *)
(* is in the ready queues afterwards, once, unless its queue does not      *)
(* exist or its place is found through a backward link that is wrong.      *)
LEMMA Enqueued ==
  ASSUME TypeOK, NEW rq \in [Queue -> Seq(Procs)], DistinctReady(rq),
         NEW stale, NEW p \in Procs, NEW nd \in Node, NEW timeLeft \in Int,
         p \notin InQueues(rq), p \notin Waiting,
         HandleProcessForCPU(rq, stale, p, nd, timeLeft)
  PROVE  /\ fault' \in {"none", "queueIndex", "stalePrev"}
         /\ fault' = "none" => Ready' = InQueues(rq) \cup {p} /\ DistinctReady(readyQueues')
<1> DEFINE q   == nd.queueNbr
           put == IF q \in Queue /\ algorithms[q].type = "SJF"
                  THEN [nd EXCEPT !.executionTime = timeLeft] ELSE nd
           k   == InsertPosition(algorithms[q].type, rq[q], p,
                                 [x \in Procs |-> workload[x].priority],
                                 [x \in Procs |-> IF x = p THEN put.executionTime
                                                  ELSE node[x].executionTime])
           wrong == IF q \notin Queue THEN "queueIndex"
                    ELSE IF \/ \E r \in Queue : ProcessInQueue(rq[r], p)
                            \/ ProcessInQueue(waitingQueue, p) THEN "relinked"
                    ELSE IF ~InsertIsSound(rq[q], k, stale) THEN "stalePrev"
                    ELSE "none"
<1>1. fault' = wrong /\ readyQueues' = IF wrong = "none"
                                       THEN [rq EXCEPT ![q] = InsertAt(@, k, p)] ELSE rq
  BY DEF HandleProcessForCPU
<1>2. ~(\E r \in Queue : ProcessInQueue(rq[r], p)) /\ ~ProcessInQueue(waitingQueue, p)
  BY DEF InQueues, Waiting
<1>3. ASSUME q \in Queue PROVE k \in 1..(Len(rq[q]) + 1)
  <2>1. put.executionTime \in Int
    BY DEF Node
  <2>2. [x \in Procs |-> IF x = p THEN put.executionTime ELSE node[x].executionTime]
          \in [Procs -> Int]
    BY <2>1 DEF TypeOK, Node
  <2>3. [x \in Procs |-> workload[x].priority] \in [Procs -> Int]
    BY DEF TypeOK, ProcessInput
  <2>4. algorithms[q].type \in {"FCFS", "SJF", "RR", "PRIORITY"} /\ rq[q] \in Seq(Procs)
    BY <1>3 DEF TypeOK, SchedulingAlgorithm, AlgorithmTypes
  <2> QED BY <2>2, <2>3, <2>4, InsertPositionInRange
<1>4. ASSUME fault' = "none" PROVE Ready' = InQueues(rq) \cup {p} /\ DistinctReady(readyQueues')
  <2>1. q \in Queue /\ readyQueues' = [rq EXCEPT ![q] = InsertAt(@, k, p)]
    BY <1>1, <1>4
  <2>2. Ready' = InQueues(readyQueues')
    BY DEF Ready, InQueues
  <2> HIDE DEF k
  <2> QED BY <1>3, <2>1, <2>2, InsertedInQueues
<1> QED
  BY <1>1, <1>2, <1>4

-----------------------------------------------------------------------------
(* The events of a process *)

(* The next burst: the other kind, later, and there is one after an I/O    *)
(* burst.                                                                  *)
LEMMA NextEvent ==
  ASSUME NEW s \in Seq(Event), s # <<>>, NEW d, GoodEvents(s, d)
  PROVE  /\ Rest(s) \in Seq(Event) /\ GoodEvents(Rest(s), d)
         /\ s[1].time < d
         /\ s[1].type = "IO" => Rest(s) # <<>>
         /\ Rest(s) # <<>> =>
              /\ Rest(s)[1].type # s[1].type /\ s[1].time < Rest(s)[1].time
              /\ s[1].type = "IO" => s[1].time + SwitchOutDuration <= Rest(s)[1].time
<1> DEFINE t == Rest(s)
<1>1. /\ Len(s) \in Nat /\ Len(s) >= 1 /\ t \in Seq(Event) /\ Len(t) = Len(s) - 1
      /\ \A k \in 1..Len(t) : t[k] = s[k + 1]
  BY DEF Rest
<1>2. t = <<>> <=> Len(t) = 0
  BY <1>1
<1> HIDE DEF t
<1>3. \A k \in 1..Len(t) : k + 1 \in 1..Len(s)
  BY <1>1
<1>4. \A k \in 1..(Len(t) - 1) : /\ k \in 1..Len(t) /\ k + 1 \in 1..Len(t)
                                 /\ k + 1 \in 1..(Len(s) - 1)
  BY <1>1
<1>5. GoodEvents(t, d)
  <2>1. \A k \in 1..Len(t) : t[k].time < d
    BY <1>1, <1>3 DEF GoodEvents
  <2>2. ASSUME NEW k \in 1..(Len(t) - 1)
        PROVE  /\ t[k].type # t[k + 1].type
               /\ t[k].type = "IO" => t[k].time + SwitchOutDuration <= t[k + 1].time
    BY <1>1, <1>4 DEF GoodEvents
  <2>4. ASSUME NEW j \in 1..Len(t), NEW k \in 1..Len(t), j < k PROVE t[j].time < t[k].time
    <3>1. /\ j + 1 \in 1..Len(s) /\ k + 1 \in 1..Len(s) /\ j + 1 < k + 1
          /\ t[j] = s[j + 1] /\ t[k] = s[k + 1]
      BY <1>1, <1>3, <2>4
    <3> QED BY <3>1 DEF GoodEvents
  <2>3. ASSUME t # <<>> PROVE t[Len(t)].type = "CPU"
    <3>1. Len(t) \in 1..Len(t) /\ Len(t) + 1 = Len(s)
      BY <1>1, <1>2, <2>3
    <3>2. t[Len(t)] = s[Len(s)]
      BY <1>1, <3>1
    <3> QED BY <3>2 DEF GoodEvents
  <2> QED BY <2>1, <2>2, <2>3, <2>4 DEF GoodEvents
<1>6. s[1].time < d
  BY <1>1 DEF GoodEvents
<1>7. s[1].type = "IO" => t # <<>>
  BY <1>1, <1>2 DEF GoodEvents
<1>8. ASSUME t # <<>>
      PROVE  /\ t[1].type # s[1].type /\ s[1].time < t[1].time
             /\ s[1].type = "IO" => s[1].time + SwitchOutDuration <= t[1].time
  <2>1. /\ 1 \in 1..Len(t) /\ 1 \in 1..(Len(s) - 1) /\ t[1] = s[1 + 1]
        /\ 1 \in 1..Len(s) /\ 1 + 1 \in 1..Len(s)
    BY <1>1, <1>2, <1>8
  <2> QED BY <2>1 DEF GoodEvents
<1> QED
  BY <1>1, <1>5, <1>6, <1>7, <1>8 DEF t

(* When a burst is over there is time left until the end of the next one,  *)
(* after an I/O event at least the time of a switch-out.                   *)
LEMMA NextBurst ==
  ASSUME TypeOK, NEW p \in Procs, proc[p].nextEvents # <<>>, CurEventTimeLeft(p) = 0,
         GoodEvents(proc[p].nextEvents, workload[p].processDuration)
  PROVE  /\ TimeLeft(p, Rest(proc[p].nextEvents)) \in Int
         /\ TimeLeft(p, Rest(proc[p].nextEvents)) >= 1
         /\ proc[p].nextEvents[1].type = "IO" =>
              /\ TimeLeft(p, Rest(proc[p].nextEvents)) >= SwitchOutDuration
              /\ Rest(proc[p].nextEvents) # <<>> /\ Rest(proc[p].nextEvents)[1].type = "CPU"
         /\ proc[p].nextEvents[1].type = "CPU" /\ Rest(proc[p].nextEvents) # <<>> =>
              Rest(proc[p].nextEvents)[1].type = "IO"
         /\ GoodEvents(Rest(proc[p].nextEvents), workload[p].processDuration)
<1> DEFINE s == proc[p].nextEvents
           t == Rest(s)
           d == workload[p].processDuration
           a == proc[p].advancementTime
<1>1. s \in Seq(Event) /\ d \in Nat /\ a \in Nat
  BY DEF TypeOK, Process, ProcessInput
<1>2. /\ t \in Seq(Event) /\ GoodEvents(t, d) /\ s[1].time < d
      /\ s[1].type = "IO" => t # <<>>
      /\ t # <<>> => /\ t[1].type # s[1].type /\ s[1].time < t[1].time
                     /\ s[1].type = "IO" => s[1].time + SwitchOutDuration <= t[1].time
  BY <1>1, NextEvent
<1>3. s[1] \in Event /\ (t # <<>> => t[1] \in Event)
  BY <1>1, <1>2
<1>4. TimeLeft(p, t) = (IF t = <<>> THEN d ELSE t[1].time) - a /\ s[1].time - a = 0
  BY DEF TimeLeft, CurEventTimeLeft
<1> HIDE DEF s, t, d, a
<1>5. s[1].time \in Nat /\ s[1].type \in {"CPU", "IO"}
      /\ (t # <<>> => t[1].time \in Nat /\ t[1].type \in {"CPU", "IO"})
  BY <1>3 DEF Event
<1>6. SwitchOutDuration \in Nat
  BY DurationAssumption
<1>7. /\ TimeLeft(p, t) \in Int /\ TimeLeft(p, t) >= 1
      /\ s[1].type = "IO" => TimeLeft(p, t) >= SwitchOutDuration
  <2>1. CASE t = <<>>
    <3>1. TimeLeft(p, t) = d - a /\ s[1].type # "IO"
      BY <1>2, <1>4, <2>1
    <3> QED BY <1>1, <1>2, <1>4, <1>5, <3>1
  <2>2. CASE t # <<>>
    <3>1. TimeLeft(p, t) = t[1].time - a /\ s[1].time < t[1].time
      BY <1>2, <1>4, <2>2
    <3>2. s[1].type = "IO" => s[1].time + SwitchOutDuration <= t[1].time
      BY <1>2, <2>2
    <3> QED BY <1>1, <1>4, <1>5, <1>6, <2>2, <3>1, <3>2
  <2> QED BY <2>1, <2>2
<1> QED
  BY <1>2, <1>5, <1>7 DEF s, t, d

-----------------------------------------------------------------------------
(* processArrived *)

(* A process nobody owns is on no core either.                             *)
LEMMA OwnedByNobody ==
  ASSUME Owned, NEW p \in Procs, p \notin InIO, p \notin InCPU
  PROVE  /\ p \notin Ready /\ p \notin Waiting /\ disk.node # p
         /\ \A c \in Cores : core[c].node # p
<1>1. Exclusive
  BY DEF Owned
<1> QED
  BY <1>1 DEF Exclusive, InIO, InCPU

(* The process that arrives is ready, with its first event ahead of it.    *)
LEMMA ProcessArrivedOwned ==
  ASSUME Inv, Owned, workload \in Workloads, GoodInputs, NEW p \in Procs, ProcessArrived(p)
  PROVE  Kept'
<1> DEFINE events == workload[p].events
<1>1. /\ TypeOK /\ phase = "arrival" /\ phase' = "arrival" /\ index' = p + 1 /\ index \in Nat
      /\ workload[p].startTime = time /\ p >= index
      /\ \A o \in Procs : ArrivesNow(o) => p <= o
      /\ UNCHANGED <<time, workload, waitingQueue, core, disk>>
      /\ proc' = [proc EXCEPT ![p].state = "READY", ![p].nextEvents = Rest(@)]
      /\ HandleProcessForCPU(readyQueues, stalePrev, p, initNode,
                             TimeLeft(p, Rest(proc[p].nextEvents)))
  BY DEF ProcessArrived, At, Goto, ArrivesNow, Inv, TypeOK, inputs
<1>2. ~Arrived(p) /\ ~Living(p)
  BY <1>1 DEF Arrived, Living, TypeOK, Procs, ProcessInput
<1>3. /\ p \notin InIO /\ p \notin InCPU
      /\ proc[p] = [state |-> "READY", nextEvents |-> events, advancementTime |-> 0]
  BY <1>2 DEF Owned, Alive
<1>4. /\ p \notin Ready /\ p \notin Waiting /\ disk.node # p
      /\ \A c \in Cores : core[c].node # p
  BY <1>3, OwnedByNobody
<1>5. /\ events \in Seq(Event) /\ events # <<>> /\ events[1].type = "CPU" /\ events[1] \in Event
      /\ GoodEvents(events, workload[p].processDuration)
      /\ workload[p].processDuration \in Nat
  BY <1>1, InputAssumption DEF GoodInputs, TypeOK, ProcessInput
<1> DEFINE t == Rest(events)
<1>6. /\ t \in Seq(Event) /\ GoodEvents(t, workload[p].processDuration)
      /\ t # <<>> => t[1].type = "IO" /\ t[1].time \in Nat /\ t[1].time >= 1
      /\ workload[p].processDuration >= 1
  <2>1. /\ t \in Seq(Event) /\ GoodEvents(t, workload[p].processDuration)
        /\ events[1].time < workload[p].processDuration
        /\ t # <<>> => t[1].type # events[1].type /\ events[1].time < t[1].time
    BY <1>5, NextEvent
  <2>2. t # <<>> => t[1] \in Event
    BY <2>1
  <2> HIDE DEF t, events
  <2> QED BY <1>5, <2>1, <2>2 DEF Event
<1>7. /\ proc'[p].state = "READY" /\ proc'[p].nextEvents = t /\ proc'[p].advancementTime = 0
      /\ \A o \in Procs : o # p => proc'[o] = proc[o]
  BY <1>1, <1>3 DEF TypeOK, Process
<1>8. Left'[p] >= 1 /\ \A o \in Procs : o # p => Left'[o] = Left[o]
  <2>1. Left'[p] = (IF t = <<>> THEN workload[p].processDuration ELSE t[1].time) - 0
    BY <1>1, <1>7 DEF Left, CurEventTimeLeft, TimeLeft
  <2> HIDE DEF t
  <2>2. Left'[p] >= 1
    BY <1>5, <1>6, <2>1
  <2>3. ASSUME NEW o \in Procs, o # p PROVE Left'[o] = Left[o]
    BY <1>1, <1>7, <2>3, LeftOf
  <2> QED BY <2>2, <2>3
<1>0. UNCHANGED <<time, workload, waitingQueue, core, disk>>
  BY <1>1
<1>9. /\ fault' \in {"none", "queueIndex", "stalePrev"}
      /\ fault' = "none" => Ready' = Ready \cup {p} /\ DistinctReady(readyQueues')
  <2>1. TimeLeft(p, Rest(proc[p].nextEvents)) \in Int
    BY <1>1, <1>3, <1>6, TimeLeftIsInt
  <2>2. initNode \in Node /\ readyQueues \in [Queue -> Seq(Procs)]
    BY <1>1 DEF initNode, Node, TypeOK
  <2>3. DistinctReady(readyQueues)
    BY DEF Owned
  <2> QED BY <1>1, <1>4, <2>1, <2>2, <2>3, Enqueued DEF Ready
<1>10. OkFaults'
  BY <1>9 DEF OkFaults
<1> HIDE DEF t, events
<1>11. RunningOnOccupiedCore'
  <2>1. RunningOnOccupiedCore
    BY DEF Owned, States
  <2> QED BY <1>0, <1>4, <1>7, <2>1 DEF RunningOnOccupiedCore
<1>12. ASSUME fault' = "none" PROVE Owned'
  <2>1. /\ Ready' = Ready \cup {p} /\ DistinctReady(readyQueues')
        /\ UNCHANGED <<Waiting, Leaving, InIO, Interrupted>>
        /\ InCPU' = InCPU \cup {p}
    <3>1. Ready' = Ready \cup {p} /\ DistinctReady(readyQueues')
      BY <1>9, <1>12
    <3>2. UNCHANGED <<Waiting, Leaving, InIO, Interrupted>>
      BY <1>1, ViewsUnchanged
    <3>3. InCPU' = InCPU \cup {p}
      BY <1>1, <3>1, <3>2 DEF InCPU
    <3> QED BY <3>1, <3>2, <3>3
  <2>2. DistinctWaiting(waitingQueue)'
    BY <1>1 DEF Owned
  <2>3. Exclusive'
    BY <1>1, <1>4, <2>1 DEF Owned, Exclusive
  <2>4. Timers'
    BY <1>1 DEF Owned, Timers
  <2>5. Bursts'
    <3>1. Bursts
      BY DEF Owned
    <3>2. ASSUME NEW o \in Procs, o # p
          PROVE  /\ proc'[o] = proc[o] /\ (o \in InIO' <=> o \in InIO)
                 /\ (o \in InCPU' <=> o \in InCPU)
      BY <1>7, <2>1, <3>2
    <3>3. p \notin InIO'
      BY <1>3, <2>1
    <3> QED BY <1>0, <1>6, <1>7, <3>1, <3>2, <3>3 DEF Bursts
  <2>6. States'
    BY <1>7, <1>11, <2>1 DEF Owned, States
  <2>7. InTime'
    <3>1. InTime
      BY DEF Owned
    <3>2. \A o \in Procs : o \in Ready' \cup Waiting' => Left'[o] >= 1
      BY <1>8, <2>1, <3>1 DEF InTime
    <3>3. \A c \in Cores \ Leaving' : core'[c].node \in Procs =>
            Left'[core'[c].node] >= IF core'[c].state = "OCCUPIED" THEN 0 ELSE 1
      BY <1>0, <1>4, <1>8, <2>1, <3>1 DEF InTime
    <3>4. disk'.node \in Procs => Left'[disk'.node] >= 0
      BY <1>0, <1>4, <1>8, <3>1 DEF InTime
    <3>5. disk'.node \in Procs /\ disk'.state = "DISK_IDLE" =>
            /\ Interrupted' /\ Left'[disk'.node] = 0
            /\ \A c \in Cores : core'[c].node # disk'.node
      BY <1>0, <1>4, <1>8, <2>1, <3>1 DEF InTime
    <3>6. \A o \in Ready' \cup Waiting' : o \in Procs
      BY DEF Ready, InQueues, Waiting
    <3> QED BY <3>2, <3>3, <3>4, <3>5, <3>6 DEF InTime
  <2>8. Alive'
    <3>1. \A o \in Procs : o # p => (Arrived(o)' <=> Arrived(o))
      BY <1>1 DEF Arrived, ArrivesNow, Procs
    <3>2. Arrived(p)'
      BY <1>1 DEF Arrived, Procs
    <3> QED BY <1>1, <1>7, <2>1, <3>1, <3>2 DEF Owned, Alive, Living
  <2>9. HandledInTime'
    BY <1>1 DEF HandledInTime, Handled
  <2>10. SwitchedOutInTime'
    <3>1. SwitchedOutInTime /\ \A c \in Leaving : c \in Cores /\ core[c].node \in Procs
      BY <1>1 DEF Owned, Leaving, LeavesForIO, TypeOK, Core
    <3> QED BY <1>0, <1>1, <1>4, <1>8, <2>1, <3>1 DEF SwitchedOutInTime
  <2>11. DiskInTime'
    BY <1>1 DEF DiskInTime
  <2> QED BY <2>1, <2>2, <2>3, <2>4, <2>5, <2>6, <2>7, <2>8, <2>9, <2>10, <2>11 DEF Owned
<1> QED
  BY <1>10, <1>11, <1>12 DEF Kept

-----------------------------------------------------------------------------
(* The handlers that only go on, and aging *)

(* The head of the main loop and the end of processArrived: the process of *)
(* the line before the one the loop stands at has arrived.                 *)
LEMMA ArrivedAgain ==
  ASSUME TypeOK, StartTick \/ EndOfWorkload \/ ArrivalsDone, NEW p \in Procs
  PROVE  Arrived(p)' <=> Arrived(p)
<1>1. time' = time /\ workload' = workload
  BY SystemUnchanged DEF StartTick, EndOfWorkload, ArrivalsDone
<1>2. p \in Nat /\ p >= 1 /\ index \in Nat /\ time \in Nat /\ workload[p].startTime \in Nat
  <2>1. workload[p] \in ProcessInput
    BY DEF TypeOK
  <2> QED BY <2>1 DEF TypeOK, Procs, ProcessInput
<1>3. CASE StartTick
  <2>1. phase = "loop" /\ phase' = "arrival" /\ index' = 1
    BY <1>3 DEF StartTick, At, Goto
  <2> QED BY <1>1, <1>2, <2>1 DEF Arrived
<1>4. CASE EndOfWorkload
  <2>1. phase = "loop" /\ phase' = "free"
    BY <1>4 DEF EndOfWorkload, At, Goto
  <2> QED BY <1>1, <1>2, <2>1 DEF Arrived
<1>5. CASE ArrivalsDone
  <2>1. phase = "arrival" /\ phase' = "aging" /\ ~ArrivesNow(p)
    BY <1>5 DEF ArrivalsDone, At, Goto
  <2> QED BY <1>1, <1>2, <2>1 DEF Arrived, ArrivesNow
<1> QED
  BY <1>3, <1>4, <1>5

(* The order of the phases that have looked at a core.                     *)
LEMMA StillHandled ==
  ASSUME TypeOK, IndexOK, NEW c \in Cores, Handled(c)',
         \/ StartTick \/ EndOfWorkload \/ ArrivalsDone \/ AgingNextQueue \/ AgingDone
         \/ AgingKeep \/ NoProcess \/ NoEvent \/ WithinLimit \/ KeepRunning \/ NoResume
         \/ SliceContinues \/ NoInterrupt \/ SkipCore \/ SkipDisk
         \/ QueuesSizesBeforeRR \/ NewSlice
  PROVE  \/ Handled(c)
         \/ c = index /\ (NoProcess \/ NoEvent)
<1>1. index \in Nat /\ c \in Int /\ c <= CoreCount - 1
  BY SizeAssumption DEF TypeOK, Cores
<1>2. CASE StartTick \/ EndOfWorkload \/ ArrivalsDone \/ AgingNextQueue \/ AgingKeep
  BY <1>2 DEF Handled, StartTick, EndOfWorkload, ArrivalsDone, AgingNextQueue, AgingKeep, At, Goto
<1>3. CASE AgingDone
  BY <1>1, <1>3 DEF Handled, AgingDone, At, Goto, Cores
<1>4. CASE NoProcess \/ NoEvent
  BY <1>1, <1>4 DEF Handled, NoProcess, NoEvent, At, Goto
<1>5. CASE WithinLimit \/ KeepRunning
  BY <1>1, <1>5 DEF Handled, WithinLimit, KeepRunning, At, Goto
<1>6. CASE NoResume
  <2>1. phase = "resume" /\ NextCore
    BY <1>6 DEF NoResume, At
  <2>2. CASE index < CoreCount - 1
    BY <1>1, <2>1, <2>2 DEF Handled, NextCore, Goto
  <2>3. CASE ~(index < CoreCount - 1)
    BY <1>1, <2>1, <2>3, SizeAssumption DEF Handled
  <2> QED BY <2>2, <2>3
<1>7. CASE SliceContinues \/ NoInterrupt \/ SkipCore \/ SkipDisk \/ QueuesSizesBeforeRR \/ NewSlice
  BY <1>7 DEF Handled, SliceContinues, NoInterrupt, SkipCore, SkipDisk, QueuesSizesBeforeRR,
     NewSlice, At
<1> QED
  BY <1>2, <1>3, <1>4, <1>5, <1>6, <1>7

(* A handler that only looks: what it has seen of core `index` or of the   *)
(* disk is what the invariant says of a core that has been handled.        *)
LEMMA GoOnKept ==
  ASSUME Inv, Owned,
         \/ StartTick \/ EndOfWorkload \/ ArrivalsDone \/ AgingNextQueue \/ AgingDone
         \/ AgingKeep \/ NoProcess \/ NoEvent \/ WithinLimit \/ KeepRunning \/ NoResume
         \/ SliceContinues \/ NoInterrupt \/ SkipCore \/ SkipDisk
         \/ QueuesSizesBeforeRR \/ NewSlice
  PROVE  Kept'
<1> DEFINE Moves == StartTick \/ EndOfWorkload \/ ArrivalsDone
<1>1. /\ TypeOK /\ IndexOK /\ CoreOK /\ InterruptHoldsDisk
      /\ Exclusive /\ Timers /\ States /\ InTime
  BY DEF Inv, Owned
<1>2. /\ UNCHANGED <<workload, proc, readyQueues, waitingQueue, disk, time>>
      /\ fault = "none" /\ fault' = "none"
      /\ ~NewSlice => UNCHANGED core
  BY SystemUnchanged DEF StartTick, EndOfWorkload, ArrivalsDone, AgingNextQueue, AgingDone,
     AgingKeep, NoProcess, NoEvent, WithinLimit, KeepRunning, NoResume, SliceContinues,
     NoInterrupt, SkipCore, SkipDisk, QueuesSizesBeforeRR, NewSlice, At, inputs, lists
<1>3. \A c \in Cores : CoreKept(c)
  <2>1. CASE NewSlice
    BY <1>1, <2>1 DEF NewSlice, CoreKept, TypeOK, Core
  <2>2. CASE ~NewSlice
    BY <1>2, <2>2 DEF CoreKept
  <2> QED BY <2>1, <2>2
<1>4. /\ phase # "advanceScheduling" /\ phase' # "advanceScheduling" /\ phase' # "done"
      /\ ~Moves => /\ phase \notin {"loop", "free", "done", "arrival"}
                   /\ phase' \notin {"loop", "free", "done", "arrival"}
  BY DEF StartTick, EndOfWorkload, ArrivalsDone, AgingNextQueue, AgingDone,
     AgingKeep, NoProcess, NoEvent, WithinLimit, KeepRunning, NoResume, SliceContinues,
     NoInterrupt, SkipCore, SkipDisk, QueuesSizesBeforeRR, NewSlice, At, Goto, NextCore,
     PreviousCore, NextIdleCore
<1>5. ASSUME NEW p \in Procs PROVE Arrived(p)' <=> Arrived(p)
  <2>1. CASE Moves
    BY <1>1, <2>1, ArrivedAgain
  <2>2. CASE ~Moves
    <3> HIDE DEF Moves
    <3> QED BY <1>2, <1>4, <2>2 DEF Arrived
  <2> QED BY <2>1, <2>2
<1>6. ASSUME NEW c \in Cores, Handled(c)'
      PROVE  \/ Handled(c)
             \/ /\ core[c].state = "SWITCH_IN" => core[c].switchInTimer >= 1
                /\ core[c].state = "SWITCH_OUT" => core[c].switchOutTimer >= 1
                /\ core[c].state = "OCCUPIED" => Left[core[c].node] >= 1
  <2>1. Handled(c) \/ (c = index /\ (NoProcess \/ NoEvent))
    BY <1>1, <1>6, StillHandled
  <2>2. CASE c = index /\ NoProcess
    <3>1. core[c].node = NULL
      BY <2>2 DEF NoProcess
    <3> QED BY <1>1, <3>1 DEF CoreOK
  <2>3. CASE c = index /\ NoEvent
    <3>1. /\ core[c].node # NULL /\ ~SwitchedIn(c) /\ ~SwitchedOut(c)
          /\ CurEventTimeLeft(core[c].node) # 0
      BY <2>3 DEF NoEvent, BurstOver
    <3>2. /\ core[c] \in Core /\ core[c].node \in Procs
          /\ core[c].switchInTimer \in Int /\ core[c].switchOutTimer \in Int
      BY <1>1, <3>1 DEF TypeOK, Core
    <3>3. Left[core[c].node] \in Int /\ Left[core[c].node] # 0
      BY <1>1, <3>1, <3>2, LeftIsInt, LeftOf
    <3>4. core[c].switchInTimer >= 0 /\ core[c].switchOutTimer >= 0
      BY <1>1 DEF Timers
    <3>5. core[c].state = "OCCUPIED" => Left[core[c].node] >= 0
      <4>1. core[c].state = "OCCUPIED" => c \notin Leaving
        BY DEF Leaving, LeavesForIO
      <4> QED BY <1>1, <3>2, <4>1 DEF InTime
    <3> QED BY <3>1, <3>2, <3>3, <3>4, <3>5 DEF SwitchedIn, SwitchedOut
  <2> QED BY <2>1, <2>2, <2>3
<1>7. ASSUME phase' \in {"assignCores", "assignDisk", "advanceProcesses"},
             phase \notin {"assignCores", "assignDisk", "advanceProcesses"},
             disk.state = "DISK_RUNNING"
      PROVE  Left[disk.node] >= 1
  <2>1. NoInterrupt
    BY <1>7 DEF StartTick, EndOfWorkload, ArrivalsDone, AgingNextQueue, AgingDone,
     AgingKeep, NoProcess, NoEvent, WithinLimit, KeepRunning, NoResume, SliceContinues,
     SkipCore, SkipDisk, QueuesSizesBeforeRR, NewSlice, At, Goto, NextCore, PreviousCore
  <2>2. ~DiskOperationOver /\ disk.node # NULL /\ ~Interrupted
    BY <1>1, <1>7, <2>1 DEF NoInterrupt, InterruptHoldsDisk
  <2>3. disk.node \in Procs /\ CurEventTimeLeft(disk.node) # 0
    BY <1>1, <2>2 DEF DiskOperationOver, TypeOK, Disk
  <2>4. Left[disk.node] \in Int /\ Left[disk.node] # 0 /\ Left[disk.node] >= 0
    BY <1>1, <2>3, LeftIsInt, LeftOf DEF InTime
  <2> QED BY <2>4
<1>8. Owned'
  <2>1. UNCHANGED Ready /\ DistinctReady(readyQueues)'
    BY <1>2, ViewsUnchanged DEF Owned
  <2> QED BY <1>2, <1>3, <1>4, <1>5, <1>6, <1>7, <2>1, GoOnOwned
<1>9. RunningOnOccupiedCore' /\ OkFaults'
  BY <1>2, <1>8 DEF Owned, States, OkFaults
<1> QED
  BY <1>8, <1>9 DEF Kept

(* Aging moves a node from one ready queue to another.                     *)
LEMMA AgingMoveReady ==
  ASSUME TypeOK, Exclusive, DistinctReady(readyQueues), AgingMove
  PROVE  /\ fault' \in {"none", "queueIndex", "stalePrev"}
         /\ fault' = "none" => Ready' = Ready /\ DistinctReady(readyQueues')
<1> DEFINE p  == cursor
           q  == node[p].queueNbr
           rq == [readyQueues EXCEPT ![q] = RemoveNode(@, p)]
           k  == PositionOf(readyQueues[q], p)
           t  == RemoveNode(readyQueues[q], p)
<1>1. CASE ~(q \in Queue /\ RemoveIsSound(readyQueues[q], p, stalePrev))
  BY <1>1 DEF AgingMove
<1>2. CASE q \in Queue /\ RemoveIsSound(readyQueues[q], p, stalePrev)
  <2>1. HandleProcessForCPU(rq, StaleAfterRemove(readyQueues[q], p, stalePrev), p,
                            MovedTo(p, q - 1), CurEventTimeLeft(p))
    BY <1>2 DEF AgingMove
  <2>2. /\ p \in Procs /\ readyQueues \in [Queue -> Seq(Procs)] /\ readyQueues[q] \in Seq(Procs)
        /\ ProcessInQueue(readyQueues[q], p)
    BY <1>2 DEF AgingMove, TypeOK, RemoveIsSound
  <2>3. /\ MovedTo(p, q - 1) \in Node /\ CurEventTimeLeft(p) \in Int
    <3>1. q \in Int
      BY <1>2 DEF Queue
    <3> QED BY <2>2, <3>1, MovedToIsNode, LeftIsInt, LeftOf
  <2>4. /\ k \in 1..Len(readyQueues[q]) /\ readyQueues[q][k] = p
        /\ t \in Seq(Procs) /\ Len(t) = Len(readyQueues[q]) - 1
        /\ \A j \in 1..Len(t) : t[j] = IF j < k THEN readyQueues[q][j] ELSE readyQueues[q][j + 1]
    <3> HIDE DEF p, q
    <3>1. k \in 1..Len(readyQueues[q]) /\ readyQueues[q][k] = p
      BY <2>2, PositionInQueue
    <3>2. t \in Seq(Procs) /\ Len(t) = Len(readyQueues[q]) - 1
      BY <2>2, RemoveNodeIsSeq
    <3>3. \A j \in 1..Len(t) :
            t[j] = IF j < k THEN readyQueues[q][j] ELSE readyQueues[q][j + 1]
      BY <2>2, <3>2, RemoveNodeElements
    <3> QED BY <3>1, <3>2, <3>3
  <2>5. rq = [readyQueues EXCEPT ![q] = t]
    OBVIOUS
  <2> HIDE DEF k, t, rq
  <2>6. InQueues(rq) = Ready \ {p} /\ DistinctReady(rq) /\ rq \in [Queue -> Seq(Procs)]
    <3>1. rq \in [Queue -> Seq(Procs)]
      BY <2>2, <2>4, <2>5
    <3> HIDE DEF p, q
    <3>2. LET new == [readyQueues EXCEPT ![q] = t]
          IN InQueues(new) = InQueues(readyQueues) \ {readyQueues[q][k]} /\ DistinctReady(new)
      BY <1>2, <2>2, <2>4, RemovedFromQueues
    <3> QED BY <2>4, <2>5, <3>1, <3>2 DEF Ready
  <2>7. p \in Ready /\ p \notin Waiting
    <3>1. p \in Ready
      BY <1>2, <2>2 DEF Ready, InQueues
    <3> QED BY <3>1 DEF Exclusive
  <2> HIDE DEF p, q
  <2>8. /\ fault' \in {"none", "queueIndex", "stalePrev"}
        /\ fault' = "none" => Ready' = InQueues(rq) \cup {p} /\ DistinctReady(readyQueues')
    BY <2>1, <2>2, <2>3, <2>6, <2>7, Enqueued
  <2> QED BY <2>6, <2>7, <2>8
<1> QED
  BY <1>1, <1>2

LEMMA AgingMoveKept ==
  ASSUME Inv, Owned, AgingMove
  PROVE  Kept'
<1>1. /\ TypeOK /\ Exclusive /\ States /\ DistinctReady(readyQueues)
      /\ phase = "aging" /\ phase' = "aging" /\ index' = index
      /\ UNCHANGED <<time, workload, proc, waitingQueue, core, disk>>
  BY DEF AgingMove, At, Inv, Owned, inputs
<1>2. RunningOnOccupiedCore'
  BY <1>1 DEF States, RunningOnOccupiedCore
<1>3. /\ fault' \in {"none", "queueIndex", "stalePrev"}
      /\ fault' = "none" => Ready' = Ready /\ DistinctReady(readyQueues')
  BY <1>1, AgingMoveReady
<1>4. ASSUME fault' = "none" PROVE Owned'
  <2>1. \A o \in Procs : Arrived(o)' <=> Arrived(o)
    BY <1>1 DEF Arrived
  <2>2. \A c \in Cores : CoreKept(c) /\ ~Handled(c)'
    BY <1>1 DEF CoreKept, Handled
  <2> QED BY <1>1, <1>3, <1>4, <2>1, <2>2, GoOnOwned
<1> QED
  BY <1>2, <1>3, <1>4 DEF Kept, OkFaults

-----------------------------------------------------------------------------
(* A core lets go of a process that goes on                                *)

(* Core c starts to switch its process out, or gives it back: it is on its *)
(* way to a ready queue, or in one.                                        *)
LEMMA CoreLetsGo ==
  ASSUME Inv, Inv', Owned, NEW c \in Cores, NEW p \in Procs, core[c].node = p, c \notin Leaving,
         core[c].state \in {"OCCUPIED", "SWITCH_OUT"}, Left[p] >= 1,
         UNCHANGED <<workload, waitingQueue, disk>>, DistinctReady(readyQueues)',
         \A d \in Cores : d # c => core'[d] = core[d],
         core'[c].switchInTimer = 0,
         \/ /\ core'[c].node = p /\ core'[c].state = "SWITCH_OUT" /\ core'[c].continueOnCPU
            /\ core'[c].switchOutTimer >= 1 /\ Ready' = Ready
         \/ /\ core'[c].node = NULL /\ core'[c].state = "IDLE"
            /\ core'[c].switchOutTimer = 0 /\ Ready' = Ready \cup {p},
         proc' = [proc EXCEPT ![p].state = "READY"],
         \A o \in Procs : Arrived(o)' <=> Arrived(o),
         \A d \in Cores : d # c => (Handled(d)' => Handled(d)),
         phase \in {"event", "limit", "preempt", "slice"},
         phase' \in {"resume", "slice", "interrupt"}
  PROVE  Owned'
<1>1. /\ TypeOK /\ Exclusive /\ Timers /\ Bursts /\ States /\ InTime /\ Alive /\ HandledInTime
      /\ SwitchedOutInTime /\ DistinctWaiting(waitingQueue)
  BY DEF Inv, Owned
<1>2. p # NULL /\ p \notin Ready /\ p \notin InIO /\ p \notin Waiting /\ disk.node # p
      /\ \A d \in Cores : d # c => core[d].node # p
  BY <1>1, NullIsNoProcess DEF Exclusive, InIO
<1>3. p \in InCPU
  BY DEF InCPU
<1>4. /\ proc'[p].state = "READY" /\ proc'[p].nextEvents = proc[p].nextEvents
      /\ proc'[p].advancementTime = proc[p].advancementTime
      /\ \A o \in Procs : o # p => proc'[o] = proc[o]
  BY <1>1 DEF TypeOK, Process
<1>5. Left' = Left
  <2>1. \A o \in Procs : CurEventTimeLeft(o)' = CurEventTimeLeft(o)
    BY <1>4 DEF CurEventTimeLeft, TimeLeft
  <2> QED BY <2>1 DEF Left
<1>6. UNCHANGED <<Waiting, InIO>>
  BY ViewsUnchanged
<1>7. c \notin Leaving' /\ Leaving' = Leaving
  <2>1. c \notin Leaving'
    BY DEF Leaving, LeavesForIO
  <2>2. \A d \in Cores : d # c => (d \in Leaving' <=> d \in Leaving)
    BY DEF Leaving, LeavesForIO
  <2> QED BY <2>1, <2>2 DEF Leaving
<1>8. InCPU' = InCPU
  <2>1. p \in InCPU'
    BY <1>7 DEF InCPU
  <2>2. ASSUME NEW o, o # p PROVE o \in InCPU' <=> o \in InCPU
    <3>1. o \in Ready' <=> o \in Ready
      BY <2>2
    <3>2. \A d \in Cores : core'[d].node = o /\ o \in Procs <=> core[d].node = o /\ o \in Procs
      BY <2>2, NullIsNoProcess
    <3> QED BY <1>7, <3>1, <3>2 DEF InCPU
  <2> QED BY <1>3, <2>1, <2>2
<1>9. Exclusive'
  <2>1. /\ Ready' \cap Waiting' = {} /\ disk'.node \notin Ready' /\ disk'.node \notin Waiting'
    BY <1>1, <1>2, <1>6 DEF Exclusive
  <2>2. ASSUME NEW d \in Cores
        PROVE  /\ core'[d].node \notin Ready'
               /\ core'[d].node \in Procs => (d \in Leaving' <=> core'[d].node \in InIO')
    <3>1. NULL \notin Ready'
      BY NullIsNoProcess DEF Ready, InQueues
    <3> QED BY <1>1, <1>2, <1>6, <1>7, <3>1, NullIsNoProcess DEF Exclusive
  <2>3. ASSUME NEW d \in Cores, NEW e \in Cores, core'[d].node = core'[e].node
        PROVE  d = e \/ core'[d].node = NULL
    BY <1>1, <1>2, <2>3 DEF Exclusive
  <2> QED BY <2>1, <2>2, <2>3 DEF Exclusive
<1>10. Timers'
  <2>1. ASSUME NEW d \in Cores
        PROVE  /\ core'[d].switchInTimer >= 0 /\ core'[d].switchOutTimer >= 0
               /\ core'[d].switchInTimer = 0 \/ core'[d].switchOutTimer = 0
               /\ core'[d].state = "IDLE" => core'[d].node = NULL
               /\ core'[d].node = NULL \/ core'[d].state = "OCCUPIED" =>
                    core'[d].switchInTimer = 0 /\ core'[d].switchOutTimer = 0
               /\ core'[d].state = "SWITCH_IN" => core'[d].switchOutTimer = 0
               /\ core'[d].state = "SWITCH_OUT" => core'[d].switchInTimer = 0
    <3>1. CASE d = c
      <4>1. core' \in [Cores -> Core]
        BY DEF Inv, TypeOK
      <4>2. core'[c].switchOutTimer \in Int
        BY <4>1 DEF Core
      <4>3. core'[c].switchOutTimer >= 0
        BY <4>2
      <4> QED BY <1>2, <3>1, <4>3
    <3>2. CASE d # c
      BY <1>1, <3>2 DEF Timers
    <3> QED BY <3>1, <3>2
  <2> QED BY <2>1 DEF Timers
<1>11. Bursts'
  BY <1>1, <1>4, <1>6, <1>8 DEF Bursts
<1>12. States'
  <2>1. RunningOnOccupiedCore'
    BY <1>1, <1>2, <1>4 DEF States, RunningOnOccupiedCore
  <2> QED BY <1>1, <1>4, <1>6, <2>1 DEF States
<1>13. Interrupted => Interrupted'
  BY <1>1, <1>2 DEF Interrupted
<1>14. InTime'
  <2>1. \A o \in Ready' \cup Waiting' : Left'[o] >= 1
    BY <1>1, <1>5, <1>6 DEF InTime
  <2>2. ASSUME NEW d \in Cores \ Leaving', core'[d].node \in Procs
        PROVE  Left'[core'[d].node] >= IF core'[d].state = "OCCUPIED" THEN 0 ELSE 1
    <3>1. CASE d = c
      BY <1>5, <2>2, <3>1, NullIsNoProcess
    <3>2. CASE d # c
      BY <1>1, <1>5, <1>7, <2>2, <3>2 DEF InTime
    <3> QED BY <3>1, <3>2
  <2>3. /\ disk'.node \in Procs => Left'[disk'.node] >= 0
        /\ disk'.node \in Procs /\ disk'.state = "DISK_IDLE" =>
             Interrupted' /\ Left'[disk'.node] = 0
    BY <1>1, <1>5, <1>13 DEF InTime
  <2>4. ASSUME disk'.node \in Procs, disk'.state = "DISK_IDLE", NEW d \in Cores
        PROVE  core'[d].node # disk'.node
    BY <1>1, <1>2, <2>4, NullIsNoProcess DEF InTime
  <2> QED BY <2>1, <2>2, <2>3, <2>4 DEF InTime
<1>15. Alive'
  BY <1>1, <1>3, <1>4, <1>6, <1>8 DEF Alive, Living
<1>16. HandledInTime'
  BY <1>1, <1>5 DEF HandledInTime
<1>17. SwitchedOutInTime'
  BY <1>1, <1>5, <1>7 DEF SwitchedOutInTime, Leaving
<1>18. DiskInTime'
  BY DEF DiskInTime
<1> QED
  BY <1>1, <1>9, <1>10, <1>11, <1>12, <1>14, <1>15, <1>16, <1>17, <1>18 DEF Owned

(* The context switch of handleSchedulerEvents.                            *)
LEMMA SwitchOutReadyKept ==
  ASSUME Inv, Inv', Owned, NEW c \in Cores, core[c].state = "OCCUPIED", NEW nd \in Node,
         Handled(c), SwitchOutReady(c, nd), fault = "none",
         UNCHANGED <<time, workload, waitingQueue, disk>>,
         \A d \in Cores : Handled(d)' => Handled(d),
         phase \in {"limit", "preempt", "slice"}, phase' \in {"resume", "slice", "interrupt"}
  PROVE  Kept'
<1> DEFINE p == core[c].node
<1>1. /\ TypeOK /\ Exclusive /\ Timers /\ States /\ HandledInTime /\ DistinctReady(readyQueues)
      /\ core \in [Cores -> Core] /\ core[c] \in Core
  BY DEF Inv, Owned, TypeOK
<1>2. p \in Procs /\ p # NULL
  BY <1>1 DEF Inv, CoreOK, Core
<1>3. c \notin Leaving /\ Left[p] >= 1 /\ core[c].switchInTimer = 0 /\ core[c].switchOutTimer = 0
  BY <1>1 DEF HandledInTime, Timers, Leaving, LeavesForIO
<1>4. p \notin Ready /\ p \notin Waiting /\ \A d \in Cores : d # c => core[d].node # p
  BY <1>1, <1>2, <1>3 DEF Exclusive, InIO
<1>5. /\ proc' = [proc EXCEPT ![p].state = "READY"]
      /\ proc'[p].state = "READY"
      /\ \A o \in Procs : o # p => proc'[o] = proc[o]
  BY <1>1, <1>2 DEF SwitchOutReady, TypeOK, Process
<1>6. \A d \in Cores : d # c => core'[d] = core[d]
  BY <1>1 DEF SwitchOutReady
<1>7. ASSUME SwitchOutDuration > 0
      PROVE  /\ core'[c].node = p /\ core'[c].state = "SWITCH_OUT" /\ core'[c].continueOnCPU
             /\ core'[c].switchInTimer = 0 /\ core'[c].switchOutTimer >= 1
             /\ fault' = "none" /\ Ready' = Ready /\ DistinctReady(readyQueues')
  <2>1. core' = [core EXCEPT ![c].state = "SWITCH_OUT",
                             ![c].switchOutTimer = SwitchOutDuration,
                             ![c].continueOnCPU = TRUE]
        /\ UNCHANGED <<readyQueues, fault>>
    BY <1>7 DEF SwitchOutReady
  <2>2. /\ core'[c].node = p /\ core'[c].state = "SWITCH_OUT" /\ core'[c].continueOnCPU
        /\ core'[c].switchInTimer = 0 /\ core'[c].switchOutTimer = SwitchOutDuration
    BY <1>1, <1>3, <2>1 DEF Core
  <2>3. SwitchOutDuration >= 1
    BY <1>7, DurationAssumption
  <2>4. Ready' = Ready /\ DistinctReady(readyQueues')
    BY <1>1, <2>1, ViewsUnchanged
  <2> QED BY <2>1, <2>2, <2>3, <2>4
<1>8. ASSUME ~(SwitchOutDuration > 0)
      PROVE  /\ core'[c].node = NULL /\ core'[c].state = "IDLE"
             /\ core'[c].switchInTimer = 0 /\ core'[c].switchOutTimer = 0
             /\ fault' \in {"none", "queueIndex", "stalePrev"}
             /\ fault' = "none" => Ready' = Ready \cup {p} /\ DistinctReady(readyQueues')
  <2>1. /\ core' = [core EXCEPT ![c].state = "IDLE", ![c].node = NULL]
        /\ HandleProcessForCPU(readyQueues, stalePrev, p, nd, CurEventTimeLeft(p))
    BY <1>8 DEF SwitchOutReady
  <2>2. /\ core'[c].node = NULL /\ core'[c].state = "IDLE"
        /\ core'[c].switchInTimer = 0 /\ core'[c].switchOutTimer = 0
    BY <1>1, <1>3, <2>1 DEF Core
  <2>3. CurEventTimeLeft(p) \in Int /\ readyQueues \in [Queue -> Seq(Procs)]
    BY <1>1, <1>2, LeftIsInt, LeftOf DEF TypeOK
  <2>4. /\ fault' \in {"none", "queueIndex", "stalePrev"}
        /\ fault' = "none" => Ready' = Ready \cup {p} /\ DistinctReady(readyQueues')
    <3> HIDE DEF p
    <3> QED BY <1>1, <1>2, <1>4, <2>1, <2>3, Enqueued DEF Ready
  <2> QED BY <2>2, <2>4
<1>9. RunningOnOccupiedCore'
  <2>1. core'[c].state # "OCCUPIED"
    BY <1>7, <1>8
  <2> QED BY <1>1, <1>4, <1>5, <1>6, <2>1 DEF States, RunningOnOccupiedCore
<1>10. fault' \in {"none", "queueIndex", "stalePrev"}
  BY <1>7, <1>8
<1>11. ASSUME fault' = "none" PROVE Owned'
  <2>1. \A o \in Procs : Arrived(o)' <=> Arrived(o)
    BY DEF Arrived
  <2>2. core'[c].switchInTimer = 0
    BY <1>7, <1>8
  <2>3. \/ /\ core'[c].node = p /\ core'[c].state = "SWITCH_OUT" /\ core'[c].continueOnCPU
           /\ core'[c].switchOutTimer >= 1 /\ Ready' = Ready
        \/ /\ core'[c].node = NULL /\ core'[c].state = "IDLE"
           /\ core'[c].switchOutTimer = 0 /\ Ready' = Ready \cup {p}
    BY <1>7, <1>8, <1>11
  <2>4. DistinctReady(readyQueues)'
    BY <1>7, <1>8, <1>11
  <2>5. core[c].node = p
    OBVIOUS
  <2> HIDE DEF p
  <2> QED BY <1>2, <1>3, <1>5, <1>6, <2>1, <2>2, <2>3, <2>4, <2>5, CoreLetsGo
<1> QED
  BY <1>9, <1>10, <1>11 DEF Kept, OkFaults

(* Its time in the queue is over: the process is switched out, or stays on *)
(* its core as a process of the queue below.                               *)
LEMMA DemoteKept ==
  ASSUME Inv, Inv', Owned, Demote
  PROVE  Kept'
<1> DEFINE p == core[index].node
           q == node[p].queueNbr + 1
<1>1. /\ TypeOK /\ IndexOK /\ CoreOK /\ States /\ phase = "limit" /\ fault = "none"
      /\ UNCHANGED <<time, workload, waitingQueue, disk>>
  BY DEF Demote, At, Inv, Owned, inputs
<1>2. /\ index \in Cores /\ core[index].state = "OCCUPIED" /\ core[index].node \in Procs
      /\ index \in Int
  BY <1>1 DEF IndexOK, CoreOK, TypeOK, Core
<1>3. MovedTo(p, q) \in Node
  <2>1. node[p].queueNbr \in Int
    BY <1>1, <1>2 DEF TypeOK, Node
  <2> QED BY <1>1, <1>2, <2>1, MovedToIsNode
<1>4. CASE OtherProcessInReadyQueue(q)
  <2>1. SwitchOutReady(index, MovedTo(p, q)) /\ phase' = "resume" /\ index' = index
    BY <1>4 DEF Demote, Goto
  <2>2. Handled(index) /\ \A d \in Cores : Handled(d)' => Handled(d)
    BY <1>1, <1>2, <2>1 DEF Handled
  <2> QED BY <1>1, <1>2, <1>3, <2>1, <2>2, SwitchOutReadyKept
<1>5. CASE ~OtherProcessInReadyQueue(q)
  <2>1. /\ fault' \in {"none", "queueIndex"} /\ phase' = "preempt" /\ index' = index
        /\ UNCHANGED <<proc, readyQueues, core>>
    BY <1>5 DEF Demote, Goto
  <2>2. UNCHANGED Ready /\ DistinctReady(readyQueues)'
    BY <2>1, ViewsUnchanged DEF Owned
  <2>3. /\ \A c \in Cores : CoreKept(c) /\ (Handled(c)' => Handled(c))
        /\ \A o \in Procs : Arrived(o)' <=> Arrived(o)
    BY <1>1, <2>1 DEF CoreKept, Handled, Arrived
  <2>4. Owned'
    BY <1>1, <2>1, <2>2, <2>3, GoOnOwned
  <2> QED BY <2>1, <2>4 DEF Kept, OkFaults, Owned, States
<1> QED
  BY <1>4, <1>5

(* A process of higher priority is ready.                                  *)
LEMMA PreemptKept ==
  ASSUME Inv, Inv', Owned, Preempt
  PROVE  Kept'
<1>1. /\ TypeOK /\ IndexOK /\ CoreOK /\ phase = "preempt" /\ fault = "none"
      /\ UNCHANGED <<time, workload, waitingQueue, disk>>
      /\ SwitchOutReady(index, node[core[index].node]) /\ phase' = "resume" /\ index' = index
  BY DEF Preempt, At, Goto, Inv, inputs
<1>2. /\ index \in Cores /\ core[index].state = "OCCUPIED" /\ core[index].node \in Procs
      /\ index \in Int /\ node[core[index].node] \in Node
  BY <1>1 DEF IndexOK, CoreOK, TypeOK, Core
<1>3. Handled(index) /\ \A d \in Cores : Handled(d)' => Handled(d)
  BY <1>1, <1>2 DEF Handled
<1> QED
  BY <1>1, <1>2, <1>3, SwitchOutReadyKept

(* A time slice is over.                                                   *)
LEMMA SwitchOutAfterSliceKept ==
  ASSUME Inv, Inv', Owned, SwitchOutAfterSlice
  PROVE  Kept'
<1>1. /\ TypeOK /\ IndexOK /\ CoreOK /\ phase = "slice" /\ fault = "none"
      /\ UNCHANGED <<time, workload, waitingQueue, disk>>
      /\ SwitchOutReady(index, node[core[index].node]) /\ PreviousCore
      /\ core[index].state = "OCCUPIED"
  BY DEF SwitchOutAfterSlice, SliceOver, At, Inv, inputs
<1>2. /\ index \in Cores /\ core[index].node \in Procs /\ node[core[index].node] \in Node
  BY <1>1 DEF IndexOK, CoreOK, TypeOK, Core
<1>3. Handled(index) /\ \A d \in Cores : Handled(d)
  BY <1>1 DEF Handled
<1>4. phase' \in {"slice", "interrupt"}
  BY <1>1, <1>2, PreviousCoreIndex
<1> QED
  BY <1>1, <1>2, <1>3, <1>4, SwitchOutReadyKept

-----------------------------------------------------------------------------
(* The other events of a core                                              *)

(* A process starts to execute: it has at least one time unit to do.       *)
LEMMA SwitchInDoneKept ==
  ASSUME Inv, Inv', Owned, SwitchInDone
  PROVE  Kept'
<1> DEFINE c == index
           p == core[c].node
<1>1. /\ TypeOK /\ IndexOK /\ phase = "event" /\ fault = "none" /\ p # NULL
      /\ core[c].state = "SWITCH_IN" /\ core[c].switchInTimer = 0
      /\ UNCHANGED <<time, workload, waitingQueue, disk, readyQueues, fault>>
      /\ core' = [core EXCEPT ![c].state = "OCCUPIED", ![c].quantumTime = 0]
      /\ proc' = [proc EXCEPT ![p].state = "RUNNING"]
      /\ phase' = "limit" /\ index' = index
  BY DEF SwitchInDone, SwitchedIn, At, Goto, Inv, inputs, lists
<1>2. /\ Exclusive /\ Timers /\ Bursts /\ States /\ InTime /\ Alive /\ HandledInTime
      /\ SwitchedOutInTime /\ DistinctWaiting(waitingQueue) /\ DistinctReady(readyQueues)
  BY DEF Owned
<1>3. c \in Cores /\ p \in Procs /\ c \in Int
  BY <1>1 DEF IndexOK, TypeOK, Core
<1>4. /\ core'[c].state = "OCCUPIED" /\ core'[c].node = p
      /\ core'[c].switchInTimer = 0 /\ core'[c].switchOutTimer = 0
      /\ \A d \in Cores : d # c => core'[d] = core[d]
  BY <1>1, <1>2, <1>3 DEF Timers, TypeOK, Core
<1>5. /\ proc'[p].state = "RUNNING" /\ proc'[p].nextEvents = proc[p].nextEvents
      /\ proc'[p].advancementTime = proc[p].advancementTime
      /\ \A o \in Procs : o # p => proc'[o] = proc[o]
  BY <1>1, <1>3 DEF TypeOK, Process
<1>6. Left' = Left
  <2>1. \A o \in Procs : CurEventTimeLeft(o)' = CurEventTimeLeft(o)
    BY <1>1, <1>5 DEF CurEventTimeLeft, TimeLeft
  <2> QED BY <2>1 DEF Left
<1>7. UNCHANGED <<Ready, Waiting, InIO>>
  BY <1>1, ViewsUnchanged
<1>8. c \notin Leaving /\ c \notin Leaving' /\ Leaving' = Leaving
  BY <1>1, <1>4 DEF Leaving, LeavesForIO
<1> HIDE DEF c, p
<1>9. /\ p \in InCPU /\ InCPU' = InCPU
      /\ \A d \in Cores : core'[d].node = core[d].node
  BY <1>3, <1>4, <1>7, <1>8 DEF InCPU, c, p
<1>10. \A d \in Cores : d # c => core[d].node # p
  BY <1>2, <1>1, <1>3 DEF Exclusive, c, p
<1>11. Exclusive'
  BY <1>1, <1>2, <1>7, <1>8, <1>9, ExclusiveKept
<1>12. Timers'
  BY <1>1, <1>2, <1>4 DEF Timers
<1>13. Bursts'
  BY <1>1, <1>2, <1>5, <1>7, <1>9 DEF Bursts
<1>14. States'
  <2>1. RunningOnOccupiedCore'
    <3>1. /\ RunningOnOccupiedCore /\ core[c].state # "OCCUPIED"
          /\ c \in Cores /\ \A o \in Procs : o # p => core[c].node # o
      BY <1>1, <1>2, <1>3 DEF States, c, p
    <3> QED BY <1>3, <1>4, <1>5, <1>10, <3>1 DEF RunningOnOccupiedCore
  <2> QED BY <1>2, <1>5, <1>7, <2>1 DEF States
<1>15. Interrupted => Interrupted'
  BY <1>1, <1>4 DEF Interrupted, c
<1>16. Left[p] >= 1
  BY <1>1, <1>2, <1>3, <1>8 DEF InTime, c, p
<1>17. InTime'
  <2>1. \A o \in Ready' \cup Waiting' : Left'[o] >= 1
    BY <1>2, <1>6, <1>7 DEF InTime
  <2>2. ASSUME NEW d \in Cores \ Leaving', core'[d].node \in Procs
        PROVE  Left'[core'[d].node] >= IF core'[d].state = "OCCUPIED" THEN 0 ELSE 1
    <3>1. CASE d = c
      <4>1. p \in Procs /\ Left[p] \in Int
        BY <1>1, <1>3, LeftIsInt DEF p
      <4> QED BY <1>4, <1>6, <1>16, <3>1, <4>1
    <3>2. CASE d # c
      BY <1>2, <1>4, <1>6, <1>8, <2>2, <3>2 DEF InTime
    <3> QED BY <3>1, <3>2
  <2>3. /\ disk'.node \in Procs => Left'[disk'.node] >= 0
        /\ disk'.node \in Procs /\ disk'.state = "DISK_IDLE" =>
             /\ Interrupted' /\ Left'[disk'.node] = 0
             /\ \A d \in Cores : core'[d].node # disk'.node
    BY <1>1, <1>2, <1>6, <1>9, <1>15 DEF InTime
  <2> QED BY <2>1, <2>2, <2>3 DEF InTime
<1>18. Alive'
  <2>1. \A o \in Procs : Arrived(o)' <=> Arrived(o)
    BY <1>1 DEF Arrived
  <2> QED BY <1>1, <1>2, <1>5, <1>7, <1>9, <2>1 DEF Alive, Living
<1>19. HandledInTime'
  <2>1. ASSUME NEW d \in Cores, d # c, Handled(d)'
        PROVE  Handled(d)
    BY <1>1, <1>3, <2>1 DEF Handled, Cores, c
  <2> QED BY <1>1, <1>2, <1>4, <1>6, <1>16, <2>1 DEF HandledInTime
<1>20. SwitchedOutInTime'
  BY <1>1, <1>2, <1>4, <1>6, <1>8 DEF SwitchedOutInTime, Leaving
<1>21. DiskInTime'
  BY <1>1 DEF DiskInTime
<1>22. Owned'
  BY <1>1, <1>2, <1>11, <1>12, <1>13, <1>14, <1>17, <1>18, <1>19, <1>20, <1>21 DEF Owned
<1> QED
  BY <1>1, <1>14, <1>22 DEF Kept, OkFaults, States

(* A process that waits for the disk already leaves its core.              *)
LEMMA LeftForIO ==
  ASSUME Inv, Owned, NEW c \in Cores, c \in Leaving, core[c].state = "SWITCH_OUT",
         UNCHANGED <<workload, proc, waitingQueue, disk, readyQueues, time>>,
         \A d \in Cores : d # c => core'[d] = core[d],
         core'[c].node = NULL, core'[c].state = "IDLE",
         core'[c].switchInTimer = 0, core'[c].switchOutTimer = 0,
         \A d \in Cores : d # c => (Handled(d)' => Handled(d)),
         phase = "event", phase' = "resume"
  PROVE  Owned'
<1> DEFINE p == core[c].node
<1>1. /\ Exclusive /\ Timers /\ Bursts /\ States /\ InTime /\ Alive /\ HandledInTime
      /\ SwitchedOutInTime /\ DistinctWaiting(waitingQueue) /\ DistinctReady(readyQueues)
  BY DEF Owned
<1>2. UNCHANGED <<Ready, Waiting, InIO, Left>>
  BY ViewsUnchanged
<1>3. /\ c \notin Leaving' /\ \A d \in Cores : d # c => (d \in Leaving' <=> d \in Leaving)
      /\ \A d \in Leaving' : d \in Cores /\ d # c /\ d \in Leaving
  BY DEF Leaving, LeavesForIO
<1>4. InCPU' = InCPU
  <2>1. ASSUME NEW o \in Procs
        PROVE  (\E d \in Cores \ Leaving' : core'[d].node = o)
                 <=> (\E d \in Cores \ Leaving : core[d].node = o)
    BY <1>3, NullIsNoProcess
  <2> QED BY <1>2, <2>1 DEF InCPU
<1>5. NULL \notin Ready
  BY NullIsNoProcess DEF Ready, InQueues
<1>6. Exclusive'
  <2>1. /\ Ready' \cap Waiting' = {} /\ disk'.node \notin Ready' /\ disk'.node \notin Waiting'
    BY <1>1, <1>2 DEF Exclusive
  <2>2. ASSUME NEW d \in Cores
        PROVE  /\ core'[d].node \notin Ready'
               /\ core'[d].node \in Procs => (d \in Leaving' <=> core'[d].node \in InIO')
    BY <1>1, <1>2, <1>3, <1>5, NullIsNoProcess DEF Exclusive
  <2>3. ASSUME NEW d \in Cores, NEW e \in Cores, core'[d].node = core'[e].node
        PROVE  d = e \/ core'[d].node = NULL
    BY <1>1, <2>3 DEF Exclusive
  <2> QED BY <2>1, <2>2, <2>3 DEF Exclusive
<1>7. Timers'
  BY <1>1 DEF Timers
<1>8. Bursts'
  BY <1>1, <1>2, <1>4 DEF Bursts
<1>9. States'
  BY <1>1, <1>2 DEF States, RunningOnOccupiedCore
<1>10. Interrupted => Interrupted'
  BY DEF Interrupted
<1>11. InTime'
  <2>1. \A o \in Ready' \cup Waiting' : Left'[o] >= 1
    BY <1>1, <1>2 DEF InTime
  <2>2. ASSUME NEW d \in Cores \ Leaving', core'[d].node \in Procs
        PROVE  Left'[core'[d].node] >= IF core'[d].state = "OCCUPIED" THEN 0 ELSE 1
    BY <1>1, <1>2, <1>3, <2>2, NullIsNoProcess DEF InTime
  <2>3. /\ disk'.node \in Procs => Left'[disk'.node] >= 0
        /\ disk'.node \in Procs /\ disk'.state = "DISK_IDLE" =>
             Interrupted' /\ Left'[disk'.node] = 0
    BY <1>1, <1>2, <1>10 DEF InTime
  <2>4. ASSUME disk'.node \in Procs, disk'.state = "DISK_IDLE", NEW d \in Cores
        PROVE  core'[d].node # disk'.node
    BY <1>1, <2>4, NullIsNoProcess DEF InTime
  <2> QED BY <2>1, <2>2, <2>3, <2>4 DEF InTime
<1>12. Alive'
  <2>1. \A o \in Procs : Arrived(o)' <=> Arrived(o)
    BY DEF Arrived
  <2> QED BY <1>1, <1>2, <1>4, <2>1 DEF Alive, Living
<1>13. HandledInTime'
  BY <1>1, <1>2 DEF HandledInTime
<1>14. SwitchedOutInTime'
  BY <1>1, <1>2, <1>3 DEF SwitchedOutInTime
<1>15. DiskInTime'
  BY DEF DiskInTime
<1> QED
  BY <1>1, <1>6, <1>7, <1>8, <1>9, <1>11, <1>12, <1>13, <1>14, <1>15 DEF Owned

(* A switch-out ends.                                                      *)
LEMMA SwitchOutDoneKept ==
  ASSUME Inv, Inv', Owned, SwitchOutDone
  PROVE  Kept'
<1> DEFINE c == index
           p == core[c].node
<1>1. /\ TypeOK /\ IndexOK /\ phase = "event" /\ fault = "none" /\ p # NULL
      /\ core[c].state = "SWITCH_OUT" /\ core[c].switchOutTimer = 0
      /\ UNCHANGED <<time, workload, proc, waitingQueue, disk>>
      /\ core' = [core EXCEPT ![c].state = "IDLE", ![c].node = NULL]
      /\ phase' = "resume" /\ index' = index
  BY DEF SwitchOutDone, SwitchedOut, At, Goto, Inv, inputs
<1>2. c \in Cores /\ p \in Procs /\ c \in Int
  BY <1>1 DEF IndexOK, TypeOK, Core
<1>3. /\ core'[c].state = "IDLE" /\ core'[c].node = NULL
      /\ core'[c].switchInTimer = 0 /\ core'[c].switchOutTimer = 0
      /\ \A d \in Cores : d # c => core'[d] = core[d]
  BY <1>1, <1>2 DEF Owned, Timers, TypeOK, Core
<1>4. Exclusive /\ States /\ Alive /\ InTime /\ RunningOnOccupiedCore /\ DistinctReady(readyQueues)
  BY DEF Owned, States
<1>5. RunningOnOccupiedCore'
  <2>1. RunningOnOccupiedCore /\ proc' = proc /\ core[c].state # "OCCUPIED"
    BY <1>1, <1>4
  <2> HIDE DEF c, p
  <2> QED BY <1>2, <1>3, <2>1 DEF RunningOnOccupiedCore
<1>6. \A d \in Cores : d # c => (Handled(d)' => Handled(d))
  BY <1>1, <1>2 DEF Handled, Cores
<1>7. CASE ~core[c].continueOnCPU
  <2>1. UNCHANGED <<readyQueues, fault>>
    BY <1>7 DEF SwitchOutDone
  <2>2. c \in Leaving
    BY <1>1, <1>2, <1>7 DEF Leaving, LeavesForIO
  <2> HIDE DEF c, p
  <2>3. Owned'
    <3>1. core[c].state = "SWITCH_OUT"
      BY <1>1
    <3> QED BY <1>1, <1>2, <1>3, <1>6, <2>1, <2>2, <3>1, LeftForIO
  <2> QED BY <1>1, <1>5, <2>1, <2>3 DEF Kept, OkFaults
<1>8. CASE core[c].continueOnCPU
  <2>1. HandleProcessForCPU(readyQueues, stalePrev, p, node[p], CurEventTimeLeft(p))
    BY <1>8 DEF SwitchOutDone
  <2>2. /\ node[p] \in Node /\ CurEventTimeLeft(p) \in Int
        /\ readyQueues \in [Queue -> Seq(Procs)] /\ Left[p] \in Int
    BY <1>1, <1>2, LeftIsInt, LeftOf DEF TypeOK
  <2>3. c \notin Leaving /\ p \notin InIO /\ p \notin Ready /\ p \notin Waiting /\ p \in InCPU
    BY <1>2, <1>4, <1>8 DEF Leaving, LeavesForIO, Exclusive, InIO, InCPU
  <2>4. Left[p] >= 1
    BY <1>1, <1>2, <1>4, <2>3 DEF InTime
  <2>5. proc' = [proc EXCEPT ![p].state = "READY"]
    <3>1. proc[p].state \in ProcessStates
      BY <1>1, <1>2 DEF TypeOK, Process
    <3>2. proc[p].state # "RUNNING"
      BY <1>1, <1>2, <1>4, NullIsNoProcess DEF RunningOnOccupiedCore, Exclusive
    <3>3. proc[p].state # "WAITING" /\ proc[p].state # "TERMINATED"
      BY <1>2, <1>4, <2>3 DEF States, Alive, Living
    <3>4. proc[p].state = "READY"
      BY <3>1, <3>2, <3>3 DEF ProcessStates
    <3> QED BY <1>1, <1>2, <3>4 DEF TypeOK, Process
  <2> HIDE DEF p
  <2>6. /\ fault' \in {"none", "queueIndex", "stalePrev"}
        /\ fault' = "none" => Ready' = Ready \cup {p} /\ DistinctReady(readyQueues')
    BY <1>1, <1>2, <1>4, <2>1, <2>2, <2>3, Enqueued DEF Ready
  <2>7. ASSUME fault' = "none" PROVE Owned'
    <3>1. \A o \in Procs : Arrived(o)' <=> Arrived(o)
      BY <1>1 DEF Arrived
    <3>2. core[c].node = p /\ core[c].state \in {"OCCUPIED", "SWITCH_OUT"}
      BY <1>1 DEF p
    <3>3. Ready' = Ready \cup {p} /\ DistinctReady(readyQueues)'
      BY <2>6, <2>7
    <3> HIDE DEF c
    <3> QED BY <1>1, <1>2, <1>3, <1>6, <2>3, <2>4, <2>5, <3>1, <3>2, <3>3, CoreLetsGo
  <2> QED BY <1>1, <1>5, <2>6, <2>7 DEF Kept, OkFaults
<1> QED
  BY <1>7, <1>8

(* A process terminates: its last burst is over, and no list and no other  *)
(* A process terminates on the core that executes it, with no event left.  *)
LEMMA TerminatedInTime ==
  ASSUME Inv, Owned, Terminate
  PROVE  LET c == index
             p == core[index].node
         IN /\ Left[p] = 0 /\ proc[p].nextEvents = <<>>
            /\ proc[p].advancementTime = workload[p].processDuration
            /\ p \notin InIO /\ c \notin Leaving
            /\ core[c].state = "OCCUPIED" /\ proc[p].state = "RUNNING"
<1> DEFINE c == index
           p == core[c].node
<1>1. /\ TypeOK /\ IndexOK /\ phase = "event" /\ p # NULL /\ BurstOver(c) /\ Finished(p)
  BY DEF Terminate, BurstOver, At, Inv
<1>2. c \in Cores /\ p \in Procs
  BY <1>1 DEF IndexOK, TypeOK, Core
<1>3. Exclusive /\ Bursts /\ InTime /\ RunningOnOccupiedCore
  BY DEF Owned, States
<1>4. Left[p] = 0 /\ proc[p].nextEvents = <<>>
      /\ proc[p].advancementTime = workload[p].processDuration
  <2>1. Left[p] = 0 /\ proc[p].advancementTime = workload[p].processDuration
    BY <1>1, <1>2, LeftOf DEF BurstOver, Finished
  <2>2. ASSUME proc[p].nextEvents # <<>> PROVE FALSE
    <3>1. proc[p] \in Process /\ workload[p] \in ProcessInput
      BY <1>1, <1>2 DEF TypeOK
    <3>2. proc[p].nextEvents \in Seq(Event) /\ proc[p].advancementTime \in Nat
      BY <3>1 DEF Process
    <3>3. Len(proc[p].nextEvents) \in Nat /\ Len(proc[p].nextEvents) >= 1
          /\ proc[p].nextEvents[1] \in Event
      BY <2>2, <3>2
    <3>4. proc[p].nextEvents[1].time \in Nat
      BY <3>3 DEF Event
    <3>5. proc[p].nextEvents[1].time < workload[p].processDuration
      BY <1>2, <1>3, <3>3 DEF Bursts, GoodEvents
    <3>6. Left[p] = proc[p].nextEvents[1].time - proc[p].advancementTime
      BY <1>2, <2>2, LeftOf DEF CurEventTimeLeft, TimeLeft
    <3> QED BY <2>1, <3>2, <3>4, <3>5, <3>6
  <2> QED BY <2>1, <2>2
<1>5. p \notin InIO /\ c \notin Leaving
  BY <1>2, <1>3, <1>4 DEF Bursts, Exclusive
<1>6. core[c].state = "OCCUPIED"
  BY <1>2, <1>3, <1>4, <1>5 DEF InTime
<1>7. proc[p].state = "RUNNING"
  BY <1>2, <1>3, <1>6 DEF RunningOnOccupiedCore
<1> QED
  BY <1>4, <1>5, <1>6, <1>7

(* core holds the node that is freed.                                      *)
LEMMA TerminateKept ==
  ASSUME Inv, Inv', Owned, Terminate
  PROVE  Kept'
<1> DEFINE c == index
           p == core[c].node
<1>1. /\ TypeOK /\ IndexOK /\ phase = "event" /\ fault = "none" /\ p # NULL
      /\ BurstOver(c) /\ Finished(p)
      /\ UNCHANGED <<time, workload, readyQueues, waitingQueue, disk>>
      /\ core' = [core EXCEPT ![c].state = "IDLE", ![c].node = NULL]
      /\ proc' = [proc EXCEPT ![p].state = "TERMINATED"]
      /\ phase' = "resume" /\ index' = index
      /\ fault' = IF \/ Linked(p) \/ disk.node = p
                     \/ \E d \in Cores \ {c} : core[d].node = p
                  THEN "freed" ELSE "none"
  BY DEF Terminate, BurstOver, At, Goto, Inv, inputs, lists
<1>2. c \in Cores /\ p \in Procs /\ c \in Int
  BY <1>1 DEF IndexOK, TypeOK, Core
<1>3. /\ Exclusive /\ Timers /\ Bursts /\ States /\ InTime /\ Alive /\ HandledInTime
      /\ SwitchedOutInTime /\ DistinctWaiting(waitingQueue) /\ DistinctReady(readyQueues)
      /\ RunningOnOccupiedCore
  BY DEF Owned, States
<1>4. Left[p] = 0 /\ proc[p].nextEvents = <<>>
      /\ proc[p].advancementTime = workload[p].processDuration
  BY TerminatedInTime
<1>5. p \notin InIO /\ c \notin Leaving
  BY TerminatedInTime
<1>6. core[c].state = "OCCUPIED"
  BY TerminatedInTime
<1>7. /\ p \notin Ready /\ p \notin Waiting /\ disk.node # p
      /\ \A d \in Cores : d # c => core[d].node # p
  BY <1>1, <1>2, <1>3, <1>5 DEF Exclusive, InIO
<1>8. fault' = "none"
  BY <1>1, <1>2, <1>7 DEF Linked, InReadyQueues, Ready, InQueues, Waiting
<1>9. /\ core'[c].state = "IDLE" /\ core'[c].node = NULL
      /\ core'[c].switchInTimer = 0 /\ core'[c].switchOutTimer = 0
      /\ \A d \in Cores : d # c => core'[d] = core[d]
  BY <1>1, <1>2, <1>3, <1>6 DEF Timers, TypeOK, Core
<1>10. /\ proc'[p].state = "TERMINATED" /\ proc'[p].nextEvents = <<>>
       /\ proc'[p].advancementTime = workload[p].processDuration
       /\ \A o \in Procs : o # p => proc'[o] = proc[o]
  BY <1>1, <1>2, <1>4 DEF TypeOK, Process
<1>11. proc[p].state = "RUNNING"
  BY <1>2, <1>3, <1>6 DEF RunningOnOccupiedCore
<1>12. UNCHANGED <<Ready, Waiting, InIO>>
  BY <1>1, ViewsUnchanged
<1>13. c \notin Leaving' /\ Leaving' = Leaving
  BY <1>5, <1>9 DEF Leaving, LeavesForIO
<1>14. Left' = Left
  <2>1. \A o \in Procs : CurEventTimeLeft(o)' = CurEventTimeLeft(o)
    BY <1>1, <1>4, <1>10 DEF CurEventTimeLeft, TimeLeft
  <2> QED BY <2>1 DEF Left
<1>15. /\ phase = "event" /\ phase' = "resume" /\ index' = index
       /\ UNCHANGED <<time, workload, waitingQueue, disk, readyQueues>>
       /\ core[c].node = p
  BY <1>1
<1> HIDE DEF c, p
<1>16. /\ p \in InCPU /\ InCPU' = InCPU \ {p}
  <2>1. p \in InCPU
    BY <1>2, <1>5, <1>15 DEF InCPU
  <2>2. p \notin InCPU'
    BY <1>7, <1>9, <1>12, <1>2, NullIsNoProcess DEF InCPU
  <2>3. ASSUME NEW o, o # p PROVE o \in InCPU' <=> o \in InCPU
    <3>1. \A d \in Cores : core'[d].node = o /\ o \in Procs <=> core[d].node = o /\ o \in Procs
      BY <2>3, <1>9, <1>15, NullIsNoProcess
    <3> QED BY <1>12, <1>13, <3>1 DEF InCPU
  <2> QED BY <2>1, <2>2, <2>3
<1>17. Exclusive'
  <2>0. NULL \notin Ready
    BY NullIsNoProcess DEF Ready, InQueues
  <2>1. /\ Ready' \cap Waiting' = {} /\ disk'.node \notin Ready' /\ disk'.node \notin Waiting'
    BY <1>3, <1>12, <1>15 DEF Exclusive
  <2>2. ASSUME NEW d \in Cores
        PROVE  /\ core'[d].node \notin Ready'
               /\ core'[d].node \in Procs => (d \in Leaving' <=> core'[d].node \in InIO')
    BY <1>3, <1>9, <1>12, <1>13, <2>0, NullIsNoProcess DEF Exclusive
  <2>3. ASSUME NEW d \in Cores, NEW e \in Cores, core'[d].node = core'[e].node
        PROVE  d = e \/ core'[d].node = NULL
    BY <1>3, <1>9, <2>3 DEF Exclusive
  <2> QED BY <2>1, <2>2, <2>3 DEF Exclusive
<1>18. Timers'
  BY <1>3, <1>9 DEF Timers
<1>19. Bursts'
  <2>1. GoodEvents(proc'[p].nextEvents, workload[p].processDuration)
    BY <1>2, <1>3, <1>4, <1>10 DEF Bursts
  <2>2. \A o \in Procs : o # p => /\ proc'[o] = proc[o] /\ (o \in InIO' <=> o \in InIO)
                                 /\ (o \in InCPU' <=> o \in InCPU)
    BY <1>10, <1>12, <1>16
  <2>3. p \notin InIO' /\ p \notin InCPU'
    BY <1>5, <1>12, <1>16
  <2> QED BY <1>3, <1>10, <1>15, <2>1, <2>2, <2>3 DEF Bursts
<1>20. RunningOnOccupiedCore'
  <2>1. proc'[p].state # "RUNNING" /\ \A d \in Cores : core'[d].node # p
    BY <1>2, <1>7, <1>9, <1>10, NullIsNoProcess
  <2>2. ASSUME NEW o \in Procs, o # p
        PROVE  proc'[o].state = "RUNNING"
                 <=> \E d \in Cores : core'[d].state = "OCCUPIED" /\ core'[d].node = o
    <3>1. proc'[o] = proc[o]
      BY <1>10, <2>2
    <3>2. \A d \in Cores : core'[d].state = "OCCUPIED" /\ core'[d].node = o
                             <=> core[d].state = "OCCUPIED" /\ core[d].node = o
      BY <1>9, <1>15, <2>2
    <3> QED BY <1>3, <3>1, <3>2 DEF RunningOnOccupiedCore
  <2> QED BY <2>1, <2>2 DEF RunningOnOccupiedCore
<1>21. States'
  BY <1>3, <1>10, <1>12, <1>20 DEF States
<1>22. Interrupted => Interrupted'
  BY <1>6, <1>9 DEF Interrupted
<1>23. InTime'
  <2>1. \A o \in Ready' \cup Waiting' : Left'[o] >= 1
    BY <1>3, <1>12, <1>14 DEF InTime
  <2>2. ASSUME NEW d \in Cores \ Leaving', core'[d].node \in Procs
        PROVE  Left'[core'[d].node] >= IF core'[d].state = "OCCUPIED" THEN 0 ELSE 1
    BY <1>3, <1>9, <1>13, <1>14, <2>2, NullIsNoProcess DEF InTime
  <2>3. /\ disk'.node \in Procs => Left'[disk'.node] >= 0
        /\ disk'.node \in Procs /\ disk'.state = "DISK_IDLE" =>
             Interrupted' /\ Left'[disk'.node] = 0
    BY <1>3, <1>14, <1>15, <1>22 DEF InTime
  <2>4. ASSUME disk'.node \in Procs, disk'.state = "DISK_IDLE", NEW d \in Cores
        PROVE  core'[d].node # disk'.node
    BY <1>3, <1>9, <1>15, <2>4, NullIsNoProcess DEF InTime
  <2> QED BY <2>1, <2>2, <2>3, <2>4 DEF InTime
<1>24. Alive'
  <2>1. \A o \in Procs : Arrived(o)' <=> Arrived(o)
    BY <1>15 DEF Arrived
  <2>2. Arrived(p)
    BY <1>2, <1>3, <1>16 DEF Alive, Living
  <2> QED BY <1>3, <1>5, <1>10, <1>12, <1>15, <1>16, <2>1, <2>2 DEF Alive, Living
<1>25. HandledInTime'
  <2>1. ASSUME NEW d \in Cores, d # c, Handled(d)'
        PROVE  Handled(d)
    BY <1>15, <1>2, <2>1 DEF Handled, Cores, c
  <2> QED BY <1>3, <1>9, <1>14, <1>15, <2>1 DEF HandledInTime
<1>26. SwitchedOutInTime'
  <2>1. \A d \in Leaving : d \in Cores
    BY DEF Leaving
  <2> QED BY <1>3, <1>5, <1>9, <1>13, <1>14, <1>15, <2>1 DEF SwitchedOutInTime
<1>27. DiskInTime'
  BY <1>15 DEF DiskInTime
<1>28. Owned'
  BY <1>3, <1>15, <1>17, <1>18, <1>19, <1>21, <1>23, <1>24, <1>25, <1>26, <1>27 DEF Owned
<1> QED
  BY <1>8, <1>20, <1>28 DEF Kept, OkFaults

(* A CPU burst is over and an I/O burst follows: the process is on the     *)
(* wait queue, and its core, if a switch-out takes time, leaves it.        *)
LEMMA StartIOKept ==
  ASSUME Inv, Inv', Owned, StartIO
  PROVE  Kept'
<1> DEFINE c == index
           p == core[c].node
<1>1. /\ TypeOK /\ IndexOK /\ phase = "event" /\ fault = "none" /\ p # NULL
      /\ BurstOver(c) /\ ~Finished(p)
      /\ UNCHANGED <<time, workload, readyQueues, disk>>
      /\ core' = IF SwitchOutDuration > 0
                 THEN [core EXCEPT ![c].state = "SWITCH_OUT",
                                   ![c].switchOutTimer = SwitchOutDuration,
                                   ![c].continueOnCPU = FALSE]
                 ELSE [core EXCEPT ![c].state = "IDLE", ![c].node = NULL,
                                   ![c].continueOnCPU = FALSE]
      /\ proc' = [proc EXCEPT ![p].state = "WAITING", ![p].nextEvents = Rest(@)]
      /\ phase' = "resume" /\ index' = index
      /\ IF Linked(p) THEN fault' = "relinked" /\ UNCHANGED waitingQueue
         ELSE waitingQueue' = Append(waitingQueue, p) /\ UNCHANGED fault
  BY DEF StartIO, BurstOver, At, Goto, Inv, inputs
<1>2. c \in Cores /\ p \in Procs /\ c \in Int /\ core[c] \in Core
  BY <1>1 DEF IndexOK, TypeOK, Core
<1>3. /\ Exclusive /\ Timers /\ Bursts /\ States /\ InTime /\ Alive /\ HandledInTime
      /\ SwitchedOutInTime /\ DistinctWaiting(waitingQueue) /\ DistinctReady(readyQueues)
      /\ RunningOnOccupiedCore
  BY DEF Owned, States
<1>4. Left[p] = 0 /\ CurEventTimeLeft(p) = 0 /\ proc[p].nextEvents # <<>>
  <2>1. Left[p] = 0 /\ CurEventTimeLeft(p) = 0
    BY <1>1, <1>2, LeftOf DEF BurstOver
  <2>2. ASSUME proc[p].nextEvents = <<>> PROVE FALSE
    <3>1. proc[p].advancementTime \in Nat /\ workload[p].processDuration \in Nat
      BY <1>1, <1>2 DEF TypeOK, Process, ProcessInput
    <3>2. workload[p].processDuration - proc[p].advancementTime = 0
      BY <2>1, <2>2 DEF CurEventTimeLeft, TimeLeft
    <3> QED BY <1>1, <3>1, <3>2 DEF Finished
  <2> QED BY <2>1, <2>2
<1>5. c \notin Leaving
  <2>1. ASSUME c \in Leaving PROVE FALSE
    <3>1. ~SwitchedOut(c) /\ phase # "advanceScheduling"
      BY <1>1 DEF BurstOver
    <3>2. core[c].switchOutTimer # 0
      BY <2>1, <3>1 DEF Leaving, LeavesForIO, SwitchedOut
    <3>3. core[c].switchOutTimer \in Int /\ core[c].switchOutTimer >= 0
      BY <1>2, <1>3 DEF Timers, Core
    <3>4. Left[p] >= core[c].switchOutTimer - 0
      BY <1>3, <2>1, <3>1 DEF SwitchedOutInTime
    <3> QED BY <1>4, <3>2, <3>3, <3>4
  <2> QED BY <2>1
<1>6. core[c].state = "OCCUPIED"
  BY <1>2, <1>3, <1>4, <1>5 DEF InTime
<1>7. /\ p \notin Ready /\ p \notin Waiting /\ disk.node # p /\ p \notin InIO
      /\ \A d \in Cores : d # c => core[d].node # p
  BY <1>1, <1>2, <1>3, <1>5 DEF Exclusive, InIO
<1>8. fault' = "none" /\ waitingQueue' = Append(waitingQueue, p)
  BY <1>1, <1>2, <1>7 DEF Linked, InReadyQueues, Ready, InQueues, Waiting
<1>9. /\ core[c].switchInTimer = 0 /\ core[c].switchOutTimer = 0
      /\ \A d \in Cores : d # c => core'[d] = core[d]
  BY <1>1, <1>2, <1>3, <1>6 DEF Timers, TypeOK, Core
<1>10. \/ /\ SwitchOutDuration > 0 /\ core'[c].node = p /\ core'[c].state = "SWITCH_OUT"
          /\ core'[c].switchOutTimer = SwitchOutDuration /\ core'[c].switchInTimer = 0
          /\ ~core'[c].continueOnCPU
       \/ /\ core'[c].node = NULL /\ core'[c].state = "IDLE"
          /\ core'[c].switchOutTimer = 0 /\ core'[c].switchInTimer = 0
  BY <1>1, <1>2, <1>9 DEF TypeOK, Core
<1>11. p \in InCPU
  BY <1>2, <1>5 DEF InCPU
<1> DEFINE t == Rest(proc[p].nextEvents)
<1>12. /\ GoodEvents(t, workload[p].processDuration)
       /\ t # <<>> /\ t[1].type = "CPU" /\ TimeLeft(p, t) \in Int
       /\ TimeLeft(p, t) >= 1 /\ TimeLeft(p, t) >= SwitchOutDuration
  <2>1. /\ proc[p].nextEvents[1].type = "IO"
        /\ GoodEvents(proc[p].nextEvents, workload[p].processDuration)
    BY <1>2, <1>3, <1>4, <1>11 DEF Bursts
  <2> QED BY <1>1, <1>2, <1>4, <2>1, NextBurst
<1>13. /\ proc'[p].state = "WAITING" /\ proc'[p].nextEvents = t
       /\ proc'[p].advancementTime = proc[p].advancementTime
       /\ \A o \in Procs : o # p => proc'[o] = proc[o]
  BY <1>1, <1>2 DEF TypeOK, Process
<1>14. /\ Left'[p] = TimeLeft(p, t)
       /\ \A o \in Procs : o # p => Left'[o] = Left[o]
  <2>3. workload' = workload
    BY <1>1
  <2> HIDE DEF c, p, t
  <2>1. Left'[p] = TimeLeft(p, t)
    BY <1>2, <1>13, <2>3, LeftAfter
  <2>4. ASSUME NEW o \in Procs, o # p PROVE Left'[o] = Left[o]
    BY <1>13, <2>3, <2>4, LeftOf
  <2> QED BY <2>1, <2>4
<1>15. DistinctWaiting(waitingQueue)' /\ Waiting' = Waiting \cup {p}
  <2>1. waitingQueue \in Seq(Procs)
    BY <1>1 DEF TypeOK
  <2>2. /\ DOMAIN waitingQueue = 1..Len(waitingQueue) /\ Len(waitingQueue) \in Nat
        /\ \A i \in 1..Len(waitingQueue) : waitingQueue[i] # p
    BY <1>2, <1>7, <2>1 DEF Waiting, ProcessInQueue
  <2> HIDE DEF p
  <2>3. /\ DOMAIN waitingQueue' = 1..(Len(waitingQueue) + 1)
        /\ Len(waitingQueue') = Len(waitingQueue) + 1
        /\ \A i \in 1..Len(waitingQueue) : waitingQueue'[i] = waitingQueue[i]
        /\ waitingQueue'[Len(waitingQueue) + 1] = p
    BY <1>2, <1>8, <2>1
  <2>4. DistinctWaiting(waitingQueue)'
    <3>1. \A i \in 1..Len(waitingQueue') : i \in 1..Len(waitingQueue) \/ i = Len(waitingQueue) + 1
      BY <2>2, <2>3
    <3> QED BY <1>3, <2>2, <2>3, <3>1 DEF DistinctWaiting
  <2>5. ASSUME NEW o \in Procs
        PROVE  ProcessInQueue(waitingQueue', o) <=> ProcessInQueue(waitingQueue, o) \/ o = p
    <3>1. \A i \in DOMAIN waitingQueue' : i \in 1..Len(waitingQueue) \/ i = Len(waitingQueue) + 1
      BY <2>2, <2>3
    <3>2. \A i \in 1..Len(waitingQueue) : i \in DOMAIN waitingQueue'
      BY <2>2, <2>3
    <3>3. Len(waitingQueue) + 1 \in DOMAIN waitingQueue'
      BY <2>2, <2>3
    <3> QED BY <2>2, <2>3, <3>1, <3>2, <3>3 DEF ProcessInQueue
  <2> QED BY <1>2, <2>4, <2>5 DEF Waiting
<1>16. /\ phase = "event" /\ phase' = "resume" /\ index' = index
       /\ UNCHANGED <<time, workload, disk, readyQueues>>
       /\ core[c].node = p
  BY <1>1
<1> HIDE DEF c, p, t
<1>17. Ready' = Ready /\ InIO' = InIO \cup {p}
  BY <1>2, <1>15, <1>16, ViewsUnchanged DEF InIO
<1>18. /\ Leaving' \subseteq Leaving \cup {c} /\ Leaving \subseteq Leaving'
       /\ core'[c].node = p <=> c \in Leaving'
  BY <1>2, <1>5, <1>9, <1>10, NullIsNoProcess DEF Leaving, LeavesForIO
<1>19. InCPU' = InCPU \ {p}
  <2>1. p \notin InCPU'
    BY <1>2, <1>7, <1>9, <1>10, <1>17, <1>18, NullIsNoProcess DEF InCPU
  <2>2. ASSUME NEW o \in Procs, o # p PROVE o \in InCPU' <=> o \in InCPU
    <3>1. \A d \in Cores : core'[d].node = o <=> core[d].node = o
      BY <2>2, <1>9, <1>10, <1>16, NullIsNoProcess
    <3>2. core[c].node # o /\ \A d \in Cores : d # c => (d \in Leaving' <=> d \in Leaving)
      BY <1>16, <1>18, <2>2
    <3> QED BY <1>17, <3>1, <3>2 DEF InCPU
  <2>3. \A o \in InCPU \cup InCPU' : o \in Procs
    BY DEF InCPU, Ready, InQueues
  <2> QED BY <2>1, <2>2, <2>3
<1>20. Exclusive'
  <2>0. NULL \notin Ready
    BY NullIsNoProcess DEF Ready, InQueues
  <2>1. /\ Ready' \cap Waiting' = {} /\ disk'.node \notin Ready' /\ disk'.node \notin Waiting'
    BY <1>3, <1>7, <1>15, <1>16, <1>17 DEF Exclusive
  <2>2. ASSUME NEW d \in Cores
        PROVE  /\ core'[d].node \notin Ready'
               /\ core'[d].node \in Procs => (d \in Leaving' <=> core'[d].node \in InIO')
    <3>1. CASE d = c
      BY <1>2, <1>7, <1>10, <1>17, <1>18, <2>0, <3>1, NullIsNoProcess
    <3>2. CASE d # c
      BY <1>3, <1>7, <1>9, <1>17, <1>18, <3>2 DEF Exclusive
    <3> QED BY <3>1, <3>2
  <2>3. ASSUME NEW d \in Cores, NEW e \in Cores, core'[d].node = core'[e].node
        PROVE  d = e \/ core'[d].node = NULL
    BY <1>3, <1>7, <1>9, <1>10, <2>3 DEF Exclusive
  <2> QED BY <2>1, <2>2, <2>3 DEF Exclusive
<1>21. Timers'
  <2>1. SwitchOutDuration \in Nat
    BY DurationAssumption
  <2>2. p # NULL
    BY <1>2, NullIsNoProcess
  <2> QED BY <1>3, <1>9, <1>10, <2>1, <2>2 DEF Timers
<1>22. Bursts'
  <2>1. \A o \in Procs : o # p => /\ proc'[o] = proc[o] /\ (o \in InIO' <=> o \in InIO)
                                 /\ (o \in InCPU' <=> o \in InCPU)
    BY <1>13, <1>17, <1>19
  <2>2. p \notin InCPU'
    BY <1>19
  <2> QED BY <1>3, <1>12, <1>13, <1>16, <2>1, <2>2 DEF Bursts
<1>23. RunningOnOccupiedCore'
  BY <1>2, <1>3, <1>7, <1>9, <1>10, <1>13, <1>16 DEF RunningOnOccupiedCore
<1>24. States'
  BY <1>3, <1>13, <1>17, <1>23 DEF States
<1>25. Interrupted => Interrupted'
  BY <1>6, <1>9 DEF Interrupted
<1>26. InTime'
  <2>1. \A o \in Ready' \cup Waiting' : o \in Procs /\ Left'[o] >= 1
    <3>1. \A o \in Ready \cup Waiting : o \in Procs
      BY DEF Ready, InQueues, Waiting
    <3> QED BY <1>2, <1>3, <1>12, <1>14, <1>15, <1>17, <3>1 DEF InTime
  <2>2. ASSUME NEW d \in Cores \ Leaving', core'[d].node \in Procs
        PROVE  Left'[core'[d].node] >= IF core'[d].state = "OCCUPIED" THEN 0 ELSE 1
    <3>1. d # c
      BY <1>10, <1>18, <2>2, NullIsNoProcess
    <3> QED BY <1>3, <1>7, <1>9, <1>14, <1>18, <2>2, <3>1 DEF InTime
  <2>3. /\ disk'.node \in Procs => Left'[disk'.node] >= 0
        /\ disk'.node \in Procs /\ disk'.state = "DISK_IDLE" =>
             Interrupted' /\ Left'[disk'.node] = 0
    BY <1>3, <1>7, <1>14, <1>16, <1>25 DEF InTime
  <2>4. ASSUME disk'.node \in Procs, disk'.state = "DISK_IDLE", NEW d \in Cores
        PROVE  core'[d].node # disk'.node
    BY <1>3, <1>7, <1>9, <1>10, <1>16, <2>4, NullIsNoProcess DEF InTime
  <2> QED BY <2>1, <2>2, <2>3, <2>4 DEF InTime
<1>27. Alive'
  <2>1. \A o \in Procs : Arrived(o)' <=> Arrived(o)
    BY <1>16 DEF Arrived
  <2>2. Arrived(p)
    BY <1>2, <1>3, <1>11 DEF Alive, Living
  <2>3. \A o \in Procs : o = p => Living(o)'
    BY <1>13, <2>1, <2>2 DEF Living
  <2>4. \A o \in Procs : o # p => (Living(o)' <=> Living(o))
    BY <1>13, <2>1 DEF Living
  <2>5. \A o \in Procs : Living(o)' <=> o \in InIO' \cup InCPU'
    BY <1>3, <1>17, <1>19, <2>3, <2>4 DEF Alive
  <2>6. ASSUME NEW o \in Procs, ~Arrived(o)'
        PROVE  proc'[o] = [state |-> "READY", nextEvents |-> workload'[o].events,
                           advancementTime |-> 0]
    BY <1>3, <1>13, <1>16, <2>1, <2>2, <2>6 DEF Alive
  <2> QED BY <2>5, <2>6 DEF Alive
<1>28. HandledInTime'
  <2>1. ASSUME NEW d \in Cores, d # c, Handled(d)'
        PROVE  Handled(d)
    BY <1>16, <1>2, <2>1 DEF Handled, Cores, c
  <2>2. ASSUME NEW d \in Cores, d # c, Handled(d)
        PROVE  /\ core[d].state = "SWITCH_IN" => core[d].switchInTimer >= 1
               /\ core[d].state = "SWITCH_OUT" => core[d].switchOutTimer >= 1
               /\ core[d].state = "OCCUPIED" => Left'[core[d].node] >= 1
    <3>1. core[d].state = "OCCUPIED" => core[d].node \in Procs /\ core[d].node # p
      BY <1>1, <1>7, <2>2 DEF Inv, CoreOK, TypeOK, Core
    <3> QED BY <1>3, <1>14, <1>16, <2>2, <3>1 DEF HandledInTime
  <2>3. SwitchOutDuration > 0 => SwitchOutDuration >= 1
    BY DurationAssumption
  <2> QED BY <1>9, <1>10, <2>1, <2>2, <2>3 DEF HandledInTime
<1>29. SwitchedOutInTime'
  <2>1. \A d \in Leaving : d \in Cores
    BY DEF Leaving
  <2>2. ASSUME NEW d \in Leaving', d # c
        PROVE  Left'[core'[d].node] >= core'[d].switchOutTimer - 0
    <3>1. d \in Leaving /\ d \in Cores
      BY <1>18, <2>1, <2>2
    <3>2. core[d].node \in Procs /\ core[d].node # p
      BY <1>1, <1>7, <2>2, <3>1 DEF Leaving, LeavesForIO, TypeOK, Core
    <3> QED BY <1>3, <1>9, <1>14, <1>16, <2>2, <3>1, <3>2 DEF SwitchedOutInTime
  <2>3. ASSUME c \in Leaving'
        PROVE  Left'[core'[c].node] >= core'[c].switchOutTimer - 0
    <3>1. core'[c].node = p /\ core'[c].switchOutTimer = SwitchOutDuration
      BY <1>10, <1>18, <2>3, <1>2, NullIsNoProcess
    <3>2. SwitchOutDuration \in Nat
      BY DurationAssumption
    <3> QED BY <1>12, <1>14, <3>1, <3>2
  <2> QED BY <1>16, <2>2, <2>3 DEF SwitchedOutInTime
<1>30. DiskInTime'
  BY <1>16 DEF DiskInTime
<1>31. Owned'
  BY <1>3, <1>15, <1>16, <1>20, <1>21, <1>22, <1>24, <1>26, <1>27, <1>28, <1>29, <1>30 DEF Owned
<1> QED
  BY <1>8, <1>23, <1>31 DEF Kept, OkFaults

-----------------------------------------------------------------------------
(* The end of an I/O operation *)

(* The process on the disk, which no core holds, becomes ready; the cores  *)
(* of the processes in `running` take up what an interrupt stopped.        *)
LEMMA EndIOOwned ==
  ASSUME Inv, Owned, NEW p \in Procs, disk.node = p, Left[p] = 0,
         \A c \in Cores : core[c].node # p,
         NEW running \in SUBSET Procs, EndIO(p, running),
         \A o \in running : \E c \in Cores : core[c].node = o,
         UNCHANGED <<workload, waitingQueue, Leaving>>, Timers',
         disk'.node = NULL, disk'.state = "DISK_IDLE",
         \A c \in Cores :
           /\ core'[c].node = core[c].node /\ core'[c].switchOutTimer = core[c].switchOutTimer
           /\ core'[c].switchInTimer = core[c].switchInTimer
           /\ core'[c].state = "OCCUPIED" <=>
                core[c].state = "OCCUPIED" \/ core[c].node \in running
           /\ \/ core'[c].state = core[c].state
              \/ /\ core[c].state = "INTERRUPTED"
                 /\ core'[c].state = "SWITCH_IN" => core[c].switchInTimer >= 1
                 /\ core'[c].state = "SWITCH_OUT" => core[c].switchOutTimer >= 1
                 /\ core'[c].state = "OCCUPIED" => c \notin Leaving,
         \A o \in Procs : Arrived(o)' <=> Arrived(o),
         \A c \in Cores : Handled(c)' => Handled(c),
         phase # "advanceScheduling", phase' # "advanceScheduling"
  PROVE  Kept'
<1> DEFINE t == Rest(proc[p].nextEvents)
<1>1. /\ Exclusive /\ Timers /\ Bursts /\ States /\ InTime /\ Alive /\ HandledInTime
      /\ SwitchedOutInTime /\ DistinctWaiting(waitingQueue) /\ DistinctReady(readyQueues)
      /\ RunningOnOccupiedCore /\ TypeOK
  BY DEF Owned, States, Inv
<1>2. p \in InIO /\ p \notin Ready /\ p \notin Waiting /\ p \notin InCPU /\ p # NULL
      /\ p \notin running
  <2>1. p \notin Ready /\ p \notin Waiting
    BY <1>1 DEF Exclusive
  <2> QED BY <2>1, NullIsNoProcess DEF InIO, InCPU
<1>3. /\ proc[p].nextEvents # <<>> /\ CurEventTimeLeft(p) = 0
      /\ proc[p].nextEvents[1].type = "CPU"
      /\ GoodEvents(proc[p].nextEvents, workload[p].processDuration)
  BY <1>1, <1>2, LeftOf DEF Bursts
<1>4. /\ GoodEvents(t, workload[p].processDuration) /\ TimeLeft(p, t) \in Int
      /\ TimeLeft(p, t) >= 1 /\ (t # <<>> => t[1].type = "IO")
  BY <1>1, <1>3, NextBurst
<1>5. HandleProcessForCPU(readyQueues, stalePrev, p, node[p], TimeLeft(p, t))
  BY <1>3 DEF EndIO
<1>6. \A o \in Procs :
        /\ proc'[o].state = IF o \in running THEN "RUNNING" ELSE IF o = p THEN "READY"
                            ELSE proc[o].state
        /\ proc'[o].nextEvents = IF o = p THEN t ELSE proc[o].nextEvents
        /\ proc'[o].advancementTime = proc[o].advancementTime
        /\ o # p /\ o \notin running => proc'[o] = proc[o]
  <2>1. proc' = [x \in Procs |->
           [proc[x] EXCEPT
              !.state = IF x \in running THEN "RUNNING" ELSE IF x = p THEN "READY" ELSE @,
              !.nextEvents = IF x = p THEN Rest(@) ELSE @]]
    BY DEF EndIO
  <2>2. \A o \in Procs : proc[o] \in Process
    BY <1>1 DEF TypeOK
  <2> QED BY <2>1, <2>2 DEF Process
<1> HIDE DEF t
<1>7. /\ fault' \in {"none", "queueIndex", "stalePrev"}
      /\ fault' = "none" => Ready' = Ready \cup {p} /\ DistinctReady(readyQueues')
  <2>1. node[p] \in Node /\ readyQueues \in [Queue -> Seq(Procs)]
    BY <1>1 DEF TypeOK
  <2> QED BY <1>1, <1>2, <1>4, <1>5, <2>1, Enqueued DEF Ready
<1>8. /\ Left'[p] = TimeLeft(p, t) /\ \A o \in Procs : o # p => Left'[o] = Left[o]
  <2>1. Left'[p] = TimeLeft(p, t)
    BY <1>6, LeftAfter
  <2>2. ASSUME NEW o \in Procs, o # p PROVE Left'[o] = Left[o]
    <3>1. proc'[o].nextEvents = proc[o].nextEvents
          /\ proc'[o].advancementTime = proc[o].advancementTime
      BY <1>6, <2>2
    <3> QED BY <3>1 DEF Left, CurEventTimeLeft, TimeLeft
  <2> QED BY <2>1, <2>2
<1>9. Waiting' = Waiting /\ InIO' = InIO \ {p}
  <2>1. Waiting' = Waiting
    BY ViewsUnchanged
  <2> QED BY <1>2, <2>1, NullIsNoProcess DEF InIO
<1>10. RunningOnOccupiedCore'
  <2>1. ASSUME NEW o \in Procs
        PROVE  proc'[o].state = "RUNNING"
                 <=> \E c \in Cores : core'[c].state = "OCCUPIED" /\ core'[c].node = o
    <3>1. CASE o = p
      BY <1>2, <1>6, <3>1
    <3>2. CASE o \in running
      BY <1>6, <3>2
    <3>3. CASE o # p /\ o \notin running
      BY <1>1, <1>6, <3>3 DEF RunningOnOccupiedCore
    <3> QED BY <3>1, <3>2, <3>3
  <2> QED BY <2>1 DEF RunningOnOccupiedCore
<1>11. ASSUME fault' = "none" PROVE Owned'
  <2>1. Ready' = Ready \cup {p} /\ DistinctReady(readyQueues)'
    BY <1>7, <1>11
  <2>2. InCPU' = InCPU \cup {p}
    BY <2>1 DEF InCPU
  <2>3. Exclusive'
    <3>1. /\ Ready' \cap Waiting' = {} /\ disk'.node \notin Ready' /\ disk'.node \notin Waiting'
      <4>1. NULL \notin Ready' /\ NULL \notin Waiting'
        BY NullIsNoProcess DEF Ready, InQueues, Waiting
      <4> QED BY <1>1, <1>2, <1>9, <2>1, <4>1 DEF Exclusive
    <3>2. ASSUME NEW d \in Cores
          PROVE  /\ core'[d].node \notin Ready'
                 /\ core'[d].node \in Procs => (d \in Leaving' <=> core'[d].node \in InIO')
      BY <1>1, <1>9, <2>1 DEF Exclusive
    <3>3. ASSUME NEW d \in Cores, NEW e \in Cores, core'[d].node = core'[e].node
          PROVE  d = e \/ core'[d].node = NULL
      BY <1>1, <3>3 DEF Exclusive
    <3> QED BY <3>1, <3>2, <3>3 DEF Exclusive
  <2>4. Bursts'
    <3>1. ASSUME NEW o \in Procs, o # p
          PROVE  /\ proc'[o].nextEvents = proc[o].nextEvents
                 /\ proc'[o].advancementTime = proc[o].advancementTime
                 /\ (proc'[o].state = "TERMINATED" => proc[o].state = "TERMINATED")
                 /\ (o \in InIO' <=> o \in InIO) /\ (o \in InCPU' <=> o \in InCPU)
      BY <1>6, <1>9, <2>2, <3>1
    <3>2. /\ proc'[p].nextEvents = t /\ p \notin InIO' /\ proc'[p].state # "TERMINATED"
      BY <1>2, <1>6, <1>9
    <3> QED BY <1>1, <1>4, <3>1, <3>2 DEF Bursts
  <2>5. States'
    <3>1. ASSUME NEW o \in Procs, proc'[o].state = "WAITING" PROVE o \in InIO'
      BY <1>1, <1>6, <1>9, <3>1 DEF States
    <3> QED BY <1>10, <3>1 DEF States
  <2>6. InTime'
    <3>1. \A o \in Ready' \cup Waiting' : o \in Procs /\ Left'[o] >= 1
      <4>1. \A o \in Ready' \cup Waiting' : o \in Procs
        BY DEF Ready, InQueues, Waiting
      <4> QED BY <1>1, <1>4, <1>8, <1>9, <2>1, <4>1 DEF InTime
    <3>2. ASSUME NEW d \in Cores \ Leaving', core'[d].node \in Procs
          PROVE  Left'[core'[d].node] >= IF core'[d].state = "OCCUPIED" THEN 0 ELSE 1
      <4>1. d \in Cores /\ d \notin Leaving /\ core[d].node \in Procs
            /\ Left'[core'[d].node] = Left[core[d].node] /\ Left[core[d].node] \in Int
        BY <1>1, <1>8, <3>2, LeftIsInt
      <4>2. Left[core[d].node] >= IF core[d].state = "OCCUPIED" THEN 0 ELSE 1
        BY <1>1, <4>1 DEF InTime
      <4>3. core[d].state = "OCCUPIED" => core'[d].state = "OCCUPIED"
        OBVIOUS
      <4> QED BY <4>1, <4>2, <4>3
    <3> QED BY <3>1, <3>2, NullIsNoProcess DEF InTime
  <2>7. Alive'
    <3>1. \A o \in Procs : o \in running => Living(o) /\ Arrived(o)
      <4>1. ASSUME NEW o \in Procs, o \in running PROVE o \in InIO \cup InCPU
        BY <1>1, <4>1 DEF Exclusive, InCPU
      <4> QED BY <1>1, <4>1 DEF Alive, Living
    <3>2. Living(p) /\ Arrived(p)
      BY <1>1, <1>2 DEF Alive, Living
    <3>3. ASSUME NEW o \in Procs PROVE Living(o)' <=> Living(o)
      BY <1>6, <3>1, <3>2 DEF Living
    <3>4. ASSUME NEW o \in Procs PROVE o \in InIO' \cup InCPU' <=> o \in InIO \cup InCPU
      BY <1>2, <1>9, <2>2
    <3>5. ASSUME NEW o \in Procs, ~Arrived(o)'
          PROVE  proc'[o] = [state |-> "READY", nextEvents |-> workload'[o].events,
                             advancementTime |-> 0]
      BY <1>1, <1>6, <3>1, <3>2, <3>5 DEF Alive
    <3> QED BY <1>1, <3>3, <3>4, <3>5 DEF Alive
  <2>8. HandledInTime'
    <3>1. ASSUME NEW d \in Cores, Handled(d)
          PROVE  /\ core'[d].state = "SWITCH_IN" => core'[d].switchInTimer >= 1
                 /\ core'[d].state = "SWITCH_OUT" => core'[d].switchOutTimer >= 1
      BY <1>1, <3>1 DEF HandledInTime
    <3>2. ASSUME NEW d \in Cores, Handled(d), core'[d].state = "OCCUPIED"
          PROVE  Left'[core'[d].node] >= 1
      <4>1. core[d].node \in Procs
        <5>1. CASE core[d].state = "OCCUPIED"
          BY <1>1, <5>1 DEF Inv, CoreOK, TypeOK, Core
        <5>2. CASE core[d].state # "OCCUPIED"
          BY <3>2, <5>2
        <5> QED BY <5>1, <5>2
      <4>2. Left'[core'[d].node] = Left[core[d].node]
        BY <1>8, <4>1
      <4>3. CASE core[d].state = "OCCUPIED"
        BY <1>1, <3>2, <4>2, <4>3 DEF HandledInTime
      <4>4. CASE core[d].state # "OCCUPIED"
        <5>1. d \notin Leaving
          BY <3>2, <4>4
        <5> QED BY <1>1, <4>1, <4>2, <4>4, <5>1 DEF InTime
      <4> QED BY <4>3, <4>4
    <3> QED BY <3>1, <3>2 DEF HandledInTime
  <2>9. SwitchedOutInTime'
    <3>1. ASSUME NEW d \in Leaving
          PROVE  /\ Left[core[d].node] >= core[d].switchOutTimer - 0
                 /\ Left'[core'[d].node] = Left[core[d].node]
                 /\ core'[d].switchOutTimer = core[d].switchOutTimer
      <4>1. d \in Cores /\ core[d].node \in Procs
        BY <1>1 DEF Leaving, LeavesForIO, TypeOK, Core
      <4> QED BY <1>1, <1>8, <4>1 DEF SwitchedOutInTime
    <3> QED BY <3>1 DEF SwitchedOutInTime
  <2>10. DiskInTime'
    BY DEF DiskInTime
  <2>11. DistinctWaiting(waitingQueue)'
    BY <1>1
  <2> QED BY <2>1, <2>3, <2>4, <2>5, <2>6, <2>7, <2>8, <2>9, <2>10, <2>11 DEF Owned
<1> QED
  BY <1>7, <1>10, <1>11 DEF Kept, OkFaults

(* An interrupt is over: the process of the disk is ready, the core takes  *)
(* up what it was doing.                                                   *)
LEMMA ResumeKept ==
  ASSUME Inv, Inv', Owned, Resume
  PROVE  Kept'
<1> DEFINE c       == index
           before  == StateBeforeInterrupt(c)
           running == IF before = "OCCUPIED" THEN {core[c].node} ELSE {}
           p       == disk.node
<1>1. /\ TypeOK /\ IndexOK /\ InterruptHoldsDisk /\ phase = "resume"
      /\ core[c].state = "INTERRUPTED" /\ EndIO(p, running)
      /\ disk' = [disk EXCEPT !.node = NULL]
      /\ core' = [core EXCEPT ![c].state = before]
      /\ UNCHANGED <<time, workload, waitingQueue>> /\ NextCore
  BY DEF Resume, InterruptOver, At, Inv, inputs
<1>2. c \in Cores /\ c \in Int /\ core[c] \in Core
  BY <1>1 DEF IndexOK, TypeOK, Cores
<1>3. /\ Exclusive /\ Timers /\ States /\ InTime
  BY DEF Owned
<1>4. p \in Procs /\ disk.state = "DISK_IDLE"
  BY <1>1, <1>2 DEF InterruptHoldsDisk, Interrupted, TypeOK, Disk
<1>5. Left[p] = 0 /\ \A d \in Cores : core[d].node # p
  BY <1>3, <1>4 DEF InTime
<1>6. /\ before \in {"IDLE", "SWITCH_IN", "SWITCH_OUT", "OCCUPIED"}
      /\ before = "IDLE" <=> core[c].node = NULL
      /\ before = "SWITCH_IN" => core[c].switchInTimer # 0
      /\ before = "SWITCH_OUT" <=>
           core[c].node # NULL /\ core[c].switchInTimer = 0 /\ core[c].switchOutTimer # 0
      /\ before = "OCCUPIED" => core[c].switchInTimer = 0 /\ core[c].switchOutTimer = 0
  BY DEF StateBeforeInterrupt
<1> HIDE DEF before
<1>7. /\ core'[c].state = before /\ core'[c].node = core[c].node
      /\ core'[c].switchInTimer = core[c].switchInTimer
      /\ core'[c].switchOutTimer = core[c].switchOutTimer
      /\ core'[c].continueOnCPU = core[c].continueOnCPU
      /\ \A d \in Cores : d # c => core'[d] = core[d]
  BY <1>1, <1>2 DEF TypeOK, Core
<1>8. running \in SUBSET Procs
  <2>1. core[c].node \in Procs \cup {NULL}
    BY <1>2 DEF Core
  <2> QED BY <1>6, <2>1
<1>9. core[c].switchInTimer \in Int /\ core[c].switchOutTimer \in Int
      /\ core[c].switchInTimer >= 0 /\ core[c].switchOutTimer >= 0
      /\ (core[c].switchInTimer = 0 \/ core[c].switchOutTimer = 0)
      /\ (core[c].node = NULL => core[c].switchInTimer = 0 /\ core[c].switchOutTimer = 0)
  BY <1>2, <1>3 DEF Timers, Core
<1>10. Timers'
  <2>1. ASSUME NEW d \in Cores, d # c
        PROVE  core'[d] = core[d]
    BY <1>7, <2>1
  <2> HIDE DEF c, running
  <2> QED BY <1>3, <1>6, <1>7, <1>9, <2>1 DEF Timers
<1>11. Leaving' = Leaving
  <2>1. c \in Leaving' <=> c \in Leaving
    BY <1>1, <1>2, <1>6, <1>7, <1>9 DEF Leaving, LeavesForIO
  <2>2. ASSUME NEW d \in Cores, d # c PROVE d \in Leaving' <=> d \in Leaving
    BY <1>7, <2>2 DEF Leaving, LeavesForIO
  <2>3. Leaving \subseteq Cores /\ Leaving' \subseteq Cores
    BY DEF Leaving
  <2> HIDE DEF c
  <2> QED BY <2>1, <2>2, <2>3
<1>12. \A d \in Cores : Handled(d)' => Handled(d)
  <2>1. \/ phase' = "event" /\ index' = index + 1
        \/ phase' = "sizes" /\ c >= CoreCount - 1
    BY <1>1, <1>2, SizeAssumption DEF NextCore, Goto
  <2> QED BY <1>1, <1>2, <2>1, SizeAssumption DEF Handled, Cores
<1>13. /\ phase # "advanceScheduling" /\ phase' # "advanceScheduling"
       /\ \A o \in Procs : Arrived(o)' <=> Arrived(o)
  <2>1. phase' \in {"event", "sizes"}
    BY <1>1 DEF NextCore, Goto
  <2> QED BY <1>1, <2>1 DEF Arrived
<1>14. disk'.node = NULL /\ disk'.state = "DISK_IDLE"
  BY <1>1, <1>4 DEF TypeOK, Disk
<1>15. before = "OCCUPIED" => core[c].node \in Procs /\ c \notin Leaving
  BY <1>2, <1>6, <1>7, <1>11 DEF Core, Leaving, LeavesForIO
<1> HIDE DEF c
<1>16. ASSUME NEW d \in Cores, d # c PROVE core[d].node \notin running
  <2>1. before = "OCCUPIED" => core[d].node # core[c].node
    BY <1>2, <1>3, <1>15, <1>16, NullIsNoProcess DEF Exclusive
  <2> QED BY <2>1
<1>17. \A o \in running : \E d \in Cores : core[d].node = o
  BY <1>2
<1>18. ASSUME NEW d \in Cores
       PROVE  /\ core'[d].node = core[d].node /\ core'[d].switchOutTimer = core[d].switchOutTimer
              /\ core'[d].switchInTimer = core[d].switchInTimer
              /\ core'[d].state = "OCCUPIED" <=>
                   core[d].state = "OCCUPIED" \/ core[d].node \in running
              /\ \/ core'[d].state = core[d].state
                 \/ /\ core[d].state = "INTERRUPTED"
                    /\ core'[d].state = "SWITCH_IN" => core[d].switchInTimer >= 1
                    /\ core'[d].state = "SWITCH_OUT" => core[d].switchOutTimer >= 1
                    /\ core'[d].state = "OCCUPIED" => d \notin Leaving
  <2>1. CASE d = c
    BY <1>1, <1>6, <1>7, <1>9, <1>15, <2>1
  <2>2. CASE d # c
    BY <1>7, <1>16, <2>2
  <2> QED BY <2>1, <2>2
<1>19. p = disk.node
  OBVIOUS
<1> HIDE DEF p, running
<1> QED
  BY <1>1, <1>4, <1>5, <1>8, <1>10, <1>11, <1>12, <1>13, <1>14, <1>17, <1>18, <1>19, EndIOOwned

(* When the disk is looked at, no core holds the process whose operation   *)
(* is over: one that is still switched out has time left.                  *)
LEMMA OnDiskOnNoCore ==
  ASSUME TypeOK, Exclusive, HandledInTime, SwitchedOutInTime,
         phase = "interrupt", ~Interrupted, disk.node \in Procs, Left[disk.node] = 0
  PROVE  \A c \in Cores : core[c].node # disk.node
<1>1. SUFFICES ASSUME NEW c \in Cores, core[c].node = disk.node PROVE FALSE
  OBVIOUS
<1>2. c \in Leaving /\ core[c].state = "SWITCH_OUT"
  <2>1. c \in Leaving
    BY <1>1 DEF Exclusive, InIO
  <2> QED BY <2>1 DEF Leaving, LeavesForIO, Interrupted
<1>3. core[c].switchOutTimer >= 1 /\ core[c].switchOutTimer \in Int
  BY <1>2 DEF HandledInTime, Handled, TypeOK, Core
<1>4. Left[core[c].node] >= core[c].switchOutTimer - 0
  BY <1>2 DEF SwitchedOutInTime
<1> QED
  BY <1>1, <1>3, <1>4

(* An interrupt that takes no time.                                        *)
LEMMA NoInterruptTimeKept ==
  ASSUME Inv, Inv', Owned, NoInterruptTime
  PROVE  Kept'
<1> DEFINE p == disk.node
<1>1. /\ TypeOK /\ phase = "interrupt" /\ phase' = "assignCores"
      /\ ~Interrupted /\ p # NULL /\ CurEventTimeLeft(p) = 0
      /\ EndIO(p, {}) /\ disk'.node = NULL /\ disk'.state = "DISK_IDLE"
      /\ UNCHANGED <<time, workload, waitingQueue, core>>
  BY DEF NoInterruptTime, DiskOperationOver, DiskReleased, At, Goto, Inv, inputs
<1>2. /\ Exclusive /\ Timers /\ HandledInTime /\ SwitchedOutInTime
  BY DEF Owned
<1>3. p \in Procs /\ Left[p] = 0
  BY <1>1, LeftOf DEF TypeOK, Disk
<1>4. ASSUME NEW c \in Cores PROVE core[c].node # p
  BY <1>1, <1>2, <1>3, <1>4, OnDiskOnNoCore
<1>5. /\ UNCHANGED Leaving /\ Timers'
      /\ \A c \in Cores : Handled(c)' => Handled(c)
      /\ \A o \in Procs : Arrived(o)' <=> Arrived(o)
  BY <1>1, <1>2, ViewsUnchanged DEF Handled, Arrived, Timers
<1>6. \A c \in Cores : core'[c] = core[c]
  BY <1>1
<1>7. phase # "advanceScheduling" /\ phase' # "advanceScheduling"
  BY <1>1
<1>8. p = disk.node
  OBVIOUS
<1> HIDE DEF p
<1> QED
  BY <1>1, <1>3, <1>4, <1>5, <1>6, <1>7, <1>8, EndIOOwned

(* A core is interrupted.  It keeps its process, and its timers tell what  *)
(* it was doing.                                                           *)
LEMMA InterruptCoreKept ==
  ASSUME Inv, Inv', Owned, NEW c \in Cores, InterruptCore(c)
  PROVE  Kept'
<1>1. /\ TypeOK /\ phase = "interrupt" /\ phase' = "assignCores" /\ fault' = "none"
      /\ ~Interrupted /\ disk.node # NULL /\ CurEventTimeLeft(disk.node) = 0
      /\ disk' = [disk EXCEPT !.state = "DISK_IDLE"]
      /\ core' = [core EXCEPT ![c].state = "INTERRUPTED", ![c].interruptTimer = InterruptTime]
      /\ proc' = ProcessInterrupted(c)
      /\ UNCHANGED <<time, workload, readyQueues, waitingQueue>>
  BY DEF InterruptCore, DiskOperationOver, At, Goto, Inv, inputs, lists
<1>2. /\ Exclusive /\ Timers /\ Bursts /\ States /\ InTime /\ Alive /\ HandledInTime
      /\ SwitchedOutInTime /\ DistinctWaiting(waitingQueue) /\ DistinctReady(readyQueues)
      /\ RunningOnOccupiedCore
  BY DEF Owned, States
<1>3. disk.node \in Procs /\ Left[disk.node] = 0
  BY <1>1, LeftOf DEF TypeOK, Disk
<1>4. /\ core'[c].state = "INTERRUPTED"
      /\ \A d \in Cores :
           /\ core'[d].node = core[d].node
           /\ core'[d].switchInTimer = core[d].switchInTimer
           /\ core'[d].switchOutTimer = core[d].switchOutTimer
           /\ core'[d].continueOnCPU = core[d].continueOnCPU
           /\ d # c => core'[d] = core[d]
  BY <1>1 DEF TypeOK, Core
<1>5. disk'.node = disk.node /\ disk'.state = "DISK_IDLE"
  BY <1>1 DEF TypeOK, Disk
<1>6. \A o \in Procs :
        /\ proc'[o].state = IF o = core[c].node THEN "READY" ELSE proc[o].state
        /\ proc'[o].nextEvents = proc[o].nextEvents
        /\ proc'[o].advancementTime = proc[o].advancementTime
        /\ o # core[c].node => proc'[o] = proc[o]
  <2>1. \A o \in Procs : proc[o] \in Process
    BY <1>1 DEF TypeOK
  <2>2. \A o \in Procs :
          proc'[o] = IF o = core[c].node THEN [proc[o] EXCEPT !.state = "READY"] ELSE proc[o]
    BY <1>1 DEF ProcessInterrupted
  <2> QED BY <2>1, <2>2 DEF Process
<1>7. Left' = Left
  <2>1. \A o \in Procs : CurEventTimeLeft(o)' = CurEventTimeLeft(o)
    BY <1>1, <1>6 DEF CurEventTimeLeft, TimeLeft
  <2> QED BY <2>1 DEF Left
<1>8. UNCHANGED <<Ready, Waiting, InIO>>
  <2>1. UNCHANGED <<Ready, Waiting>>
    BY <1>1, ViewsUnchanged
  <2> QED BY <1>5, <2>1 DEF InIO
<1>9. core[c].state # "INTERRUPTED"
  BY <1>1 DEF Interrupted
<1>10. Leaving' = Leaving
  <2>1. c \in Leaving' <=> c \in Leaving
    <3>1. core[c].switchOutTimer # 0 => core[c].state = "SWITCH_OUT"
      <4>1. core[c].state \in CoreStates
        BY <1>1 DEF TypeOK, Core
      <4> QED BY <1>2, <1>9, <4>1 DEF CoreStates, Timers
    <3>2. core[c].state = "SWITCH_OUT" => core[c].switchOutTimer # 0
      <4>1. core[c].switchOutTimer \in Int
        BY <1>1 DEF TypeOK, Core
      <4> QED BY <1>1, <1>2, <4>1 DEF HandledInTime, Handled
    <3> QED BY <1>4, <1>9, <3>1, <3>2 DEF Leaving, LeavesForIO
  <2>2. ASSUME NEW d \in Cores, d # c PROVE d \in Leaving' <=> d \in Leaving
    BY <1>4, <2>2 DEF Leaving, LeavesForIO
  <2>3. Leaving \subseteq Cores /\ Leaving' \subseteq Cores
    BY DEF Leaving
  <2> QED BY <2>1, <2>2, <2>3
<1>11. InCPU' = InCPU
  BY <1>4, <1>8, <1>10 DEF InCPU
<1>12. \A d \in Cores : core[d].node # disk.node
  BY <1>1, <1>2, <1>3, OnDiskOnNoCore
<1>13. \A d \in Cores : d # c => core[d].node # core[c].node \/ core[c].node = NULL
  BY <1>2 DEF Exclusive
<1>14. Exclusive'
  BY <1>2, <1>4, <1>5, <1>8, <1>10 DEF Exclusive
<1>15. Timers'
  <2>1. \A d \in Cores : core'[d].state = core[d].state \/ core'[d].state = "INTERRUPTED"
    BY <1>4
  <2> QED BY <1>2, <1>4, <2>1 DEF Timers
<1>16. Bursts'
  <2>1. \A o \in Procs : proc'[o].nextEvents = proc[o].nextEvents
    BY <1>6
  <2>2. \A o \in Procs : proc'[o].state = "TERMINATED" => proc'[o] = proc[o]
    BY <1>6
  <2> QED BY <1>1, <1>2, <1>8, <1>11, <2>1, <2>2, BurstsKept
<1>17. RunningOnOccupiedCore'
  <2>1. ASSUME NEW o \in Procs
        PROVE  proc'[o].state = "RUNNING"
                 <=> \E d \in Cores : core'[d].state = "OCCUPIED" /\ core'[d].node = o
    <3>1. CASE o = core[c].node
      <4>1. \A d \in Cores : core'[d].state = "OCCUPIED" => core'[d].node # o
        BY <1>4, <1>13, <3>1, NullIsNoProcess
      <4> QED BY <1>6, <3>1, <4>1
    <3>2. CASE o # core[c].node
      BY <1>2, <1>4, <1>6, <3>2 DEF RunningOnOccupiedCore
    <3> QED BY <3>1, <3>2
  <2> QED BY <2>1 DEF RunningOnOccupiedCore
<1>18. States'
  <2>1. \A o \in Procs : proc'[o].state = "WAITING" => proc[o].state = "WAITING"
    BY <1>6
  <2> QED BY <1>2, <1>8, <1>17, <2>1 DEF States
<1>19. InTime'
  <2>1. \A o \in Ready' \cup Waiting' : Left'[o] >= 1
    BY <1>2, <1>7, <1>8 DEF InTime
  <2>2. ASSUME NEW d \in Cores \ Leaving', core'[d].node \in Procs
        PROVE  Left'[core'[d].node] >= IF core'[d].state = "OCCUPIED" THEN 0 ELSE 1
    <3>1. d \in Cores \ Leaving /\ core[d].node \in Procs
      BY <1>4, <1>10, <2>2
    <3>2. Left[core[d].node] >= IF core[d].state = "OCCUPIED" THEN 0 ELSE 1
      BY <1>2, <3>1 DEF InTime
    <3>3. core[d].state = "OCCUPIED" => Left[core[d].node] >= 1
      BY <1>1, <1>2, <3>1 DEF HandledInTime, Handled
    <3>4. core[d].state = "OCCUPIED" \/ core'[d].state # "OCCUPIED"
      BY <1>4
    <3>5. Left[core[d].node] \in Int
      BY <1>1, <3>1, LeftIsInt
    <3> QED BY <1>4, <1>7, <3>2, <3>3, <3>4, <3>5
  <2>3. Interrupted'
    BY <1>4 DEF Interrupted
  <2> QED BY <1>3, <1>4, <1>5, <1>7, <1>12, <2>1, <2>2, <2>3 DEF InTime
<1>20. Alive'
  <2>1. \A o \in Procs : Arrived(o)' <=> Arrived(o)
    BY <1>1 DEF Arrived
  <2>2. core[c].node \in Procs => Living(core[c].node)
    BY <1>2 DEF Alive, Exclusive, InCPU
  <2>3. ASSUME NEW o \in Procs PROVE Living(o)' <=> Living(o)
    BY <1>6, <2>1, <2>2 DEF Living
  <2>4. ASSUME NEW o \in Procs, ~Arrived(o)' PROVE proc'[o] = proc[o]
    BY <1>6, <2>1, <2>2, <2>4 DEF Living
  <2> QED BY <1>1, <1>2, <1>8, <1>11, <2>1, <2>3, <2>4 DEF Alive
<1>21. HandledInTime'
  <2>1. SUFFICES ASSUME NEW d \in Cores
        PROVE  /\ core'[d].state = "SWITCH_IN" => core'[d].switchInTimer >= 1
               /\ core'[d].state = "SWITCH_OUT" => core'[d].switchOutTimer >= 1
               /\ core'[d].state = "OCCUPIED" => Left'[core'[d].node] >= 1
    BY DEF HandledInTime
  <2>2. Handled(d)
    BY <1>1 DEF Handled
  <2>3. /\ core[d].state = "SWITCH_IN" => core[d].switchInTimer >= 1
        /\ core[d].state = "SWITCH_OUT" => core[d].switchOutTimer >= 1
        /\ core[d].state = "OCCUPIED" => Left[core[d].node] >= 1
    BY <1>1, <1>2, <2>2 DEF HandledInTime
  <2>4. CASE d = c
    BY <1>4, <2>4
  <2>5. CASE d # c
    BY <1>4, <1>7, <2>3, <2>5
  <2> QED BY <2>4, <2>5
<1>22. SwitchedOutInTime'
  <2>1. \A d \in Leaving : d \in Cores
    BY DEF Leaving
  <2> QED BY ZenonT(40), <1>1, <1>2, <1>4, <1>7, <1>10, <2>1 DEF SwitchedOutInTime
<1>23. DiskInTime'
  BY <1>5 DEF DiskInTime
<1>24. DistinctWaiting(waitingQueue)' /\ DistinctReady(readyQueues)'
  BY <1>1, <1>2
<1>25. Owned'
  BY <1>14, <1>15, <1>16, <1>18, <1>19, <1>20, <1>21, <1>22, <1>23, <1>24 DEF Owned
<1> QED
  BY <1>1, <1>17, <1>25 DEF Kept, OkFaults

-----------------------------------------------------------------------------
(* assignProcessesToResources *)

(* The loop over the cores stands at a core.                               *)
AssigningOK == phase = "assignCores" => index \in Cores

LEMMA AssigningCore ==
  ASSUME TypeOK, AssigningOK, Next \/ UNCHANGED vars
  PROVE  AssigningOK'
<1>1. CASE UNCHANGED vars \/ Stop
  BY <1>1 DEF AssigningOK, vars, Stop
<1>2. CASE NoInterrupt \/ (\E c \in Cores : InterruptCore(c)) \/ NoInterruptTime
  BY <1>2, FirstCoreAndQueue DEF NoInterrupt, InterruptCore, NoInterruptTime, Goto, AssigningOK
<1>3. CASE SkipCore \/ \E q \in Queue : PutProcessOnCPU(q)
  <2>1. index \in Cores /\ NextIdleCore
    BY <1>3 DEF SkipCore, PutProcessOnCPU, At, AssigningOK
  <2> QED BY <2>1, SizeAssumption DEF NextIdleCore, Goto, AssigningOK, Cores
<1>4. CASE /\ Next /\ ~Stop /\ ~NoInterrupt /\ ~NoInterruptTime /\ ~SkipCore
           /\ \A c \in Cores : ~InterruptCore(c)
           /\ \A q \in Queue : ~PutProcessOnCPU(q)
  <2>1. phase' # "assignCores"
    BY <1>4 DEF Next, At, Goto, NextCore, PreviousCore, StartTick, EndOfWorkload,
       ProcessArrived, ArrivalsDone, AgingNextQueue, AgingDone, AgingKeep, AgingMove,
       NoProcess, SwitchInDone, SwitchOutDone, Terminate, StartIO, NoEvent, WithinLimit,
       Demote, Preempt, KeepRunning, Resume, NoResume, QueuesSizesBeforeRR,
       SliceContinues, SwitchOutAfterSlice, NewSlice, SkipDisk, PutProcessOnDisk,
       AdvanceProcessTime, AdvanceSchedulingTime, FreeComputer
  <2> QED BY <2>1 DEF AssigningOK
<1> QED
  BY <1>1, <1>2, <1>3, <1>4

(* The head of a ready queue goes to an idle core.                         *)
LEMMA PutProcessOnCPUKept ==
  ASSUME Inv, Inv', Owned, index \in Cores, NEW q \in Queue, PutProcessOnCPU(q)
  PROVE  Kept'
<1> DEFINE c == index
           p == readyQueues[q][1]
           t == Tail(readyQueues[q])
<1>1. /\ TypeOK /\ phase = "assignCores" /\ fault = "none" /\ fault' = "none"
      /\ core[c].state = "IDLE" /\ readyQueues[q] # <<>> /\ TopNode(readyQueues[q]) = p
      /\ readyQueues' = [readyQueues EXCEPT ![q] = t]
      /\ core' = IF SwitchInDuration > 0
                 THEN [core EXCEPT ![c].state = "SWITCH_IN", ![c].node = p,
                                   ![c].switchInTimer = SwitchInDuration]
                 ELSE [core EXCEPT ![c].state = "OCCUPIED", ![c].node = p,
                                   ![c].quantumTime = 0]
      /\ proc' = [proc EXCEPT ![p].state = IF SwitchInDuration > 0 THEN "READY"
                                           ELSE "RUNNING"]
      /\ UNCHANGED <<time, workload, waitingQueue, disk>> /\ NextIdleCore
  BY DEF PutProcessOnCPU, Assignable, TopNode, DequeueTopNode, At, Inv, inputs
<1>2. /\ Exclusive /\ Timers /\ Bursts /\ States /\ InTime /\ Alive /\ HandledInTime
      /\ SwitchedOutInTime /\ DistinctWaiting(waitingQueue) /\ DistinctReady(readyQueues)
      /\ RunningOnOccupiedCore /\ DiskInTime
  BY DEF Owned, States
<1>3. phase' \in {"assignCores", "assignDisk"}
  BY <1>1 DEF NextIdleCore, Goto
<1>4. c \in Cores
  OBVIOUS
<1>5. /\ core[c].node = NULL /\ core[c].switchInTimer = 0 /\ core[c].switchOutTimer = 0
      /\ c \notin Leaving
  BY <1>1, <1>2, <1>4 DEF Timers, Leaving, LeavesForIO
<1>6. /\ readyQueues \in [Queue -> Seq(Procs)] /\ Len(readyQueues[q]) >= 1
      /\ Len(readyQueues[q]) \in Nat /\ p \in Procs /\ t \in Seq(Procs)
      /\ Len(t) = Len(readyQueues[q]) - 1 /\ \A j \in 1..Len(t) : t[j] = readyQueues[q][j + 1]
  BY <1>1 DEF TypeOK
<1> HIDE DEF t
<1>7. Ready' = Ready \ {p} /\ DistinctReady(readyQueues')
  <2>1. LET new == [readyQueues EXCEPT ![q] = t]
        IN InQueues(new) = InQueues(readyQueues) \ {readyQueues[q][1]} /\ DistinctReady(new)
    <3>1. 1 \in 1..Len(readyQueues[q]) /\ \A j \in 1..Len(t) : ~(j < 1)
      BY <1>6
    <3> QED BY <1>2, <1>6, <3>1, RemovedFromQueues
  <2> QED BY <1>1, <2>1 DEF Ready, InQueues
<1>8. p \in Ready
  <2>1. 1 \in DOMAIN readyQueues[q]
    BY <1>6
  <2> QED BY <1>6, <2>1 DEF Ready, InQueues, ProcessInQueue
<1> DEFINE goes == IF SwitchInDuration > 0 THEN "READY" ELSE "RUNNING"
<1>9. /\ proc'[p].state = goes /\ proc'[p].nextEvents = proc[p].nextEvents
      /\ proc'[p].advancementTime = proc[p].advancementTime
      /\ \A o \in Procs : o # p => proc'[o] = proc[o]
  BY <1>1, <1>6 DEF TypeOK, Process
<1>10. /\ core'[c].node = p /\ core'[c].switchOutTimer = 0
       /\ core'[c].state = IF SwitchInDuration > 0 THEN "SWITCH_IN" ELSE "OCCUPIED"
       /\ core'[c].switchInTimer = IF SwitchInDuration > 0 THEN SwitchInDuration ELSE 0
       /\ \A d \in Cores : d # c => core'[d] = core[d]
  BY <1>1, <1>4, <1>5 DEF TypeOK, Core
<1>11. UNCHANGED <<workload, waitingQueue, disk, time>>
  BY <1>1
<1>12. phase = "assignCores" /\ core[c].state = "IDLE" /\ fault' = "none"
  BY <1>1
<1> HIDE DEF c, p
<1>13. UNCHANGED <<Waiting, InIO>>
  BY <1>11, ViewsUnchanged
<1>14. Left' = Left
  <2>1. \A o \in Procs : CurEventTimeLeft(o)' = CurEventTimeLeft(o)
    BY <1>9, <1>11 DEF CurEventTimeLeft, TimeLeft
  <2> QED BY <2>1 DEF Left
<1>15. p \notin Waiting /\ disk.node # p /\ p \notin InIO /\ \A d \in Cores : core[d].node # p
  BY <1>2, <1>6, <1>8 DEF Exclusive, InIO
<1>16. c \notin Leaving' /\ Leaving' = Leaving
  <2>1. c \notin Leaving'
    BY <1>10 DEF Leaving, LeavesForIO
  <2>2. ASSUME NEW d \in Cores, d # c PROVE d \in Leaving' <=> d \in Leaving
    BY <1>10, <2>2 DEF Leaving, LeavesForIO
  <2>3. Leaving \subseteq Cores /\ Leaving' \subseteq Cores
    BY DEF Leaving
  <2> QED BY <1>5, <2>1, <2>2, <2>3
<1>17. InCPU' = InCPU
  <2>1. p \in InCPU /\ p \in InCPU'
    BY <1>4, <1>6, <1>8, <1>10, <1>16 DEF InCPU
  <2>2. ASSUME NEW o \in Procs, o # p PROVE o \in InCPU' <=> o \in InCPU
    <3>1. \A d \in Cores : core'[d].node = o <=> core[d].node = o
      BY <1>5, <1>10, <2>2, NullIsNoProcess
    <3> QED BY <1>7, <1>16, <2>2, <3>1 DEF InCPU
  <2>3. \A o \in InCPU \cup InCPU' : o \in Procs
    BY DEF InCPU, Ready, InQueues
  <2> QED BY <2>1, <2>2, <2>3
<1>18. Exclusive'
  <2>1. /\ Ready' \cap Waiting' = {} /\ disk'.node \notin Ready' /\ disk'.node \notin Waiting'
    BY <1>2, <1>7, <1>11, <1>13 DEF Exclusive
  <2>2. ASSUME NEW d \in Cores
        PROVE  /\ core'[d].node \notin Ready'
               /\ core'[d].node \in Procs => (d \in Leaving' <=> core'[d].node \in InIO')
    <3>1. CASE d = c
      BY <1>7, <1>10, <1>13, <1>15, <1>16, <3>1
    <3>2. CASE d # c
      BY <1>2, <1>7, <1>10, <1>13, <1>16, <3>2 DEF Exclusive
    <3> QED BY <3>1, <3>2
  <2>3. ASSUME NEW d \in Cores, NEW e \in Cores, core'[d].node = core'[e].node
        PROVE  d = e \/ core'[d].node = NULL
    BY <1>2, <1>10, <1>15, <2>3 DEF Exclusive
  <2> QED BY <2>1, <2>2, <2>3 DEF Exclusive
<1>19. Timers'
  <2>1. SwitchInDuration \in Nat /\ p # NULL
    BY <1>6, NullIsNoProcess, DurationAssumption
  <2> QED BY <1>2, <1>10, <2>1 DEF Timers
<1>20. Bursts'
  <2>1. proc'[p].state # "TERMINATED"
    BY <1>9
  <2> QED BY <1>2, <1>9, <1>11, <1>13, <1>17, <2>1 DEF Bursts
<1>21. RunningOnOccupiedCore'
  <2>1. ASSUME NEW o \in Procs, o # p
        PROVE  \A d \in Cores : core'[d].state = "OCCUPIED" /\ core'[d].node = o
                               <=> core[d].state = "OCCUPIED" /\ core[d].node = o
    BY <1>5, <1>10, <1>12, <2>1
  <2>2. (\E d \in Cores : core'[d].state = "OCCUPIED" /\ core'[d].node = p)
          <=> proc'[p].state = "RUNNING"
    BY <1>4, <1>9, <1>10, <1>15
  <2> QED BY <1>2, <1>9, <2>1, <2>2 DEF RunningOnOccupiedCore
<1>22. States'
  <2>1. proc'[p].state # "WAITING"
    BY <1>9
  <2> QED BY <1>2, <1>9, <1>13, <1>21, <2>1 DEF States
<1>23. Left[p] >= 1 /\ Left[p] \in Int
  BY <1>2, <1>6, <1>8, LeftIsInt DEF InTime, Inv
<1>24. Interrupted => Interrupted'
  BY <1>10, <1>12 DEF Interrupted
<1>25. InTime'
  <2>1. \A o \in Ready' \cup Waiting' : Left'[o] >= 1
    BY <1>2, <1>7, <1>13, <1>14 DEF InTime
  <2>2. ASSUME NEW d \in Cores \ Leaving', core'[d].node \in Procs
        PROVE  Left'[core'[d].node] >= IF core'[d].state = "OCCUPIED" THEN 0 ELSE 1
    <3>1. CASE d = c
      BY <1>10, <1>14, <1>23, <3>1
    <3>2. CASE d # c
      BY <1>2, <1>10, <1>14, <1>16, <2>2, <3>2 DEF InTime
    <3> QED BY <3>1, <3>2
  <2>3. /\ disk'.node \in Procs => Left'[disk'.node] >= 0
        /\ disk'.node \in Procs /\ disk'.state = "DISK_IDLE" =>
             Interrupted' /\ Left'[disk'.node] = 0
    BY <1>2, <1>11, <1>14, <1>24 DEF InTime
  <2>4. ASSUME disk'.node \in Procs, disk'.state = "DISK_IDLE", NEW d \in Cores
        PROVE  core'[d].node # disk'.node
    BY <1>2, <1>10, <1>11, <1>15, <2>4 DEF InTime
  <2> QED BY <2>1, <2>2, <2>3, <2>4 DEF InTime
<1>26. Alive'
  <2>1. \A o \in Procs : Arrived(o)' <=> Arrived(o)
    BY <1>3, <1>11, <1>12 DEF Arrived
  <2>2. Arrived(p) /\ proc[p].state # "TERMINATED"
    BY <1>2, <1>6, <1>8 DEF Alive, Living, InCPU
  <2>3. ASSUME NEW o \in Procs PROVE Living(o)' <=> Living(o)
    <3>1. CASE o = p
      BY <1>9, <2>1, <2>2, <3>1 DEF Living
    <3>2. CASE o # p
      BY <1>9, <2>1, <3>2 DEF Living
    <3> QED BY <3>1, <3>2
  <2>4. ASSUME NEW o \in Procs, ~Arrived(o)' PROVE proc'[o] = proc[o]
    BY <1>9, <2>1, <2>2, <2>4
  <2> QED BY <1>2, <1>11, <1>13, <1>17, <2>1, <2>3, <2>4 DEF Alive
<1>27. HandledInTime'
  <2>1. \A d \in Cores : Handled(d)
    BY <1>12 DEF Handled
  <2>2. SwitchInDuration > 0 => SwitchInDuration >= 1
    BY DurationAssumption
  <2> QED BY <1>2, <1>10, <1>12, <1>14, <1>23, <2>1, <2>2 DEF HandledInTime
<1>28. SwitchedOutInTime'
  <2>1. \A d \in Leaving : d \in Cores
    BY DEF Leaving
  <2> QED BY <1>2, <1>3, <1>5, <1>10, <1>12, <1>14, <1>16, <2>1 DEF SwitchedOutInTime
<1>29. DiskInTime'
  BY <1>2, <1>11, <1>12, <1>14 DEF DiskInTime
<1>30. DistinctWaiting(waitingQueue)' /\ DistinctReady(readyQueues)'
  BY <1>2, <1>7, <1>11
<1>31. Owned'
  BY <1>18, <1>19, <1>20, <1>22, <1>25, <1>26, <1>27, <1>28, <1>29, <1>30 DEF Owned
<1> QED
  BY <1>12, <1>21, <1>31, <1>3 DEF Kept, OkFaults

(* The head of the wait queue goes to the idle disk.                       *)
LEMMA PutProcessOnDiskKept ==
  ASSUME Inv, Inv', Owned, PutProcessOnDisk
  PROVE  Kept'
<1> DEFINE p == waitingQueue[1]
<1>1. /\ TypeOK /\ phase = "assignDisk" /\ phase' = "advanceProcesses" /\ fault' = "none"
      /\ ~Interrupted /\ disk.state = "DISK_IDLE" /\ waitingQueue # <<>>
      /\ waitingQueue' = Tail(waitingQueue)
      /\ disk'.node = p /\ disk'.state = "DISK_RUNNING"
      /\ proc' = [proc EXCEPT ![p].state = "WAITING"]
      /\ UNCHANGED <<time, workload, readyQueues, core>>
  BY DEF PutProcessOnDisk, DiskAvailable, TopNode, DequeueTopNode, At, Goto, Inv, inputs
<1>2. /\ Exclusive /\ Timers /\ Bursts /\ States /\ InTime /\ Alive /\ HandledInTime
      /\ SwitchedOutInTime /\ DistinctWaiting(waitingQueue) /\ DistinctReady(readyQueues)
      /\ RunningOnOccupiedCore
  BY DEF Owned, States
<1>3. disk.node = NULL
  BY <1>1, <1>2 DEF InTime, TypeOK, Disk
<1>4. /\ waitingQueue \in Seq(Procs) /\ Len(waitingQueue) \in Nat /\ Len(waitingQueue) >= 1
      /\ p \in Procs /\ DOMAIN waitingQueue = 1..Len(waitingQueue)
      /\ DOMAIN waitingQueue' = 1..(Len(waitingQueue) - 1)
      /\ Len(waitingQueue') = Len(waitingQueue) - 1
      /\ \A j \in 1..(Len(waitingQueue) - 1) : waitingQueue'[j] = waitingQueue[j + 1]
  BY <1>1 DEF TypeOK
<1>5. p \in Waiting
  BY <1>4 DEF Waiting, ProcessInQueue
<1>6. /\ proc'[p].state = "WAITING" /\ proc'[p].nextEvents = proc[p].nextEvents
      /\ proc'[p].advancementTime = proc[p].advancementTime
      /\ \A o \in Procs : o # p => proc'[o] = proc[o]
  BY <1>1, <1>4 DEF TypeOK, Process
<1>7. \A j \in 1..Len(waitingQueue) : waitingQueue[j] = p => j = 1
  <2>1. 1 \in 1..Len(waitingQueue)
    BY <1>4
  <2> QED BY <1>2, <2>1 DEF DistinctWaiting
<1> HIDE DEF p
<1>8. Waiting' = Waiting \ {p}
  <2>1. p \notin Waiting'
    <3>1. \A j \in 1..(Len(waitingQueue) - 1) : j + 1 \in 1..Len(waitingQueue) /\ j + 1 # 1
      BY <1>4
    <3>2. \A j \in 1..(Len(waitingQueue) - 1) : waitingQueue'[j] # p
      BY <1>4, <1>7, <3>1
    <3> QED BY <1>4, <3>2 DEF Waiting, ProcessInQueue
  <2>2. ASSUME NEW o \in Procs, o # p PROVE o \in Waiting' <=> o \in Waiting
    <3>1. ASSUME NEW j \in 1..(Len(waitingQueue) - 1)
          PROVE  j + 1 \in 1..Len(waitingQueue) /\ waitingQueue'[j] = waitingQueue[j + 1]
      BY <1>4
    <3>2. ASSUME NEW j \in 1..Len(waitingQueue), waitingQueue[j] = o
          PROVE  j - 1 \in 1..(Len(waitingQueue) - 1) /\ waitingQueue'[j - 1] = o
      <4>1. j # 1
        BY <2>2, <3>2 DEF p
      <4>2. j - 1 \in 1..(Len(waitingQueue) - 1) /\ (j - 1) + 1 = j
        BY <1>4, <4>1
      <4> QED BY <1>4, <3>2, <4>2
    <3>3. o \in Waiting' => o \in Waiting
      <4>1. SUFFICES ASSUME o \in Waiting' PROVE o \in Waiting
        OBVIOUS
      <4>2. PICK j \in 1..(Len(waitingQueue) - 1) : waitingQueue'[j] = o
        BY <1>4, <4>1 DEF Waiting, ProcessInQueue
      <4> QED BY <1>4, <3>1, <4>2 DEF Waiting, ProcessInQueue
    <3>4. o \in Waiting => o \in Waiting'
      <4>1. SUFFICES ASSUME o \in Waiting PROVE o \in Waiting'
        OBVIOUS
      <4>2. PICK j \in 1..Len(waitingQueue) : waitingQueue[j] = o
        BY <1>4, <4>1 DEF Waiting, ProcessInQueue
      <4> QED BY <1>4, <3>2, <4>2 DEF Waiting, ProcessInQueue
    <3> QED BY <3>3, <3>4
  <2>3. Waiting \subseteq Procs /\ Waiting' \subseteq Procs
    BY DEF Waiting
  <2> QED BY <1>4, <2>1, <2>2, <2>3
<1>9. DistinctWaiting(waitingQueue)'
  <2>1. SUFFICES ASSUME NEW i \in 1..Len(waitingQueue'), NEW j \in 1..Len(waitingQueue'),
                        waitingQueue'[i] = waitingQueue'[j]
                 PROVE  i = j
    BY DEF DistinctWaiting
  <2>2. i + 1 \in 1..Len(waitingQueue) /\ j + 1 \in 1..Len(waitingQueue)
        /\ waitingQueue[i + 1] = waitingQueue[j + 1]
    BY <1>4, <2>1
  <2>3. i + 1 = j + 1
    BY <1>2, <2>2 DEF DistinctWaiting
  <2> QED BY <1>4, <2>3
<1>10. UNCHANGED <<Ready, Leaving, Interrupted, core>>
  BY <1>1, ViewsUnchanged
<1>11. InIO' = InIO /\ InCPU' = InCPU
  <2>1. InIO' = InIO
    BY <1>1, <1>3, <1>4, <1>5, <1>8, NullIsNoProcess DEF InIO
  <2> QED BY <1>10, <2>1 DEF InCPU
<1>12. Left' = Left
  <2>1. \A o \in Procs : CurEventTimeLeft(o)' = CurEventTimeLeft(o)
    BY <1>1, <1>6 DEF CurEventTimeLeft, TimeLeft
  <2> QED BY <2>1 DEF Left
<1>13. p \notin Ready /\ p \in InIO
  BY <1>2, <1>4, <1>5 DEF Exclusive, InIO
<1>14. Exclusive'
  <2>1. /\ Ready' \cap Waiting' = {} /\ disk'.node \notin Ready' /\ disk'.node \notin Waiting'
    BY <1>1, <1>2, <1>8, <1>10, <1>13 DEF Exclusive, p
  <2> QED BY <1>2, <1>10, <1>11, <2>1 DEF Exclusive
<1>15. Timers'
  BY <1>2, <1>10 DEF Timers
<1>16. Bursts'
  <2>1. proc'[p].state # "TERMINATED"
    BY <1>6
  <2> QED BY <1>1, <1>2, <1>6, <1>11, <2>1 DEF Bursts
<1>17. RunningOnOccupiedCore'
  <2>1. \A c \in Cores : core[c].node = p => core[c].state # "OCCUPIED"
    BY <1>2, <1>4, <1>13 DEF Exclusive, Leaving, LeavesForIO
  <2> QED BY <1>2, <1>6, <1>10, <2>1 DEF RunningOnOccupiedCore
<1>18. States'
  BY <1>2, <1>6, <1>11, <1>13, <1>17 DEF States
<1>19. Left[p] >= 1
  BY <1>2, <1>5 DEF InTime
<1>20. Left'[disk'.node] >= 1 /\ Left'[disk'.node] >= 0
  <2>1. Left[p] \in Int
    BY <1>1, <1>4, LeftIsInt
  <2> QED BY <1>1, <1>12, <1>19, <2>1 DEF p
<1>21. InTime'
  <2>1. \A o \in Ready' \cup Waiting' : Left'[o] >= 1
    BY <1>2, <1>8, <1>10, <1>12 DEF InTime
  <2> QED BY <1>1, <1>2, <1>10, <1>12, <1>20, <2>1 DEF InTime
<1>22. Alive'
  <2>1. \A o \in Procs : Arrived(o)' <=> Arrived(o)
    BY <1>1 DEF Arrived
  <2>2. Arrived(p) /\ proc[p].state # "TERMINATED"
    BY <1>2, <1>4, <1>13 DEF Alive, Living
  <2>3. ASSUME NEW o \in Procs PROVE Living(o)' <=> Living(o)
    <3>1. CASE o = p
      BY <1>6, <2>1, <2>2, <3>1 DEF Living
    <3>2. CASE o # p
      BY <1>6, <2>1, <3>2 DEF Living
    <3> QED BY <3>1, <3>2
  <2>4. ASSUME NEW o \in Procs, ~Arrived(o)' PROVE proc'[o] = proc[o]
    BY <1>6, <2>1, <2>2, <2>4
  <2> QED BY <1>1, <1>2, <1>11, <2>1, <2>3, <2>4 DEF Alive
<1>23. HandledInTime'
  <2>1. \A d \in Cores : Handled(d)
    BY <1>1 DEF Handled
  <2> QED BY <1>1, <1>2, <1>10, <1>12, <2>1 DEF HandledInTime
<1>24. SwitchedOutInTime'
  <2>1. \A d \in Leaving : d \in Cores
    BY DEF Leaving
  <2> QED BY <1>1, <1>2, <1>10, <1>12, <2>1 DEF SwitchedOutInTime
<1>25. DiskInTime'
  BY <1>20 DEF DiskInTime
<1>26. DistinctReady(readyQueues)'
  BY <1>1, <1>2
<1>27. Owned'
  BY <1>9, <1>14, <1>15, <1>16, <1>18, <1>21, <1>22, <1>23, <1>24, <1>25, <1>26 DEF Owned
<1> QED
  BY <1>1, <1>17, <1>27 DEF Kept, OkFaults

-----------------------------------------------------------------------------
(* advanceProcessTime and advanceSchedulingTime *)

(* Only a process with time left makes progress.                           *)
LEMMA AdvanceProcessTimeKept ==
  ASSUME Inv, Inv', Owned, AssignedOK, AdvanceProcessTime
  PROVE  Kept'
<1>1. /\ TypeOK /\ InterruptHoldsDisk /\ CoreOK
      /\ phase = "advanceProcesses" /\ phase' = "advanceScheduling"
      /\ proc' = [p \in Procs |-> IF Progresses(p)
                                  THEN [proc[p] EXCEPT !.advancementTime = @ + 1] ELSE proc[p]]
      /\ fault' = IF \E p \in Procs : proc[p].state = "WAITING" /\ disk.node = NULL
                  THEN "nullDisk" ELSE "none"
      /\ UNCHANGED <<time, workload, readyQueues, waitingQueue, core, disk>>
  BY DEF AdvanceProcessTime, At, Goto, Inv, inputs, lists
<1>2. /\ Exclusive /\ Timers /\ Bursts /\ States /\ InTime /\ Alive /\ HandledInTime
      /\ SwitchedOutInTime /\ DistinctWaiting(waitingQueue) /\ DistinctReady(readyQueues)
      /\ RunningOnOccupiedCore /\ DiskInTime
  BY DEF Owned, States
<1>3. fault' = "none"
  <2>1. SUFFICES ASSUME NEW p \in Procs, proc[p].state = "WAITING", disk.node = NULL
                 PROVE  FALSE
    BY <1>1
  <2>2. p \in Waiting
    BY <1>2, <2>1, NullIsNoProcess DEF States, InIO
  <2>3. waitingQueue # <<>>
    BY <2>2 DEF Waiting, ProcessInQueue
  <2>4. disk.state = "DISK_IDLE"
    BY <1>1, <2>1 DEF InterruptHoldsDisk, TypeOK, Disk, DiskStates
  <2>5. Interrupted
    BY <1>1, <2>3, <2>4 DEF AssignedOK
  <2> QED BY <1>1, <2>1, <2>5 DEF InterruptHoldsDisk
<1>4. \A p \in Procs :
        /\ proc'[p].state = proc[p].state /\ proc'[p].nextEvents = proc[p].nextEvents
        /\ proc'[p].advancementTime = proc[p].advancementTime + (IF Progresses(p) THEN 1 ELSE 0)
        /\ ~Progresses(p) => proc'[p] = proc[p]
  BY <1>1 DEF TypeOK, Process
<1>5. ASSUME NEW p \in Procs
      PROVE  /\ Left[p] \in Int /\ Left'[p] = Left[p] - (IF Progresses(p) THEN 1 ELSE 0)
  <2>1. proc[p] \in Process /\ workload[p] \in ProcessInput /\ Left[p] \in Int
    BY <1>1, LeftIsInt DEF TypeOK
  <2>2. proc[p].advancementTime \in Nat /\ workload[p].processDuration \in Nat
        /\ (proc[p].nextEvents # <<>> => proc[p].nextEvents[1].time \in Nat)
    <3>1. proc[p].nextEvents \in Seq(Event)
      BY <2>1 DEF Process
    <3>2. proc[p].nextEvents # <<>> => proc[p].nextEvents[1] \in Event
      BY <3>1
    <3> QED BY <2>1, <3>2 DEF Process, ProcessInput, Event
  <2> DEFINE next == IF proc[p].nextEvents = <<>> THEN workload[p].processDuration
                     ELSE proc[p].nextEvents[1].time
  <2>3. Left[p] = next - proc[p].advancementTime /\ Left'[p] = next - proc'[p].advancementTime
    BY <1>1, <1>4 DEF Left, CurEventTimeLeft, TimeLeft
  <2>4. next \in Nat
    BY <2>2
  <2> HIDE DEF next
  <2>5. proc'[p].advancementTime = proc[p].advancementTime + (IF Progresses(p) THEN 1 ELSE 0)
    BY <1>4
  <2> QED BY <2>1, <2>2, <2>3, <2>4, <2>5
<1>6. UNCHANGED <<Ready, Waiting, Leaving, InIO, InCPU, Interrupted>>
  BY <1>1, ViewsUnchanged
\* Who makes progress: the process of a core that executes, or of the disk.
<1>7. ASSUME NEW p \in Procs, Progresses(p)
      PROVE  /\ Left[p] >= 1
             /\ p \notin Ready /\ p \notin Waiting
             /\ p \in InIO => disk.node = p /\ disk.state = "DISK_RUNNING"
             /\ \A c \in Cores \ Leaving : core[c].node = p => core[c].state = "OCCUPIED"
             /\ proc[p].state # "TERMINATED" /\ Arrived(p)
             /\ disk.node = p => disk.state = "DISK_RUNNING"
  <2>1. CASE proc[p].state = "RUNNING"
    <3>1. PICK c \in Cores : core[c].state = "OCCUPIED" /\ core[c].node = p
      BY <1>2, <2>1 DEF RunningOnOccupiedCore
    <3>2. c \notin Leaving
      BY <3>1 DEF Leaving, LeavesForIO
    <3>3. p \notin InIO /\ p \notin Ready
      BY <1>2, <3>1, <3>2 DEF Exclusive
    <3>4. p \notin Waiting /\ disk.node # p
      BY <3>3 DEF InIO
    <3>5. \A d \in Cores : core[d].node = p => d = c
      BY <1>2, <3>1, NullIsNoProcess DEF Exclusive
    <3>6. Left[p] >= 1
      BY <1>1, <1>2, <3>1 DEF HandledInTime, Handled
    <3>7. Arrived(p)
      BY <1>2, <3>1, <3>2 DEF Alive, Living, InCPU
    <3> QED BY <2>1, <3>1, <3>3, <3>4, <3>5, <3>6, <3>7
  <2>2. CASE proc[p].state = "WAITING" /\ disk.state = "DISK_RUNNING" /\ disk.node = p
    <3>1. p \in InIO /\ p \notin Ready /\ p \notin Waiting
      BY <1>2, <2>2 DEF InIO, Exclusive
    <3>2. Left[p] >= 1
      BY <1>1, <1>2, <2>2 DEF DiskInTime
    <3>3. \A c \in Cores \ Leaving : core[c].node # p
      BY <1>2, <3>1 DEF Exclusive
    <3>4. Arrived(p)
      BY <1>2, <3>1 DEF Alive, Living
    <3> QED BY <2>2, <3>1, <3>2, <3>3, <3>4
  <2> QED BY <1>7, <2>1, <2>2 DEF Progresses
<1>8. Exclusive' /\ Timers' /\ RunningOnOccupiedCore'
  <2>1. Exclusive'
    BY <1>1, <1>2, <1>6 DEF Exclusive
  <2>2. Timers'
    BY <1>1, <1>2 DEF Timers
  <2>3. RunningOnOccupiedCore'
    BY <1>1, <1>2, <1>4 DEF RunningOnOccupiedCore
  <2> QED BY <2>1, <2>2, <2>3
<1>9. Bursts'
  <2>1. \A p \in Procs : proc[p].state = "TERMINATED" => proc'[p] = proc[p]
    BY <1>4, <1>7
  <2>2. \A p \in Procs : proc'[p].nextEvents = proc[p].nextEvents
    BY <1>4
  <2>3. \A p \in Procs : proc'[p].state = "TERMINATED" => proc'[p] = proc[p]
    BY <1>4, <2>1
  <2> QED BY <1>1, <1>2, <1>6, <2>2, <2>3, BurstsKept
<1>10. States'
  BY <1>2, <1>4, <1>6, <1>8 DEF States
<1>11. InTime'
  <2>1. ASSUME NEW o \in Ready' \cup Waiting' PROVE Left'[o] >= 1
    <3>1. o \in Procs /\ o \in Ready \cup Waiting
      BY <1>6 DEF Ready, InQueues, Waiting
    <3>2. ~Progresses(o) /\ Left[o] >= 1
      BY <1>2, <1>7, <3>1 DEF InTime
    <3> QED BY <1>5, <3>1, <3>2
  <2>2. ASSUME NEW d \in Cores \ Leaving', core'[d].node \in Procs
        PROVE  Left'[core'[d].node] >= IF core'[d].state = "OCCUPIED" THEN 0 ELSE 1
    <3> DEFINE o == core[d].node
    <3>1. d \in Cores \ Leaving /\ o \in Procs /\ core'[d] = core[d]
      BY <1>1, <1>6, <2>2
    <3>2. Left[o] >= IF core[d].state = "OCCUPIED" THEN 0 ELSE 1
      BY <1>2, <3>1 DEF InTime
    <3>3. Progresses(o) => core[d].state = "OCCUPIED" /\ Left[o] >= 1
      BY <1>7, <3>1
    <3>4. core'[d].node = o
      BY <3>1
    <3> HIDE DEF o
    <3>5. Left[o] \in Int /\ Left'[o] = Left[o] - (IF Progresses(o) THEN 1 ELSE 0)
      BY <1>5, <3>1
    <3> QED BY <3>1, <3>2, <3>3, <3>4, <3>5
  <2>3. ASSUME disk'.node \in Procs
        PROVE  Left'[disk'.node] >= 0
    <3> DEFINE o == disk.node
    <3>1. o \in Procs /\ disk' = disk /\ Left[o] >= 0
      BY <1>1, <1>2, <2>3 DEF InTime
    <3>2. Progresses(o) => Left[o] >= 1
      BY <1>7, <3>1
    <3>3. disk'.node = o
      BY <3>1
    <3> HIDE DEF o
    <3>4. Left[o] \in Int /\ Left'[o] = Left[o] - (IF Progresses(o) THEN 1 ELSE 0)
      BY <1>5, <3>1
    <3> QED BY <3>1, <3>2, <3>3, <3>4
  <2>4. ASSUME disk'.node \in Procs, disk'.state = "DISK_IDLE"
        PROVE  /\ Interrupted' /\ Left'[disk'.node] = 0
               /\ \A c \in Cores : core'[c].node # disk'.node
    <3> DEFINE o == disk.node
    <3>1. o \in Procs /\ disk' = disk /\ disk.state = "DISK_IDLE"
      BY <1>1, <2>4
    <3>2. ~Progresses(o) /\ Left[o] = 0 /\ Interrupted /\ \A c \in Cores : core[c].node # o
      BY <1>2, <1>7, <3>1 DEF InTime
    <3>3. disk'.node = o
      BY <3>1
    <3> HIDE DEF o
    <3>4. Left'[o] = 0
      BY <1>5, <3>1, <3>2
    <3> QED BY <1>1, <1>6, <3>2, <3>3, <3>4
  <2> QED BY <2>1, <2>2, <2>3, <2>4 DEF InTime
<1>12. Alive'
  <2>1. \A o \in Procs : Arrived(o)' <=> Arrived(o)
    BY <1>1 DEF Arrived
  <2>2. \A o \in Procs : ~Arrived(o)' => proc'[o] = proc[o]
    BY <1>4, <1>7, <2>1
  <2> QED BY <1>1, <1>2, <1>4, <1>6, <2>1, <2>2 DEF Alive, Living
<1>13. HandledInTime'
  <2>1. \A d \in Cores : Handled(d)
    BY <1>1 DEF Handled
  <2> QED BY <1>1, <1>2, <2>1 DEF HandledInTime
<1>14. SwitchedOutInTime'
  <2>1. SUFFICES ASSUME NEW c \in Leaving
                 PROVE  Left'[core[c].node] >=
                          core[c].switchOutTimer - (IF core[c].state = "SWITCH_OUT" THEN 1 ELSE 0)
    BY <1>1, <1>6 DEF SwitchedOutInTime
  <2>2. c \in Cores /\ core[c].node \in Procs /\ core[c].switchOutTimer \in Int
    BY <1>1, <2>1 DEF Leaving, LeavesForIO, TypeOK, Core
  <2>3. Left[core[c].node] >= core[c].switchOutTimer - 0
    BY <1>1, <1>2, <2>1 DEF SwitchedOutInTime
  <2>4. core[c].state # "SWITCH_OUT" => ~Progresses(core[c].node)
    <3>1. ASSUME core[c].state # "SWITCH_OUT" PROVE Interrupted
      BY <2>2, <3>1 DEF Leaving, LeavesForIO, Interrupted
    <3>2. Interrupted => disk.state = "DISK_IDLE"
      BY <1>1 DEF InterruptHoldsDisk
    <3>3. core[c].node \in InIO
      BY <1>2, <2>1, <2>2 DEF Exclusive
    <3> QED BY <1>7, <2>2, <3>1, <3>2, <3>3
  <2>5. /\ Left[core[c].node] \in Int
        /\ Left'[core[c].node] = Left[core[c].node] - (IF Progresses(core[c].node) THEN 1 ELSE 0)
    BY <1>5, <2>2
  <2> QED BY <2>2, <2>3, <2>4, <2>5
<1>15. DiskInTime'
  BY <1>1 DEF DiskInTime
<1>16. DistinctWaiting(waitingQueue)' /\ DistinctReady(readyQueues)'
  BY <1>1, <1>2
<1>17. Owned'
  BY <1>8, <1>9, <1>10, <1>11, <1>12, <1>13, <1>14, <1>15, <1>16 DEF Owned
<1> QED
  BY <1>3, <1>8, <1>17 DEF Kept, OkFaults

(* The timers of the cores run, each with at least one time unit on it.    *)
LEMMA AdvanceSchedulingTimeKept ==
  ASSUME Inv, Inv', Owned, AdvanceSchedulingTime
  PROVE  Kept'
<1>1. /\ TypeOK /\ phase = "advanceScheduling" /\ phase' \in {"loop", "free"}
      /\ time' = time + 1 /\ fault' = "none"
      /\ core' = [c \in Cores |-> AdvanceTimers(c)]
      /\ UNCHANGED <<workload, proc, readyQueues, waitingQueue, disk>>
  BY DEF AdvanceSchedulingTime, At, Goto, Inv, inputs, lists
<1>2. /\ Exclusive /\ Timers /\ Bursts /\ States /\ InTime /\ Alive /\ HandledInTime
      /\ SwitchedOutInTime /\ DistinctWaiting(waitingQueue) /\ DistinctReady(readyQueues)
      /\ RunningOnOccupiedCore
  BY DEF Owned, States
<1>3. ASSUME NEW c \in Cores
      PROVE  /\ core'[c].node = core[c].node /\ core'[c].state = core[c].state
             /\ core'[c].continueOnCPU = core[c].continueOnCPU
             /\ core'[c].switchInTimer =
                  core[c].switchInTimer - (IF core[c].state = "SWITCH_IN" THEN 1 ELSE 0)
             /\ core'[c].switchOutTimer =
                  core[c].switchOutTimer - (IF core[c].state = "SWITCH_OUT" THEN 1 ELSE 0)
             /\ core[c].switchInTimer \in Int /\ core[c].switchOutTimer \in Int
  <2>1. core[c] \in Core /\ core'[c] = AdvanceTimers(c)
    BY <1>1 DEF TypeOK
  <2>2. CASE core[c].state = "OCCUPIED"
    BY <2>1, <2>2 DEF AdvanceTimers, Core
  <2>3. CASE core[c].state = "SWITCH_IN"
    BY <2>1, <2>3 DEF AdvanceTimers, Core
  <2>4. CASE core[c].state = "SWITCH_OUT"
    BY <2>1, <2>4 DEF AdvanceTimers, Core
  <2>5. CASE core[c].state = "INTERRUPTED"
    BY <2>1, <2>5 DEF AdvanceTimers, Core
  <2>6. CASE core[c].state = "IDLE"
    BY <2>1, <2>6 DEF AdvanceTimers, Core
  <2> QED BY <2>1, <2>2, <2>3, <2>4, <2>5, <2>6 DEF Core, CoreStates
<1>4. UNCHANGED <<Ready, Waiting, InIO, Left>>
  BY <1>1, ViewsUnchanged
<1>5. UNCHANGED <<Leaving, Interrupted>>
  <2>1. ASSUME NEW c \in Cores PROVE c \in Leaving' <=> c \in Leaving
    BY <1>3 DEF Leaving, LeavesForIO
  <2>2. Leaving \subseteq Cores /\ Leaving' \subseteq Cores
    BY DEF Leaving
  <2>3. UNCHANGED Interrupted
    BY <1>3 DEF Interrupted
  <2> QED BY <2>1, <2>2, <2>3
<1>6. UNCHANGED InCPU
  BY <1>3, <1>4, <1>5 DEF InCPU
<1>7. \A c \in Cores : Handled(c) /\ ~Handled(c)'
  BY <1>1 DEF Handled
<1>8. Exclusive'
  BY <1>1, <1>2, <1>3, <1>4, <1>5 DEF Exclusive
<1>9. Timers'
  <2>1. ASSUME NEW c \in Cores
        PROVE  /\ core'[c].switchInTimer >= 0 /\ core'[c].switchOutTimer >= 0
               /\ core'[c].switchInTimer = 0 \/ core'[c].switchOutTimer = 0
               /\ core'[c].state = "IDLE" => core'[c].node = NULL
               /\ core'[c].node = NULL \/ core'[c].state = "OCCUPIED" =>
                    core'[c].switchInTimer = 0 /\ core'[c].switchOutTimer = 0
               /\ core'[c].state = "SWITCH_IN" => core'[c].switchOutTimer = 0
               /\ core'[c].state = "SWITCH_OUT" => core'[c].switchInTimer = 0
    <3>1. /\ core[c].switchInTimer >= 0 /\ core[c].switchOutTimer >= 0
          /\ core[c].switchInTimer = 0 \/ core[c].switchOutTimer = 0
          /\ core[c].state = "IDLE" => core[c].node = NULL
          /\ core[c].node = NULL \/ core[c].state = "OCCUPIED" =>
               core[c].switchInTimer = 0 /\ core[c].switchOutTimer = 0
          /\ core[c].state = "SWITCH_IN" => core[c].switchOutTimer = 0
          /\ core[c].state = "SWITCH_OUT" => core[c].switchInTimer = 0
      BY <1>2 DEF Timers
    <3>2. /\ core[c].state = "SWITCH_IN" => core[c].switchInTimer >= 1
          /\ core[c].state = "SWITCH_OUT" => core[c].switchOutTimer >= 1
      BY <1>2, <1>7 DEF HandledInTime
    <3>3. core[c].node = NULL => core[c].state # "SWITCH_IN" /\ core[c].state # "SWITCH_OUT"
      BY DEF Inv, CoreOK
    <3> QED BY <1>3, <3>1, <3>2, <3>3
  <2> QED BY <2>1 DEF Timers
<1>10. Bursts'
  BY <1>1, <1>2, <1>4, <1>6 DEF Bursts
<1>11. RunningOnOccupiedCore'
  BY <1>1, <1>2, <1>3 DEF RunningOnOccupiedCore
<1>12. States'
  BY <1>1, <1>2, <1>4, <1>11 DEF States
<1>13. InTime'
  BY <1>1, <1>2, <1>3, <1>4, <1>5 DEF InTime
<1>14. Alive'
  <2>1. \A o \in Procs : Arrived(o)' <=> Arrived(o)
    <3>1. time \in Nat /\ \A o \in Procs : workload[o].startTime \in Nat
      BY <1>1 DEF TypeOK, ProcessInput
    <3> QED BY <1>1, <3>1 DEF Arrived
  <2> QED BY <1>1, <1>2, <1>4, <1>6, <2>1 DEF Alive, Living
<1>15. HandledInTime'
  BY <1>7 DEF HandledInTime
<1>16. SwitchedOutInTime'
  <2>1. SUFFICES ASSUME NEW c \in Leaving
                 PROVE  Left[core[c].node] >= core'[c].switchOutTimer - 0
    <3>1. \A c \in Leaving : c \in Cores
      BY DEF Leaving
    <3> QED BY <1>1, <1>3, <1>4, <1>5, <3>1 DEF SwitchedOutInTime
  <2>2. c \in Cores
    BY DEF Leaving
  <2>3. Left[core[c].node]
          >= core[c].switchOutTimer - (IF core[c].state = "SWITCH_OUT" THEN 1 ELSE 0)
    BY <1>1, <1>2 DEF SwitchedOutInTime
  <2>4. /\ core'[c].switchOutTimer =
             core[c].switchOutTimer - (IF core[c].state = "SWITCH_OUT" THEN 1 ELSE 0)
        /\ core[c].switchOutTimer \in Int
    BY <1>3, <2>2
  <2> QED BY <2>3, <2>4
<1>17. DiskInTime'
  BY <1>1 DEF DiskInTime
<1>18. DistinctWaiting(waitingQueue)' /\ DistinctReady(readyQueues)'
  BY <1>1, <1>2
<1>19. Owned'
  BY <1>8, <1>9, <1>10, <1>12, <1>13, <1>14, <1>15, <1>16, <1>17, <1>18 DEF Owned
<1> QED
  BY <1>1, <1>11, <1>19 DEF Kept, OkFaults

(* freeComputer leaves everything where it is.                             *)
LEMMA FreeComputerKept ==
  ASSUME Inv, Owned, FreeComputer
  PROVE  Kept'
<1>1. /\ phase = "free" /\ phase' = "done"
      /\ UNCHANGED <<time, workload, proc, readyQueues, waitingQueue, core, disk>>
  BY DEF FreeComputer, At, Goto, inputs, lists
<1>2. UNCHANGED Ready /\ DistinctReady(readyQueues)'
  BY <1>1, ViewsUnchanged DEF Owned
<1>3. /\ \A c \in Cores : CoreKept(c) /\ ~Handled(c)'
      /\ \A o \in Procs : Arrived(o)' <=> Arrived(o)
  BY <1>1 DEF CoreKept, Handled, Arrived
<1>4. Owned'
  BY <1>1, <1>2, <1>3, GoOnOwned
<1> QED
  BY <1>1, <1>4 DEF Kept, OkFaults, Owned, States

-----------------------------------------------------------------------------
(* The invariant *)

LEMMA StutterKept ==
  ASSUME Kept, UNCHANGED vars
  PROVE  Kept'
<1>1. UNCHANGED <<time, phase, index, workload, proc, readyQueues, waitingQueue, core, disk, fault>>
  BY SystemUnchanged DEF vars
<1>2. UNCHANGED <<Ready, Waiting, Leaving, Left, InIO, InCPU, Interrupted>>
  BY <1>1, ViewsUnchanged
<1>3. OkFaults' /\ RunningOnOccupiedCore'
  BY <1>1 DEF Kept, OkFaults, RunningOnOccupiedCore
<1>4. ASSUME fault = "none" PROVE Owned'
  <2>1. Owned
    BY <1>4 DEF Kept
  <2>2. DistinctReady(readyQueues)' /\ DistinctWaiting(waitingQueue)'
    BY <1>1, <2>1 DEF Owned
  <2>3. Exclusive' /\ Timers'
    BY <1>1, <1>2, <2>1 DEF Owned, Exclusive, Timers
  <2>4. Bursts' /\ States'
    BY <1>1, <1>2, <1>3, <2>1 DEF Owned, Bursts, States
  <2>5. InTime'
    BY <1>1, <1>2, <2>1 DEF Owned, InTime
  <2>6. \A o \in Procs : (Arrived(o)' <=> Arrived(o)) /\ \A c \in Cores : Handled(c)' <=> Handled(c)
    BY <1>1 DEF Arrived, Handled
  <2>7. Alive'
    BY <1>1, <1>2, <2>1, <2>6 DEF Owned, Alive, Living
  <2>8. HandledInTime'
    <3>1. \A c \in Cores : Handled(c)' <=> Handled(c)
      BY <1>1 DEF Handled
    <3> QED BY <1>1, <1>2, <2>1, <3>1 DEF Owned, HandledInTime
  <2>9. SwitchedOutInTime' /\ DiskInTime'
    BY <1>1, <1>2, <2>1 DEF Owned, SwitchedOutInTime, DiskInTime
  <2> QED BY <2>2, <2>3, <2>4, <2>5, <2>7, <2>8, <2>9 DEF Owned
<1> QED
  BY <1>1, <1>3, <1>4 DEF Kept

(* Nobody has arrived, and nobody is anywhere.                             *)
LEMMA InitKept ==
  ASSUME Init, GoodInputs
  PROVE  Kept
<1>1. /\ time = 0 /\ phase = "loop" /\ workload \in Workloads /\ fault = "none"
      /\ proc = [p \in Procs |-> [state |-> "READY", nextEvents |-> workload[p].events,
                                  advancementTime |-> 0]]
      /\ readyQueues = [q \in Queue |-> <<>>] /\ waitingQueue = <<>>
      /\ core = [c \in Cores |-> initCore]
      /\ disk = [state |-> "DISK_IDLE", node |-> NULL]
  BY DEF Init
<1>2. \A q \in Queue : readyQueues[q] = <<>>
  BY <1>1
<1>3. \A c \in Cores : /\ core[c].state = "IDLE" /\ core[c].node = NULL
                       /\ core[c].switchInTimer = 0 /\ core[c].switchOutTimer = 0
  BY <1>1 DEF initCore
<1>4. disk.node = NULL /\ disk.state = "DISK_IDLE"
  BY <1>1
<1>5. \A p \in Procs : proc[p] = [state |-> "READY", nextEvents |-> workload[p].events,
                                  advancementTime |-> 0]
  BY <1>1
<1>6. ASSUME NEW p \in Procs
       PROVE  proc[p].state = "READY" /\ proc[p].nextEvents = workload[p].events
  <2>1. proc[p] = [state |-> "READY", nextEvents |-> workload[p].events, advancementTime |-> 0]
    BY <1>5
  <2>2. proc[p].state = "READY"
    BY <2>1
  <2>3. proc[p].nextEvents = workload[p].events
    BY <2>1
  <2> QED BY <2>2, <2>3
<1>7. Ready = {} /\ Waiting = {} /\ Leaving = {}
  <2>1. \A q \in Queue : DOMAIN readyQueues[q] = {}
    BY <1>2
  <2>2. DOMAIN waitingQueue = {}
    BY <1>1
  <2> QED BY <1>3, <2>1, <2>2 DEF Ready, InQueues, Waiting, Leaving, LeavesForIO, ProcessInQueue
<1>8. InIO = {} /\ InCPU = {}
  BY <1>3, <1>4, <1>7, NullIsNoProcess DEF InIO, InCPU
<1>9. DistinctReady(readyQueues) /\ DistinctWaiting(waitingQueue)
  BY <1>1, <1>2 DEF DistinctReady, DistinctWaiting
<1>10. Exclusive /\ Timers
  BY <1>3, <1>4, <1>7, NullIsNoProcess DEF Exclusive, Timers
<1>11. Bursts
  <2>1. \A p \in Procs : GoodEvents(workload[p].events, workload[p].processDuration)
    BY <1>1 DEF GoodInputs
  <2>2. \A p \in Procs : GoodEvents(proc[p].nextEvents, workload[p].processDuration)
    BY <1>6, <2>1
  <2> QED BY <1>8, <1>6, <2>2 DEF Bursts
<1>12. RunningOnOccupiedCore /\ States
  <2>1. RunningOnOccupiedCore
    BY <1>3, <1>6 DEF RunningOnOccupiedCore
  <2> QED BY <1>6, <2>1 DEF States
<1>13. InTime
  BY <1>3, <1>4, <1>7, NullIsNoProcess DEF InTime
<1>14. Alive
  <2>1. ASSUME NEW p \in Procs PROVE ~Arrived(p)
    <3>1. workload[p].startTime \in Nat
      BY <1>1, InputAssumption DEF ProcessInput
    <3> QED BY <1>1, <3>1 DEF Arrived
  <2> QED BY <1>5, <1>8, <2>1 DEF Alive, Living
<1>15. HandledInTime /\ SwitchedOutInTime /\ DiskInTime
  BY <1>1, <1>7 DEF HandledInTime, Handled, SwitchedOutInTime, DiskInTime
<1> QED
  BY <1>1, <1>9, <1>10, <1>11, <1>12, <1>13, <1>14, <1>15 DEF Kept, OkFaults, Owned

(* Every step of the program keeps the invariant.                          *)
LEMMA NextKept ==
  ASSUME GoodInputs, Inv, Inv', AssignedOK, AssigningOK, workload \in Workloads, Kept,
         [Next]_vars
  PROVE  Kept'
<1>1. CASE UNCHANGED vars \/ Stop
  BY <1>1, StutterKept DEF Stop
<1>2. CASE Next /\ ~Stop
  <2>1. fault = "none"
    BY <1>2 DEF Next, At, StartTick, EndOfWorkload,
       ProcessArrived, ArrivalsDone, AgingNextQueue, AgingDone, AgingKeep, AgingMove,
       NoProcess, SwitchInDone, SwitchOutDone, Terminate, StartIO, NoEvent, WithinLimit,
       Demote, Preempt, KeepRunning, Resume, NoResume, QueuesSizesBeforeRR,
       SliceContinues, SwitchOutAfterSlice, NewSlice, NoInterrupt, InterruptCore,
       NoInterruptTime, SkipCore, PutProcessOnCPU, SkipDisk, PutProcessOnDisk,
       AdvanceProcessTime, AdvanceSchedulingTime, FreeComputer
  <2> Owned
    BY <2>1 DEF Kept
  <2>2. CASE \/ StartTick \/ EndOfWorkload \/ ArrivalsDone \/ AgingNextQueue \/ AgingDone
             \/ AgingKeep \/ NoProcess \/ NoEvent \/ WithinLimit \/ KeepRunning \/ NoResume
             \/ SliceContinues \/ NoInterrupt \/ SkipCore \/ SkipDisk
             \/ QueuesSizesBeforeRR \/ NewSlice
    BY <2>2, GoOnKept
  <2>3. CASE \E p \in Procs : ProcessArrived(p)
    BY <2>3, ProcessArrivedOwned
  <2>4. CASE AgingMove
    BY <2>4, AgingMoveKept
  <2>5. CASE SwitchInDone
    BY <2>5, SwitchInDoneKept
  <2>6. CASE SwitchOutDone
    BY <2>6, SwitchOutDoneKept
  <2>7. CASE Terminate
    BY <2>7, TerminateKept
  <2>8. CASE StartIO
    BY <2>8, StartIOKept
  <2>9. CASE Demote
    BY <2>9, DemoteKept
  <2>10. CASE Preempt
    BY <2>10, PreemptKept
  <2>11. CASE Resume
    BY <2>11, ResumeKept
  <2>12. CASE SwitchOutAfterSlice
    BY <2>12, SwitchOutAfterSliceKept
  <2>13. CASE \E c \in Cores : InterruptCore(c)
    BY <2>13, InterruptCoreKept
  <2>14. CASE NoInterruptTime
    BY <2>14, NoInterruptTimeKept
  <2>15. CASE \E q \in Queue : PutProcessOnCPU(q)
    <3>1. index \in Cores
      BY <2>15 DEF AssigningOK, PutProcessOnCPU, At
    <3> QED BY <2>15, <3>1, PutProcessOnCPUKept
  <2>16. CASE PutProcessOnDisk
    BY <2>16, PutProcessOnDiskKept
  <2>17. CASE AdvanceProcessTime
    BY <2>17, AdvanceProcessTimeKept
  <2>18. CASE AdvanceSchedulingTime
    BY <2>18, AdvanceSchedulingTimeKept
  <2>19. CASE FreeComputer
    BY <2>19, FreeComputerKept
  <2> QED
    BY <1>2, <2>2, <2>3, <2>4, <2>5, <2>6, <2>7, <2>8, <2>9, <2>10, <2>11, <2>12, <2>13,
       <2>14, <2>15, <2>16, <2>17, <2>18, <2>19 DEF Next
<1> QED
  BY <1>1, <1>2

-----------------------------------------------------------------------------
(* The invariant holds in every state                                      *)

(* The input file is read once.                                            *)
LEMMA WorkloadKept ==
  ASSUME [Next]_vars
  PROVE  workload' = workload
BY SystemUnchanged DEF vars, inputs, Next, StartTick, EndOfWorkload, ProcessArrived,
   ArrivalsDone, AgingNextQueue, AgingDone, AgingKeep, AgingMove, NoProcess, SwitchInDone,
   SwitchOutDone, Terminate, StartIO, NoEvent, WithinLimit, Demote, Preempt, KeepRunning,
   Resume, NoResume, QueuesSizesBeforeRR, SliceContinues, SwitchOutAfterSlice, NewSlice,
   NoInterrupt, InterruptCore, NoInterruptTime, SkipCore, PutProcessOnCPU, SkipDisk,
   PutProcessOnDisk, AdvanceProcessTime, AdvanceSchedulingTime, FreeComputer, Stop

\* What the steps of Kept need to know besides Inv.
Context == AssignedOK /\ AssigningOK /\ workload \in Workloads

LEMMA StepContext ==
  StepSpec => []Context
<1>1. Init => Context
  BY DEF Init, Context, AssignedOK, AssigningOK
<1>2. Inv /\ Context /\ [Next]_vars => Context'
  <2>1. SUFFICES ASSUME Inv, Context, [Next]_vars PROVE Context'
    OBVIOUS
  <2>2. TypeOK /\ AssignedOK /\ AssigningOK /\ workload \in Workloads
    BY <2>1 DEF Inv, Context
  <2>3. AssignedOK'
    BY <2>1, <2>2, SkipCoreAssigned, PutProcessOnCPUAssigned, DiskAssigned, OtherwiseAssigned
  <2>4. AssigningOK'
    BY <2>1, <2>2, AssigningCore
  <2>5. workload' \in Workloads
    BY <2>1, <2>2, WorkloadKept
  <2> QED BY <2>3, <2>4, <2>5 DEF Context
<1> QED
  BY <1>1, <1>2, StepInvariance, PTL DEF StepSpec

LEMMA ContextInvariance ==
  Spec => []Context
BY StepContext, PTL DEF Spec, StepSpec

LEMMA StepOwnership ==
  ASSUME GoodInputs
  PROVE  StepSpec => []Kept
<1>1. Init => Kept
  BY InitKept
<1>2. Inv /\ Inv' /\ Context /\ Kept /\ [Next]_vars => Kept'
  BY NextKept DEF Context
<1> QED
  BY <1>1, <1>2, StepInvariance, StepContext, PTL DEF StepSpec

(* The inductive invariant: where the processes are, and how much time is  *)
(* left to each of them.                                                   *)
THEOREM Ownership ==
  ASSUME GoodInputs
  PROVE  Spec => []Kept
BY StepOwnership, PTL DEF Spec, StepSpec

(* A PCB says RUNNING exactly while an OCCUPIED core executes the process. *)
THEOREM RunningIsOnCore ==
  ASSUME GoodInputs
  PROVE  Spec => []RunningOnOccupiedCore
<1>1. Kept => RunningOnOccupiedCore
  BY DEF Kept
<1> QED
  BY <1>1, Ownership, PTL

(* No burst is overrun by a single time unit.                              *)
LEMMA OwnedInTime ==
  ASSUME Inv, Context, Owned, NEW p \in Procs
  PROVE  CurEventTimeLeft(p) >= 0
<1>1. TypeOK /\ InTime /\ Alive /\ Bursts /\ Exclusive /\ workload \in Workloads
  BY DEF Inv, Context, Owned
<1>2. Left[p] \in Int /\ Left[p] = CurEventTimeLeft(p)
  BY <1>1, LeftIsInt, LeftOf
<1>3. CASE p \in Ready \cup Waiting \/ disk.node = p
  BY <1>1, <1>2, <1>3 DEF InTime
<1>4. CASE \E c \in Cores \ Leaving : core[c].node = p
  <2>1. PICK c \in Cores \ Leaving : core[c].node = p
    BY <1>4
  <2>2. Left[p] >= IF core[c].state = "OCCUPIED" THEN 0 ELSE 1
    BY <1>1, <2>1 DEF InTime
  <2> QED BY <1>2, <2>2
<1>5. CASE ~Living(p)
  <2>1. workload[p] \in ProcessInput /\ workload[p].events # <<>>
    BY <1>1, InputAssumption DEF TypeOK
  <2>2. CASE ~Arrived(p)
    <3>1. proc[p] = [state |-> "READY", nextEvents |-> workload[p].events, advancementTime |-> 0]
      BY <1>1, <2>2 DEF Alive
    <3>2. proc[p].nextEvents = workload[p].events /\ proc[p].advancementTime = 0
      <4>1. proc[p].nextEvents = workload[p].events
        BY <3>1
      <4>2. proc[p].advancementTime = 0
        BY <3>1
      <4> QED BY <4>1, <4>2
    <3>3. workload[p].events \in Seq(Event)
      BY <2>1 DEF ProcessInput
    <3>4. workload[p].events[1] \in Event
      BY <2>1, <3>3
    <3>5. workload[p].events[1].time \in Nat
      BY <3>4 DEF Event
    <3> QED BY <2>1, <3>2, <3>5 DEF CurEventTimeLeft, TimeLeft
  <2>3. CASE proc[p].state = "TERMINATED"
    <3>1. proc[p].nextEvents = <<>> /\ proc[p].advancementTime = workload[p].processDuration
      BY <1>1, <2>3 DEF Bursts
    <3>2. workload[p].processDuration \in Nat
      BY <2>1 DEF ProcessInput
    <3> QED BY <3>1, <3>2 DEF CurEventTimeLeft, TimeLeft
  <2> QED BY <1>5, <2>2, <2>3 DEF Living
<1> QED
  BY <1>1, <1>3, <1>4, <1>5 DEF Alive, InIO, InCPU

(* handleSchedulerEvents and handleSimulationEvents meet every event in    *)
(* the time unit in which no time is left to it, for any preemptions,      *)
(* slices, interrupts and waits before it.                                 *)
THEOREM BurstsEndOnTime ==
  ASSUME GoodInputs
  PROVE  Spec => []NeverPastEvent
<1>1. Inv /\ Context /\ Kept => NeverPastEvent
  BY OwnedInTime DEF Kept, NeverPastEvent
<1> QED
  BY <1>1, Invariance, ContextInvariance, Ownership, PTL

-----------------------------------------------------------------------------
(* Nobody is lost or duplicated                                            *)

LEMMA AtMostOne ==
  ASSUME NEW S, \A x, y \in S : x = y
  PROVE  Cardinality(S) = IF S = {} THEN 0 ELSE 1
<1>1. CASE S = {}
  BY <1>1, FS_EmptySet
<1>2. CASE S # {}
  <2>1. PICK x \in S : TRUE
    BY <1>2
  <2>2. S = {x}
    BY <2>1
  <2> QED BY <1>2, <2>2, FS_Singleton
<1> QED
  BY <1>1, <1>2

(* A queue without duplicates is not longer than there are processes.      *)
LEMMA QueueLength ==
  ASSUME NEW s \in Seq(Procs), DistinctWaiting(s)
  PROVE  Len(s) <= NbProcesses
<1>1. Len(s) \in Nat /\ NbProcesses \in Nat /\ s \in [1..Len(s) -> Procs]
  BY SizeAssumption
<1>2. IsFiniteSet(1..Len(s)) /\ Cardinality(1..Len(s)) = Len(s)
  <2>1. /\ IsFiniteSet(1..Len(s))
        /\ Cardinality(1..Len(s)) = IF 1 > Len(s) THEN 0 ELSE Len(s) - 1 + 1
    BY <1>1, FS_Interval
  <2> QED BY <1>1, <2>1
<1>3. IsFiniteSet(Procs) /\ Cardinality(Procs) = NbProcesses
  <2>1. /\ IsFiniteSet(1..NbProcesses)
        /\ Cardinality(1..NbProcesses) = IF 1 > NbProcesses THEN 0 ELSE NbProcesses - 1 + 1
    BY <1>1, FS_Interval
  <2> QED BY <1>1, <2>1 DEF Procs
<1>4. CASE Len(s) > NbProcesses
  <2>1. \E x, y \in 1..Len(s) : x # y /\ s[x] = s[y]
    BY <1>1, <1>2, <1>3, <1>4, FS_PigeonHole
  <2> QED BY <2>1 DEF DistinctWaiting
<1> QED
  BY <1>1, <1>4

(* A process is in a place once or not at all, and in one place only.      *)
LEMMA OwnedPlaces ==
  ASSUME TypeOK, Owned, NEW p \in Procs
  PROVE  Places(p) = IF Living(p) THEN 1 ELSE 0
<1> DEFINE
  R == {x \in Queue \X (1..NbProcesses) :
          x[2] <= Len(readyQueues[x[1]]) /\ readyQueues[x[1]][x[2]] = p}
  W == {k \in DOMAIN waitingQueue : waitingQueue[k] = p}
  C == {c \in Cores : core[c].node = p /\ ~LeavesForIO(c)}
<1>1. /\ Exclusive /\ Alive /\ DistinctReady(readyQueues) /\ DistinctWaiting(waitingQueue)
      /\ \A q \in Queue : readyQueues[q] \in Seq(Procs)
      /\ waitingQueue \in Seq(Procs) /\ p # NULL
  BY NullIsNoProcess DEF Owned, TypeOK
<1>2. Cardinality(R) = IF p \in Ready THEN 1 ELSE 0
  <2>1. ASSUME NEW x \in R, NEW y \in R PROVE x = y
    <3>1. /\ x[1] \in Queue /\ y[1] \in Queue /\ x = <<x[1], x[2]>> /\ y = <<y[1], y[2]>>
          /\ x[2] \in 1..Len(readyQueues[x[1]]) /\ y[2] \in 1..Len(readyQueues[y[1]])
          /\ readyQueues[x[1]][x[2]] = readyQueues[y[1]][y[2]]
      BY <1>1, SizeAssumption
    <3>2. x[1] = y[1] /\ x[2] = y[2]
      BY <1>1, <3>1 DEF DistinctReady
    <3> QED BY <3>1, <3>2
  <2>2. ASSUME p \in Ready PROVE R # {}
    <3>1. PICK q \in Queue : ProcessInQueue(readyQueues[q], p)
      BY <2>2 DEF Ready, InQueues
    <3>2. PICK k \in 1..Len(readyQueues[q]) : readyQueues[q][k] = p
      BY <1>1, <3>1 DEF ProcessInQueue
    <3>3. DistinctWaiting(readyQueues[q])
      BY <1>1, <3>1 DEF DistinctReady, DistinctWaiting
    <3>4. Len(readyQueues[q]) <= NbProcesses
      BY <1>1, <3>3, QueueLength
    <3>5. k \in 1..NbProcesses
      BY <1>1, <3>4, SizeAssumption
    <3>6. <<q, k>> \in R
      BY <1>1, <3>2, <3>5
    <3> QED BY <3>6
  <2>3. ASSUME NEW x \in R PROVE p \in Ready
    <3>1. x[1] \in Queue /\ x[2] \in DOMAIN readyQueues[x[1]] /\ readyQueues[x[1]][x[2]] = p
      BY <1>1, SizeAssumption
    <3> QED BY <3>1 DEF Ready, InQueues, ProcessInQueue
  <2> HIDE DEF R
  <2> QED BY <2>1, <2>2, <2>3, AtMostOne
<1>3. Occurrences(p, waitingQueue) = IF p \in Waiting THEN 1 ELSE 0
  <2>1. ASSUME NEW x \in W, NEW y \in W PROVE x = y
    BY <1>1 DEF DistinctWaiting
  <2>2. p \in Waiting <=> W # {}
    BY DEF Waiting, ProcessInQueue
  <2> HIDE DEF W
  <2>3. Cardinality(W) = IF p \in Waiting THEN 1 ELSE 0
    BY <2>1, <2>2, AtMostOne
  <2> QED BY <2>3 DEF W, Occurrences
<1>4. Cardinality(C) = IF \E c \in Cores \ Leaving : core[c].node = p THEN 1 ELSE 0
  <2>1. ASSUME NEW x \in C, NEW y \in C PROVE x = y
    BY <1>1 DEF Exclusive
  <2>2. (\E c \in Cores \ Leaving : core[c].node = p) <=> C # {}
    BY DEF Leaving
  <2> HIDE DEF C
  <2> QED BY <2>1, <2>2, AtMostOne
<1>5. Places(p) = Cardinality(R) + Occurrences(p, waitingQueue) + Cardinality(C)
                    + (IF disk.node = p THEN 1 ELSE 0)
  BY DEF Places
<1> HIDE DEF R, W, C
<1>6. /\ p \in Ready => p \notin Waiting /\ disk.node # p /\ \A c \in Cores : core[c].node # p
      /\ p \in Waiting => disk.node # p
      /\ p \in Waiting \/ disk.node = p => \A c \in Cores \ Leaving : core[c].node # p
  BY <1>1 DEF Exclusive, InIO
<1>7. Living(p) <=> \/ p \in Ready \/ p \in Waiting \/ disk.node = p
                    \/ \E c \in Cores \ Leaving : core[c].node = p
  BY <1>1 DEF Alive, InIO, InCPU
<1> QED
  BY <1>2, <1>3, <1>4, <1>5, <1>6, <1>7

(* The node of a process that has arrived and not terminated is in one     *)
(* place, every other node in none, and a core that switches a process out *)
(* for its I/O holds one that is on the wait queue or the disk.            *)
THEOREM NobodyLost ==
  ASSUME GoodInputs
  PROVE  Spec => []OneOwner
<1>1. Inv /\ Kept => OneOwner
  <2>1. SUFFICES ASSUME Inv, Owned
                 PROVE  /\ \A p \in Procs : Places(p) = IF Living(p) THEN 1 ELSE 0
                        /\ \A c \in Cores : LeavesForIO(c) => WaitsForDisk(core[c].node)
    BY DEF OneOwner, Kept
  <2>2. TypeOK /\ Exclusive
    BY <2>1 DEF Inv, Owned
  <2>3. ASSUME NEW c \in Cores, LeavesForIO(c) PROVE WaitsForDisk(core[c].node)
    <3>1. core[c].node \in Procs
      BY <2>2, <2>3 DEF TypeOK, Core, LeavesForIO
    <3>2. core[c].node \in InIO
      BY <2>2, <2>3, <3>1 DEF Exclusive, Leaving
    <3> QED BY <3>2 DEF InIO, Waiting, WaitsForDisk
  <2> QED BY <2>1, <2>2, <2>3, OwnedPlaces
<1> QED
  BY <1>1, Invariance, Ownership, PTL

(* The NULL pointers of the code - a process without a next event, a disk  *)
(* without a process - are never followed, and no node is linked twice.    *)
THEOREM OnlyListFaults ==
  ASSUME GoodInputs
  PROVE  Spec => []OkFaults
<1>1. Kept => OkFaults
  BY DEF Kept
<1> QED
  BY <1>1, Ownership, PTL

-----------------------------------------------------------------------------
(* The end of a process                                                    *)

(* A process that has terminated is nowhere, so no handler finds it.       *)
LEMMA TerminatedStays ==
  ASSUME Inv, Owned, NEW p \in Procs, proc[p].state = "TERMINATED", Next
  PROVE  proc'[p] = proc[p] /\ stats'[p] = stats[p]
<1>1. TypeOK /\ Alive /\ (Living(p) => FALSE)
  BY DEF Owned, Inv, Living
<1>2. /\ p \notin Ready /\ p \notin Waiting /\ disk.node # p
      /\ \A c \in Cores : core[c].node # p
  BY <1>1, OwnedByNobody DEF Alive
<1>3. proc \in [Procs -> Process] /\ stats \in [Procs -> ProcessStats]
  BY <1>1 DEF TypeOK
<1>4. CASE \E o \in Procs : ProcessArrived(o)
  <2>1. PICK o \in Procs : ProcessArrived(o)
    BY <1>4
  <2>2. ~Arrived(o)
    BY <1>1, <2>1 DEF ProcessArrived, ArrivesNow, At, Arrived, TypeOK, Procs
  <2>3. Arrived(p)
    <3>1. ASSUME ~Arrived(p) PROVE FALSE
      <4>1. proc[p] = [state |-> "READY", nextEvents |-> workload[p].events,
                       advancementTime |-> 0]
        BY <1>1, <3>1 DEF Alive
      <4>2. proc[p].state = "READY"
        BY <4>1
      <4> QED BY <4>2
    <3> QED BY <3>1
  <2>4. o # p
    BY <2>2, <2>3
  <2> QED BY <1>3, <2>1, <2>4 DEF ProcessArrived
<1>5. CASE SwitchInDone \/ Terminate \/ StartIO \/ Demote \/ Preempt \/ SwitchOutAfterSlice
  <2>1. index \in Cores
    BY <1>5, CurrentCore DEF SwitchInDone, Terminate, StartIO, Demote, Preempt,
       SwitchOutAfterSlice, At
  <2>2. core[index].node # p
    BY <1>2, <2>1
  <2>3. CASE SwitchInDone
    BY <1>3, <2>2, <2>3 DEF SwitchInDone
  <2>4. CASE Terminate
    BY <1>3, <2>2, <2>4 DEF Terminate
  <2>5. CASE StartIO
    BY <1>3, <2>2, <2>5 DEF StartIO
  <2>6. CASE Demote
    BY <1>3, <2>2, <2>6 DEF Demote, SwitchOutReady
  <2>7. CASE Preempt
    BY <1>3, <2>2, <2>7 DEF Preempt, SwitchOutReady
  <2>8. CASE SwitchOutAfterSlice
    BY <1>3, <2>2, <2>8 DEF SwitchOutAfterSlice, SwitchOutReady
  <2> QED BY <1>5, <2>3, <2>4, <2>5, <2>6, <2>7, <2>8
<1>6. CASE Resume \/ NoInterruptTime
  <2>1. PICK running \in {{}, {core[index].node}} :
          /\ EndIO(disk.node, running) /\ stats' = stats
          /\ running # {} => index \in Cores
    <3>1. CASE Resume
      <4>1. index \in Cores
        BY <3>1, CurrentCore DEF Resume, At
      <4> QED BY <3>1, <4>1 DEF Resume
    <3>2. CASE NoInterruptTime
      BY <3>2 DEF NoInterruptTime
    <3> QED BY <1>6, <3>1, <3>2
  <2>2. p \notin running
    BY <1>2, <2>1
  <2>3. proc'[p] = [proc[p] EXCEPT !.state = @, !.nextEvents = @]
    BY <1>2, <2>1, <2>2 DEF EndIO
  <2>4. proc[p] \in Process
    BY <1>3
  <2> QED BY <2>1, <2>3, <2>4 DEF Process
<1>7. CASE \E c \in Cores : InterruptCore(c)
  BY <1>2, <1>7 DEF InterruptCore, ProcessInterrupted
<1>8. CASE \E q \in Queue : PutProcessOnCPU(q)
  <2>1. PICK q \in Queue : PutProcessOnCPU(q)
    BY <1>8
  <2>2. TopNode(readyQueues[q]) # p
    <3>1. readyQueues[q] \in Seq(Procs) /\ readyQueues[q] # <<>>
      BY <1>1, <2>1 DEF TypeOK, PutProcessOnCPU
    <3>2. 1 \in DOMAIN readyQueues[q]
      BY <3>1
    <3> QED BY <1>2, <3>1, <3>2 DEF TopNode, Ready, InQueues, ProcessInQueue
  <2> QED BY <1>3, <2>1, <2>2 DEF PutProcessOnCPU
<1>9. CASE PutProcessOnDisk
  <2>1. TopNode(waitingQueue) # p
    <3>1. waitingQueue \in Seq(Procs) /\ waitingQueue # <<>>
      BY <1>1, <1>9 DEF TypeOK, PutProcessOnDisk, DiskAvailable
    <3>2. 1 \in DOMAIN waitingQueue
      BY <3>1
    <3> QED BY <1>2, <3>1, <3>2 DEF TopNode, Waiting, ProcessInQueue
  <2> QED BY <1>3, <1>9, <2>1 DEF PutProcessOnDisk
<1>10. CASE AdvanceProcessTime
  BY <1>10 DEF AdvanceProcessTime, Progresses
<1>11. CASE ~ \/ \E o \in Procs : ProcessArrived(o)
              \/ SwitchInDone \/ Terminate \/ StartIO \/ Demote \/ Preempt
              \/ SwitchOutAfterSlice \/ Resume \/ NoInterruptTime
              \/ (\E c \in Cores : InterruptCore(c)) \/ (\E q \in Queue : PutProcessOnCPU(q))
              \/ PutProcessOnDisk \/ AdvanceProcessTime
  <2>1. proc' = proc /\ stats' = stats
    BY <1>11, SystemUnchanged DEF Next, StartTick, EndOfWorkload, ArrivalsDone,
       AgingNextQueue, AgingDone, AgingKeep, AgingMove, NoProcess, SwitchOutDone, NoEvent,
       WithinLimit, KeepRunning, NoResume, QueuesSizesBeforeRR, SliceContinues, NewSlice,
       NoInterrupt, SkipCore, SkipDisk, AdvanceSchedulingTime, FreeComputer, Stop, vars
  <2> QED BY <2>1
<1> QED
  BY <1>4, <1>5, <1>6, <1>7, <1>8, <1>9, <1>10, <1>11

(* Only Terminate makes a process TERMINATED.                              *)
LEMMA OnlyTerminateTerminates ==
  ASSUME Inv, NEW p \in Procs, proc[p].state # "TERMINATED", Next, ~Terminate
  PROVE  proc'[p].state # "TERMINATED"
<1>1. proc \in [Procs -> Process]
  BY DEF Inv, TypeOK
<1>2. ASSUME NEW o, NEW to \in {"READY", "RUNNING", "WAITING"},
             proc' = [proc EXCEPT ![o].state = to]
      PROVE  proc'[p].state # "TERMINATED"
  BY <1>1, <1>2
<1>3. CASE (\E o \in Procs : ProcessArrived(o)) \/ StartIO
  <2>1. ASSUME NEW o, NEW to \in {"READY", "WAITING"},
               proc' = [proc EXCEPT ![o].state = to, ![o].nextEvents = Rest(@)]
        PROVE  proc'[p].state # "TERMINATED"
    <3>1. CASE o = p
      BY <1>1, <2>1, <3>1 DEF Process
    <3>2. CASE o # p
      BY <1>1, <2>1, <3>2
    <3> QED BY <3>1, <3>2
  <2>2. ASSUME NEW o \in Procs, ProcessArrived(o) PROVE proc'[p].state # "TERMINATED"
    <3>1. proc' = [proc EXCEPT ![o].state = "READY", ![o].nextEvents = Rest(@)]
      BY <2>2 DEF ProcessArrived
    <3> QED BY <2>1, <3>1
  <2>3. ASSUME StartIO PROVE proc'[p].state # "TERMINATED"
    <3>1. proc' = [proc EXCEPT ![core[index].node].state = "WAITING",
                               ![core[index].node].nextEvents = Rest(@)]
      BY <2>3 DEF StartIO
    <3> QED BY <2>1, <3>1
  <2> QED BY <1>3, <2>2, <2>3
<1>4. CASE SwitchInDone \/ Demote \/ Preempt \/ SwitchOutAfterSlice
  <2>1. ASSUME SwitchInDone PROVE proc'[p].state # "TERMINATED"
    <3>1. proc' = [proc EXCEPT ![core[index].node].state = "RUNNING"]
      BY <2>1 DEF SwitchInDone
    <3> QED BY <1>2, <3>1
  <2>2. ASSUME NEW nd, SwitchOutReady(index, nd) PROVE proc'[p].state # "TERMINATED"
    <3>1. proc' = [proc EXCEPT ![core[index].node].state = "READY"]
      BY <2>2 DEF SwitchOutReady
    <3> QED BY <1>2, <3>1
  <2>3. CASE Demote
    <3>1. proc' = proc \/ \E nd : SwitchOutReady(index, nd)
      BY <2>3 DEF Demote
    <3> QED BY <2>2, <3>1
  <2>4. CASE Preempt \/ SwitchOutAfterSlice
    BY <2>2, <2>4 DEF Preempt, SwitchOutAfterSlice
  <2> QED BY <1>4, <2>1, <2>3, <2>4
<1>5. CASE Resume \/ NoInterruptTime
  <2>1. PICK running \in SUBSET {core[index].node} : EndIO(disk.node, running)
    BY <1>5 DEF Resume, NoInterruptTime
  <2>2. proc' = [x \in Procs |->
          [proc[x] EXCEPT
             !.state = IF x \in running THEN "RUNNING" ELSE IF x = disk.node THEN "READY" ELSE @,
             !.nextEvents = IF x = disk.node THEN Rest(@) ELSE @]]
    BY <2>1 DEF EndIO
  <2>3. proc'[p].state = IF p \in running THEN "RUNNING"
                         ELSE IF p = disk.node THEN "READY" ELSE proc[p].state
    BY <1>1, <2>2 DEF Process
  <2> QED BY <2>3
<1>6. CASE \E c \in Cores : InterruptCore(c)
  <2>1. PICK c \in Cores : proc' = ProcessInterrupted(c)
    BY <1>6 DEF InterruptCore
  <2>2. proc'[p] = proc[p] \/ proc'[p] = [proc[p] EXCEPT !.state = "READY"]
    BY <2>1 DEF ProcessInterrupted
  <2> QED BY <1>1, <2>2 DEF Process
<1>7. CASE (\E q \in Queue : PutProcessOnCPU(q)) \/ PutProcessOnDisk
  <2>1. ASSUME NEW q \in Queue, PutProcessOnCPU(q) PROVE proc'[p].state # "TERMINATED"
    <3>1. PICK to \in {"READY", "RUNNING"} :
            proc' = [proc EXCEPT ![TopNode(readyQueues[q])].state = to]
      BY <2>1 DEF PutProcessOnCPU
    <3> QED BY <1>2, <3>1
  <2>2. ASSUME PutProcessOnDisk PROVE proc'[p].state # "TERMINATED"
    <3>1. proc' = [proc EXCEPT ![TopNode(waitingQueue)].state = "WAITING"]
      BY <2>2 DEF PutProcessOnDisk
    <3> QED BY <1>2, <3>1
  <2> QED BY <1>7, <2>1, <2>2
<1>8. CASE AdvanceProcessTime
  <2>1. proc'[p] = proc[p] \/ proc'[p] = [proc[p] EXCEPT !.advancementTime = @ + 1]
    BY <1>8 DEF AdvanceProcessTime
  <2> QED BY <1>1, <2>1 DEF Process
<1>9. CASE ~ \/ \E o \in Procs : ProcessArrived(o)
             \/ SwitchInDone \/ StartIO \/ Demote \/ Preempt
             \/ SwitchOutAfterSlice \/ Resume \/ NoInterruptTime
             \/ (\E c \in Cores : InterruptCore(c)) \/ (\E q \in Queue : PutProcessOnCPU(q))
             \/ PutProcessOnDisk \/ AdvanceProcessTime
  <2>1. proc' = proc
    BY <1>9, SystemUnchanged DEF Next, StartTick, EndOfWorkload, ArrivalsDone,
       AgingNextQueue, AgingDone, AgingKeep, AgingMove, NoProcess, SwitchOutDone, NoEvent,
       WithinLimit, KeepRunning, NoResume, QueuesSizesBeforeRR, SliceContinues, NewSlice,
       NoInterrupt, SkipCore, SkipDisk, AdvanceSchedulingTime, FreeComputer, Stop, vars
  <2> QED BY <2>1
<1> QED
  BY <1>3, <1>4, <1>5, <1>6, <1>7, <1>8, <1>9

(* A process terminates while it executes, with no event left and all its  *)
(* time done, and its PCB and statistics stay as they are from then on.    *)
THEOREM EndIsFinal ==
  ASSUME GoodInputs
  PROVE  Spec => TerminationIsFinal
<1> DEFINE Final ==
      \A p \in Procs :
        /\ proc[p].state = "TERMINATED" => proc'[p] = proc[p] /\ stats'[p] = stats[p]
        /\ proc[p].state # "TERMINATED" /\ proc'[p].state = "TERMINATED" =>
             /\ proc[p].state = "RUNNING" /\ proc[p].nextEvents = <<>>
             /\ proc[p].advancementTime = workload[p].processDuration
<1>1. Inv /\ Kept /\ [Next]_vars => [Final]_vars
  <2>1. SUFFICES ASSUME Inv, Kept, Next, ~UNCHANGED vars PROVE Final
    OBVIOUS
  <2>2. Owned
    BY <2>1 DEF Kept, Next, Stop, At, StartTick, EndOfWorkload,
       ProcessArrived, ArrivalsDone, AgingNextQueue, AgingDone, AgingKeep, AgingMove,
       NoProcess, SwitchInDone, SwitchOutDone, Terminate, StartIO, NoEvent, WithinLimit,
       Demote, Preempt, KeepRunning, Resume, NoResume, QueuesSizesBeforeRR,
       SliceContinues, SwitchOutAfterSlice, NewSlice, NoInterrupt, InterruptCore,
       NoInterruptTime, SkipCore, PutProcessOnCPU, SkipDisk, PutProcessOnDisk,
       AdvanceProcessTime, AdvanceSchedulingTime, FreeComputer
  <2>3. SUFFICES ASSUME NEW p \in Procs
        PROVE  /\ proc[p].state = "TERMINATED" => proc'[p] = proc[p] /\ stats'[p] = stats[p]
               /\ proc[p].state # "TERMINATED" /\ proc'[p].state = "TERMINATED" =>
                    /\ proc[p].state = "RUNNING" /\ proc[p].nextEvents = <<>>
                    /\ proc[p].advancementTime = workload[p].processDuration
    OBVIOUS
  <2>4. proc[p].state = "TERMINATED" => proc'[p] = proc[p] /\ stats'[p] = stats[p]
    BY <2>1, <2>2, TerminatedStays
  <2>5. ASSUME proc[p].state # "TERMINATED", proc'[p].state = "TERMINATED"
        PROVE  /\ proc[p].state = "RUNNING" /\ proc[p].nextEvents = <<>>
               /\ proc[p].advancementTime = workload[p].processDuration
    <3>1. Terminate
      BY <2>1, <2>5, OnlyTerminateTerminates
    <3>2. proc' = [proc EXCEPT ![core[index].node].state = "TERMINATED"]
      BY <3>1 DEF Terminate
    <3>3. p = core[index].node
      BY <2>1, <2>5, <3>2 DEF Inv, TypeOK
    <3> QED BY <2>1, <2>2, <3>1, <3>3, TerminatedInTime
  <2> QED BY <2>4, <2>5
<1> HIDE DEF Final
<1>2. Spec => [][Final]_vars
  BY <1>1, Invariance, Ownership, PTL DEF Spec
<1> QED
  BY <1>2 DEF TerminationIsFinal, Final
=============================================================================
