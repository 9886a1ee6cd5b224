------------------------- MODULE SchedulerProperties -------------------------
(***************************************************************************)
(* What makes the simulator correct.  CpuScheduler describes what the code *)
(* does; the properties below relate its parts to each other and to the    *)
(* input file.                                                             *)
(***************************************************************************)
EXTENDS CpuScheduler

-----------------------------------------------------------------------------
(* The inputs *)

\* The events s of a process that ends d time units after its start: their times
\* increase, bursts alternate, the last is a CPU burst, and an I/O burst is at
\* least as long as a switch-out.
GoodEvents(s, d) ==
  /\ \A k \in 1..Len(s) : s[k].time < d
  /\ \A j, k \in 1..Len(s) : j < k => s[j].time < s[k].time
  /\ \A k \in 1..(Len(s) - 1) :
       /\ s[k].type # s[k + 1].type
       /\ s[k].type = "IO" => s[k].time + SwitchOutDuration <= s[k + 1].time
  /\ s # <<>> => s[Len(s)].type = "CPU"

\* Input files like those of test_files, which begin with a CPU burst at time 0.
GoodInputs ==
  \A w \in Workloads : \A p \in Procs :
    /\ GoodEvents(w[p].events, w[p].processDuration)
    /\ w[p].events[1].type = "CPU" /\ w[p].events[1].time = 0

-----------------------------------------------------------------------------
(* The options *)

\* Options with which the slice of a process never has to shrink while it runs:
\* slices last a time unit at least, and a process demoted to a Round-Robin queue
\* without leaving its core comes from one with a slice that is not longer.
SliceOptions ==
  \A c \in Configurations : \A q \in Queue :
    /\ c[q].type = "RR" => c[q].RRSliceLimit >= 1
    /\ c[q].executiontTimeLimit # NO_LIMIT /\ q + 1 \in Queue /\ c[q + 1].type = "RR" =>
         c[q].type = "RR" /\ c[q].RRSliceLimit <= c[q + 1].RRSliceLimit

\* Options and durations with which no process starts to execute behind the test of
\* its execution limit: a switch-in ends before that test, and a limit is not 0.
LimitOptions ==
  /\ SwitchInDuration > 0
  /\ \A c \in Configurations : \A q \in Queue :
       c[q].executiontTimeLimit # NO_LIMIT => c[q].executiontTimeLimit >= 1

\* No --age at all, and no --limit on the last queue.
SafeOptions ==
  \A c \in Configurations : /\ \A q \in Queue : c[q].ageLimit = NO_LIMIT
                            /\ c[QueueCount - 1].executiontTimeLimit = NO_LIMIT

-----------------------------------------------------------------------------
(* Where a process is *)

\* processArrived has run for p.
Arrived(p) ==
  \/ workload[p].startTime < time
  \/ /\ workload[p].startTime = time /\ phase \notin {"loop", "free", "done"}
     /\ phase = "arrival" => p < index

Living(p) == Arrived(p) /\ proc[p].state # "TERMINATED"

\* Core c only switches its process out: the process already waits for the disk.
LeavesForIO(c) ==
  /\ core[c].node # NULL /\ ~core[c].continueOnCPU
  /\ \/ core[c].state = "SWITCH_OUT"
     \/ core[c].state = "INTERRUPTED" /\ core[c].switchOutTimer # 0

WaitsForDisk(p) == ProcessInQueue(waitingQueue, p) \/ disk.node = p

Occurrences(p, q) == Cardinality({k \in DOMAIN q : q[k] = p})

\* In how many places the node of p is kept.
Places(p) ==
    Cardinality({x \in Queue \X (1..NbProcesses) :
                   x[2] <= Len(readyQueues[x[1]]) /\ readyQueues[x[1]][x[2]] = p})
  + Occurrences(p, waitingQueue)
  + Cardinality({c \in Cores : core[c].node = p /\ ~LeavesForIO(c)})
  + (IF disk.node = p THEN 1 ELSE 0)

(* No node is lost or duplicated: a process that has arrived and not       *)
(* terminated is in exactly one ready queue, on one core, on the wait      *)
(* queue or on the disk, every other process nowhere, and a core that      *)
(* still switches a process out for its I/O holds a process that is on the *)
(* wait queue or the disk (handleSchedulerEvents, assignProcessesTo-       *)
(* Resources, handleInterrupt move the same node between these places).    *)
OneOwner ==
  fault = "none" =>
    /\ \A p \in Procs : Places(p) = IF Living(p) THEN 1 ELSE 0
    /\ \A c \in Cores : LeavesForIO(c) => WaitsForDisk(core[c].node)

(* A PCB says RUNNING exactly while an OCCUPIED core executes the process: *)
(* advanceProcessTime makes a RUNNING process progress without looking at  *)
(* the cores, advanceSchedulingTime an OCCUPIED core without looking at    *)
(* the PCB.                                                                *)
RunningOnOccupiedCore ==
  \A p \in Procs :
    proc[p].state = "RUNNING" <=> \E c \in Cores : core[c].state = "OCCUPIED" /\ core[c].node = p

-----------------------------------------------------------------------------
(* Progress of the processes *)

\* The burst in which p spends its t-th time unit.
BurstAt(p, t) ==
  workload[p].events[CHOOSE k \in DOMAIN workload[p].events :
      /\ workload[p].events[k].time <= t
      /\ \A j \in DOMAIN workload[p].events :
           workload[p].events[j].time <= t => j <= k].type

(* The CPU time printed by printStats is the time the process has spent in *)
(* the CPU bursts of its input line: whatever it was preempted by,         *)
(* interrupted by or waited for, a process is on a core in its CPU bursts  *)
(* and on the disk in its I/O bursts (advanceProcessTime adds to one       *)
(* advancementTime for both).                                              *)
CpuTimeIsExact ==
  \A p \in Procs :
    stats[p].cpuTime =
      Cardinality({t \in 0..(proc[p].advancementTime - 1) : BurstAt(p, t) = "CPU"})

(* Bursts end on time: handleSchedulerEvents and handleSimulationEvents    *)
(* test getProcessCurEventTimeLeft(...) == 0, so a process that went past  *)
(* its event even by one time unit would never notice it.                  *)
NeverPastEvent == fault = "none" => \A p \in Procs : CurEventTimeLeft(p) >= 0

(* A process terminates with its events consumed and all its time done,    *)
(* and from then on neither its PCB nor its statistics change.             *)
TerminationIsFinal ==
  [][\A p \in Procs :
       /\ proc[p].state = "TERMINATED" => proc'[p] = proc[p] /\ stats'[p] = stats[p]
       /\ proc[p].state # "TERMINATED" /\ proc'[p].state = "TERMINATED" =>
            /\ proc[p].state = "RUNNING" /\ proc[p].nextEvents = <<>>
            /\ proc[p].advancementTime = workload[p].processDuration]_vars

(* The statistics of a finished process fit together: its turnaround       *)
(* covers its bursts, the time it waited in ready queues, and one switch-  *)
(* in for its first run and for every context switch counted.              *)
TurnaroundCoversAll ==
  \A p \in Procs : proc[p].state = "TERMINATED" =>
    stats[p].turnaroundTime >= workload[p].processDuration + stats[p].waitingTime
                                 + SwitchInDuration * (stats[p].nbContextSwitches + 1)

-----------------------------------------------------------------------------
(* Scheduling *)

(* Work conservation, when the time advances: no core is idle while a      *)
(* ready queue holds a process, and the disk is not idle while one waits   *)
(* for it, unless an interrupt is being handled.                           *)
NoIdleResource ==
  phase = "advanceProcesses" =>
    /\ \A c \in Cores : core[c].state = "IDLE" => \A q \in Queue : readyQueues[q] = <<>>
    /\ disk.state = "DISK_IDLE" /\ waitingQueue # <<>> => Interrupted

(* The --limit option: nobody executes in a queue for longer than the      *)
(* queue allows without being moved down.  The code tests == and not >=,   *)
(* once per time unit, on OCCUPIED cores only (schedulingLogic.c:328).     *)
ExecutionWithinLimit ==
  fault = "none" =>
    \A p \in Procs : node[p].queueNbr \in Queue =>
      LET limit == algorithms[node[p].queueNbr].executiontTimeLimit
      IN limit # NO_LIMIT => node[p].currentQueueExecutionTime <= limit

(* A Round-Robin process never runs for more than its time slice without   *)
(* passing through the test of schedulingLogic.c:435-437: the comment at   *)
(* schedulingLogic.c:359 says that a running process is preempted "when    *)
(* the running process has used up its time slice".                        *)
SliceNotExceeded ==
  fault = "none" =>
    \A c \in Cores : core[c].state = "OCCUPIED" =>
      LET algorithm == algorithms[node[core[c].node].queueNbr]
      IN algorithm.type = "RR" => core[c].quantumTime <= algorithm.RRSliceLimit

(* What the slice is for, as the comments at schedulingLogic.c:359-360 and *)
(* 459-460 state it for one core: "a running process should be preempted   *)
(* [...] when the running process has used up its time slice", and starts  *)
(* a new one if "no other process is ready": nobody who has used up its    *)
(* slice executes on while another process of its queue is ready.          *)
UsedUpSlicePreempts ==
  phase = "advanceProcesses" /\ CoreCount = 1 =>
    \A c \in Cores : core[c].state = "OCCUPIED" =>
      LET q == node[core[c].node].queueNbr
      IN algorithms[q].type = "RR" /\ readyQueues[q] # <<>> =>
           core[c].quantumTime < algorithms[q].RRSliceLimit

(* Who preempts, as the comment at schedulingLogic.c:361-362 states it: "A *)
(* higher priority process can either be a process from a higher priority  *)
(* queue or a process from the same queue that has a higher priority".     *)
PreemptedByHigherPriority ==
  [][phase = "preempt" /\ core'[index].state # "OCCUPIED" =>
       LET p == core[index].node
           q == node[p].queueNbr
       IN \/ \E r \in Queue : r < q /\ readyQueues[r] # <<>>
          \/ \E k \in DOMAIN readyQueues[q] :
               LET o == readyQueues[q][k]
               IN \/ /\ algorithms[q].type = "SJF"
                     /\ node[o].executionTime < node[p].executionTime
                  \/ /\ algorithms[q].type = "PRIORITY"
                     /\ workload[o].priority < workload[p].priority]_vars

(* The --age option, as the comment at schedulingLogic.c:239 states it: a  *)
(* process that has waited for the age limit of its queue is moved up, so  *)
(* nobody waits in a queue for longer.                                     *)
WaitingWithinAge ==
  fault = "none" /\ phase = "advanceProcesses" =>
    \A q \in Queue : algorithms[q].ageLimit # NO_LIMIT =>
      \A k \in DOMAIN readyQueues[q] :
        node[readyQueues[q][k]].currentQueueWaitingTime < algorithms[q].ageLimit

(* The queues are in the order their algorithm schedules them in, by keys  *)
(* that are not out of date: dequeueTopReadyQueue and the preemption test  *)
(* only look at the head.  For SJF the key was stored when the process was *)
(* queued; it still is the time left of its burst.                         *)
QueuesAreOrdered ==
  fault = "none" =>
    \A q \in Queue : \A k \in DOMAIN readyQueues[q] :
      LET p == readyQueues[q][k]
      IN /\ node[p].queueNbr = q
         /\ algorithms[q].type = "SJF" =>
              /\ node[p].executionTime = CurEventTimeLeft(p)
              /\ \A j \in 1..k : node[readyQueues[q][j]].executionTime <= node[p].executionTime
         /\ algorithms[q].type = "PRIORITY" =>
              \A j \in 1..k : workload[readyQueues[q][j]].priority <= workload[p].priority

\* The cores that are being switched out, and the processes ready to run.
SwitchingOut == {c \in Cores : core[c].state = "SWITCH_OUT"}
NbReady == Cardinality({p \in Procs : InReadyQueues(p)})

(* At the end of their slices no more cores are switched out than there    *)
(* are processes waiting for one (the comment at schedulingLogic.c:414-418 *)
(* asks for this: cores already switching out serve waiting processes).    *)
SliceEndsServeSomebody ==
  [][phase = "slice" /\ SwitchingOut' # SwitchingOut =>
       Cardinality(SwitchingOut') <= NbReady']_vars

(* An interrupt is transparent to the core that handles it: the core keeps *)
(* its process, its other timers, its slice and its continueOnCPU flag,    *)
(* its process does not progress, and the state it goes back to, told from *)
(* the timers alone (schedulingLogic.c:392-411), is the one it was in.     *)
InterruptIsTransparent ==
  [][\A c \in Cores :
       /\ core[c].state # "INTERRUPTED" /\ core'[c].state = "INTERRUPTED" =>
            core[c].state = StateBeforeInterrupt(c)'
       /\ core[c].state = "INTERRUPTED" =>
            /\ core'[c] = [core[c] EXCEPT !.interruptTimer = core'[c].interruptTimer,
                                          !.state = core'[c].state]
            /\ core'[c].state # "INTERRUPTED" => core'[c].state = StateBeforeInterrupt(c)
            /\ core[c].node \in Procs =>
                 proc'[core[c].node].advancementTime = proc[core[c].node].advancementTime
    ]_vars

-----------------------------------------------------------------------------
(* The run as a whole *)

(* On inputs like those of test_files, no handler follows a NULL, dangling *)
(* or out-of-range pointer, from initComputer to freeComputer.             *)
NoUndefinedBehaviour == fault = "none"

(* "Frees the memory allocated for a Computer object" (computer.h): every  *)
(* node freeComputer finds is freed once, when the run is cut off too.     *)
FreedOnce == fault # "freed"

(* Every process is served to its end before the 200 time units are over   *)
(* (the bound of simulation.c:482 never cuts the run off).                 *)
AllProcessesTerminate == <>(phase = "done" /\ WorkloadOver)

-----------------------------------------------------------------------------
(* The promise to every process, whatever the scheduler does with it.      *)

\* Where the code keeps the node of p, in the words of ProcessLife.
PlaceOf(p) ==
  CASE proc[p].state = "TERMINATED"      -> "done"
    [] ~Arrived(p)                       -> "outside"
    [] Living(p) /\ InReadyQueues(p)     -> "ready"
    [] Living(p) /\ disk.node = p        -> "disk"
    [] Living(p) /\ ProcessInQueue(waitingQueue, p) -> "waiting"
    [] OTHER                             -> "core"

Life == INSTANCE ProcessLife
  WITH place  <- [p \in Procs |-> PlaceOf(p)],
       served <- [p \in Procs |-> proc[p].advancementTime]

(* The simulator implements ProcessLife: across preemptions, demotions,    *)
(* slices, interrupts and context switches, a process is served exactly    *)
(* its bursts, one after the other, on one core or on the disk; it goes to *)
(* the disk when a CPU burst is over and to no other place, comes back     *)
(* when its I/O burst is over, and terminates when all of it is done.      *)
ImplementsProcessLife == Life!Spec
=============================================================================
