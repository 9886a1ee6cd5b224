------------------------- MODULE ProcessLifeProofs -------------------------
(***************************************************************************)
(* CpuScheduler implements ProcessLife for any number of processes, cores  *)
(* and queues, all options and durations, and all input files like those   *)
(* of test_files: every handler moves one process between two places as    *)
(* ProcessLife allows, serves processes for one time unit, or is not seen  *)
(* there at all.  CPU times are exact and interrupts transparent for the   *)
(* same reasons, which is proved at the end.                               *)
(*                                                                         *)
(* Two invariants carry the argument.  Owned (OwnershipProofs) gives the   *)
(* place of a process before and after the step.  InLine says how far a    *)
(* process is in its input line, so that the burst ProcessLife computes    *)
(* from the time it has been served is the one before the head of its      *)
(* remaining events, which is all the code looks at.                       *)
(***************************************************************************)
EXTENDS OwnershipProofs

-----------------------------------------------------------------------------
(* The places *)

(* The place of a process is told from these five views of the state.      *)
LEMMA SamePlace ==
  ASSUME NEW p \in Procs,
         proc'[p].state = "TERMINATED" <=> proc[p].state = "TERMINATED",
         Arrived(p)' <=> Arrived(p),
         p \in Ready' <=> p \in Ready,
         p \in Waiting' <=> p \in Waiting,
         disk'.node = p <=> disk.node = p
  PROVE  PlaceOf(p)' = PlaceOf(p)
<1>1. /\ InReadyQueues(p) <=> p \in Ready
      /\ InReadyQueues(p)' <=> p \in Ready'
      /\ ProcessInQueue(waitingQueue, p) <=> p \in Waiting
      /\ ProcessInQueue(waitingQueue, p)' <=> p \in Waiting'
  BY DEF InReadyQueues, Ready, InQueues, Waiting
<1> QED
  BY <1>1 DEF PlaceOf, Living

\* Where the owner of a node has it, ProcessLife has the process.
InPlace ==
  \A p \in Procs :
    /\ ~Arrived(p) => PlaceOf(p) = "outside"
    /\ p \in Ready => PlaceOf(p) = "ready"
    /\ p \in Waiting => PlaceOf(p) = "waiting"
    /\ disk.node = p <=> PlaceOf(p) = "disk"
    /\ (\E c \in Cores \ Leaving : core[c].node = p) <=> PlaceOf(p) = "core"
    /\ proc[p].state = "TERMINATED" => PlaceOf(p) = "done"

LEMMA OwnedInPlace ==
  Owned => InPlace
<1> SUFFICES ASSUME Owned, NEW p \in Procs
    PROVE  /\ ~Arrived(p) => PlaceOf(p) = "outside"
           /\ p \in Ready => PlaceOf(p) = "ready"
           /\ p \in Waiting => PlaceOf(p) = "waiting"
           /\ disk.node = p <=> PlaceOf(p) = "disk"
           /\ (\E c \in Cores \ Leaving : core[c].node = p) <=> PlaceOf(p) = "core"
           /\ proc[p].state = "TERMINATED" => PlaceOf(p) = "done"
  BY DEF InPlace
<1>1. Exclusive /\ Alive
  BY DEF Owned
<1>2. /\ InReadyQueues(p) <=> p \in Ready
      /\ ProcessInQueue(waitingQueue, p) <=> p \in Waiting
  BY DEF InReadyQueues, Ready, InQueues, Waiting
<1> DEFINE onCore == \E c \in Cores \ Leaving : core[c].node = p
<1>3. /\ p \in Ready => p \notin Waiting /\ disk.node # p /\ ~onCore
      /\ p \in Waiting => disk.node # p /\ ~onCore
      /\ disk.node = p => ~onCore
  BY <1>1 DEF Exclusive, InIO
<1>4. Living(p) <=> p \in Ready \/ p \in Waiting \/ disk.node = p \/ onCore
  BY <1>1 DEF Alive, InIO, InCPU
<1>5. ~Arrived(p) => proc[p].state # "TERMINATED"
  <2>1. SUFFICES ASSUME ~Arrived(p) PROVE proc[p].state = "READY"
    OBVIOUS
  <2>2. proc[p] = [state |-> "READY", nextEvents |-> workload[p].events, advancementTime |-> 0]
    BY <1>1, <2>1 DEF Alive
  <2> QED BY <2>2
<1> HIDE DEF onCore
<1>6. Living(p) <=> Arrived(p) /\ proc[p].state # "TERMINATED"
  BY DEF Living
<1> USE <1>2, <1>3, <1>4, <1>5, <1>6
<1>7. /\ ~Arrived(p) => PlaceOf(p) = "outside"
      /\ proc[p].state = "TERMINATED" => PlaceOf(p) = "done"
  BY DEF PlaceOf
<1>8. /\ p \in Ready => PlaceOf(p) = "ready"
      /\ p \in Waiting => PlaceOf(p) = "waiting"
      /\ disk.node = p => PlaceOf(p) = "disk"
  BY DEF PlaceOf
<1>9. onCore <=> PlaceOf(p) = "core"
  BY DEF PlaceOf
<1>10. PlaceOf(p) = "disk" => disk.node = p
  BY DEF PlaceOf
<1> QED
  BY <1>7, <1>8, <1>9, <1>10 DEF onCore

(* So it is after a step.                                                  *)
LEMMA OwnedInPlaceAfter ==
  Owned' => InPlace'
BY OwnedInPlace, PTL

-----------------------------------------------------------------------------
(* The steps of ProcessLife *)

(* One process moves, nobody is served.                                    *)
LEMMA MoveStep ==
  ASSUME NEW p \in Procs, NEW from, NEW to, PlaceOf(p) = from, PlaceOf(p)' = to,
         \A o \in Procs : o # p => PlaceOf(o)' = PlaceOf(o),
         \A o \in Procs : proc'[o].advancementTime = proc[o].advancementTime,
         UNCHANGED workload
  PROVE  Life!Move(p, from, to)
BY DEF Life!Move

(* Nobody moves and nobody is served.                                      *)
LEMMA StutterStep ==
  ASSUME \A o \in Procs : PlaceOf(o)' = PlaceOf(o),
         \A o \in Procs : proc'[o].advancementTime = proc[o].advancementTime,
         UNCHANGED workload
  PROVE  UNCHANGED Life!life
BY DEF Life!life

-----------------------------------------------------------------------------
(* The bursts *)

\* p is in the k-th burst of its input line: the events behind it are to come.
Segment(p, k) ==
  /\ k \in 1..Len(workload[p].events)
  /\ Len(proc[p].nextEvents) = Len(workload[p].events) - k
  /\ \A j \in 1..Len(proc[p].nextEvents) : proc[p].nextEvents[j] = workload[p].events[k + j]
  /\ workload[p].events[k].time <= proc[p].advancementTime

InLine == \A p \in Procs : Arrived(p) => \E k : Segment(p, k)

(* The input line of a process.                                            *)
LEMMA InputLine ==
  ASSUME GoodInputs, TypeOK, workload \in Workloads, NEW p \in Procs
  PROVE  /\ workload[p].events \in Seq(Event) /\ Len(workload[p].events) \in Nat
         /\ Len(workload[p].events) >= 1
         /\ \A k \in 1..Len(workload[p].events) :
              /\ workload[p].events[k] \in Event /\ workload[p].events[k].time \in Nat
              /\ workload[p].events[k].type \in {"CPU", "IO"}
         /\ GoodEvents(workload[p].events, workload[p].processDuration)
         /\ workload[p].events[1].time = 0
         /\ proc[p].nextEvents \in Seq(Event) /\ Len(proc[p].nextEvents) \in Nat
         /\ proc[p].advancementTime \in Nat /\ workload[p].processDuration \in Nat
<1>1. /\ workload[p] \in ProcessInput /\ workload[p].events # <<>>
      /\ proc[p] \in Process
  BY InputAssumption DEF TypeOK
<1>2. /\ workload[p].events \in Seq(Event) /\ proc[p].nextEvents \in Seq(Event)
      /\ proc[p].advancementTime \in Nat /\ workload[p].processDuration \in Nat
  BY <1>1 DEF ProcessInput, Process
<1>3. /\ Len(workload[p].events) \in Nat /\ Len(workload[p].events) >= 1
      /\ Len(proc[p].nextEvents) \in Nat
      /\ \A k \in 1..Len(workload[p].events) : workload[p].events[k] \in Event
  BY <1>1, <1>2
<1>4. \A e \in Event : e.time \in Nat /\ e.type \in {"CPU", "IO"}
  BY DEF Event
<1>5. /\ GoodEvents(workload[p].events, workload[p].processDuration)
      /\ workload[p].events[1].time = 0
  BY DEF GoodInputs
<1> QED
  BY <1>2, <1>3, <1>4, <1>5

(* The burst of ProcessLife is the last one that has begun.                *)
LEMMA BurstIs ==
  ASSUME GoodInputs, TypeOK, workload \in Workloads, NEW p \in Procs,
         NEW k \in 1..Len(workload[p].events),
         workload[p].events[k].time <= proc[p].advancementTime,
         k < Len(workload[p].events) =>
           workload[p].events[k + 1].time > proc[p].advancementTime
  PROVE  Life!Burst(p) = workload[p].events[k].type
<1> DEFINE E == workload[p].events
           s == proc[p].advancementTime
           Latest(i) == /\ E[i].time <= s
                      /\ \A j \in DOMAIN E : E[j].time <= s => j <= i
<1>1. /\ DOMAIN E = 1..Len(E) /\ Len(E) \in Nat /\ s \in Nat
      /\ \A i \in 1..Len(E) : E[i].time \in Nat
      /\ \A i, j \in 1..Len(E) : i < j => E[i].time < E[j].time
  BY SMTT(30), InputLine DEF GoodEvents
<1>2. [o \in Procs |-> proc[o].advancementTime][p] = s
  OBVIOUS
<1>3. Life!Burst(p) = E[CHOOSE i \in DOMAIN E : Latest(i)].type
  BY <1>2 DEF Life!Burst
<1>4. k \in DOMAIN E /\ E[k].time <= s /\ (k < Len(E) => E[k + 1].time > s)
  BY <1>1
<1> HIDE DEF E, s
<1>5. ASSUME NEW j \in DOMAIN E, E[j].time <= s PROVE j <= k
  <2>1. SUFFICES ASSUME j > k PROVE FALSE
    BY <1>1, <1>4
  <2>2. k + 1 \in 1..Len(E) /\ E[k + 1].time > s
    BY <1>1, <1>4, <2>1
  <2>3. j = k + 1 \/ k + 1 < j
    BY <1>1, <1>4, <2>1
  <2>4. E[k + 1].time <= E[j].time
    BY <1>1, <2>2, <2>3
  <2> QED BY <1>1, <1>5, <2>2, <2>4
<1>6. Latest(k)
  BY <1>4, <1>5
<1>7. \A i \in DOMAIN E : Latest(i) => i = k
  BY <1>1, <1>4, <1>5
<1> HIDE DEF Latest
<1>8. (CHOOSE i \in DOMAIN E : Latest(i)) = k
  BY <1>4, <1>6, <1>7
<1> QED
  BY <1>3, <1>8 DEF E

(* While its next event is to come, a process is in the burst before it.   *)
LEMMA BurstInTime ==
  ASSUME GoodInputs, TypeOK, workload \in Workloads, NEW p \in Procs, Arrived(p), InLine,
         Left[p] >= 1
  PROVE  Life!Burst(p) = IF proc[p].nextEvents = <<>> \/ proc[p].nextEvents[1].type = "IO"
                         THEN "CPU" ELSE "IO"
<1> DEFINE E == workload[p].events
           next == proc[p].nextEvents
<1>1. PICK k : Segment(p, k)
  BY DEF InLine
<1>2. /\ E \in Seq(Event) /\ Len(E) \in Nat /\ Len(E) >= 1
      /\ \A i \in 1..Len(E) : E[i].time \in Nat /\ E[i].type \in {"CPU", "IO"}
      /\ \A i \in 1..(Len(E) - 1) : E[i].type # E[i + 1].type
      /\ E[Len(E)].type = "CPU"
      /\ next \in Seq(Event) /\ Len(next) \in Nat /\ proc[p].advancementTime \in Nat
  BY InputLine DEF GoodEvents
<1>3. /\ k \in 1..Len(E) /\ Len(next) = Len(E) - k
      /\ \A j \in 1..Len(next) : next[j] = E[k + j]
      /\ E[k].time <= proc[p].advancementTime
  BY <1>1 DEF Segment
<1>4. k < Len(E) => next # <<>> /\ next[1] = E[k + 1]
  BY <1>2, <1>3
<1>5. k < Len(E) => E[k + 1].time > proc[p].advancementTime
  <2>1. SUFFICES ASSUME k < Len(E) PROVE E[k + 1].time > proc[p].advancementTime
    OBVIOUS
  <2>2. Left[p] = E[k + 1].time - proc[p].advancementTime
    BY <1>4, <2>1, LeftOf DEF CurEventTimeLeft, TimeLeft
  <2>3. E[k + 1].time \in Nat
    BY <1>2, <1>3, <2>1
  <2> QED BY <1>2, <2>2, <2>3
<1>6. Life!Burst(p) = E[k].type
  BY <1>3, <1>5, BurstIs
<1>7. CASE k = Len(E)
  <2>1. next = <<>>
    BY <1>2, <1>3, <1>7
  <2> QED BY <1>2, <1>6, <1>7, <2>1
<1>8. CASE k < Len(E)
  <2>1. /\ E[k].type # E[k + 1].type /\ E[k].type \in {"CPU", "IO"}
        /\ E[k + 1].type \in {"CPU", "IO"}
    BY <1>2, <1>3, <1>8
  <2> QED BY <1>4, <1>6, <1>8, <2>1
<1> QED
  BY <1>2, <1>3, <1>7, <1>8

(* When its next event is due, a process is at the begin of that burst.    *)
LEMMA BurstAtEnd ==
  ASSUME GoodInputs, TypeOK, workload \in Workloads, NEW p \in Procs, Arrived(p), InLine,
         Left[p] = 0, proc[p].nextEvents # <<>>
  PROVE  Life!Burst(p) = proc[p].nextEvents[1].type
<1> DEFINE E == workload[p].events
           next == proc[p].nextEvents
<1>1. PICK k : Segment(p, k)
  BY DEF InLine
<1>2. /\ Len(E) \in Nat /\ \A i \in 1..Len(E) : E[i].time \in Nat
      /\ \A i, j \in 1..Len(E) : i < j => E[i].time < E[j].time
      /\ next \in Seq(Event) /\ Len(next) \in Nat /\ proc[p].advancementTime \in Nat
  BY InputLine DEF GoodEvents
<1>3. k \in 1..Len(E) /\ k + 1 \in 1..Len(E) /\ next[1] = E[k + 1]
  <2>1. /\ k \in 1..Len(E) /\ Len(next) = Len(E) - k
        /\ \A j \in 1..Len(next) : next[j] = E[k + j]
    BY <1>1 DEF Segment
  <2>2. Len(next) >= 1
    BY <1>2
  <2> QED BY <1>2, <2>1, <2>2
<1>4. E[k + 1].time = proc[p].advancementTime
  <2>1. Left[p] = E[k + 1].time - proc[p].advancementTime
    BY <1>3, LeftOf DEF CurEventTimeLeft, TimeLeft
  <2>2. E[k + 1].time \in Nat
    BY <1>2, <1>3
  <2> QED BY <1>2, <2>1, <2>2
<1>5. k + 1 < Len(E) => E[k + 2].time > proc[p].advancementTime
  BY <1>2, <1>3, <1>4
<1>6. E[k + 1].time <= proc[p].advancementTime
  BY <1>2, <1>4
<1>7. Life!Burst(p) = E[k + 1].type
  <2>1. k + 1 < Len(E) => E[(k + 1) + 1].time > proc[p].advancementTime
    BY <1>2, <1>3, <1>5
  <2> QED BY <1>3, <1>6, <2>1, BurstIs
<1> QED
  BY <1>3, <1>7

(* The next event is unlinked when it is due.                              *)
LEMMA NextSegment ==
  ASSUME GoodInputs, TypeOK, workload \in Workloads, NEW p \in Procs, NEW k, Segment(p, k),
         Left[p] = 0, proc[p].nextEvents # <<>>, UNCHANGED workload,
         proc'[p].nextEvents = Rest(proc[p].nextEvents),
         proc'[p].advancementTime = proc[p].advancementTime
  PROVE  Segment(p, k + 1)'
<1> DEFINE E == workload[p].events
           next == proc[p].nextEvents
<1>1. /\ Len(E) \in Nat /\ \A i \in 1..Len(E) : E[i].time \in Nat
      /\ next \in Seq(Event) /\ Len(next) \in Nat /\ proc[p].advancementTime \in Nat
  BY InputLine
<1>2. /\ k \in 1..Len(E) /\ Len(next) = Len(E) - k
      /\ \A j \in 1..Len(next) : next[j] = E[k + j]
  BY DEF Segment
<1>3. /\ Rest(next) = Tail(next) /\ Len(next) >= 1 /\ Len(Tail(next)) = Len(next) - 1
      /\ \A j \in 1..Len(Tail(next)) : Tail(next)[j] = next[j + 1]
  BY <1>1 DEF Rest
<1>4. k + 1 \in 1..Len(E) /\ next[1] = E[k + 1]
  BY <1>1, <1>2, <1>3
<1>5. E[k + 1].time <= proc[p].advancementTime
  <2>1. Left[p] = E[k + 1].time - proc[p].advancementTime
    BY <1>4, LeftOf DEF CurEventTimeLeft, TimeLeft
  <2>2. E[k + 1].time \in Nat
    BY <1>1, <1>4
  <2> QED BY <1>1, <2>1, <2>2
<1>6. \A j \in 1..Len(Tail(next)) : Tail(next)[j] = E[(k + 1) + j]
  <2>1. SUFFICES ASSUME NEW j \in 1..Len(Tail(next)) PROVE Tail(next)[j] = E[(k + 1) + j]
    OBVIOUS
  <2>2. j + 1 \in 1..Len(next) /\ k + (j + 1) = (k + 1) + j
    BY <1>1, <1>2, <1>3
  <2> QED BY <1>2, <1>3, <2>1, <2>2
<1>7. Len(Tail(next)) = Len(E) - (k + 1)
  BY <1>1, <1>2, <1>3
<1> QED
  BY <1>3, <1>4, <1>5, <1>6, <1>7 DEF Segment

-----------------------------------------------------------------------------
(* What the steps leave alone *)

(* A process arrives in processArrived, and in no other step.              *)
LEMMA ArrivedOnce ==
  ASSUME Inv, Next, NEW p \in Procs, ~ProcessArrived(p)
  PROVE  Arrived(p)' <=> Arrived(p)
<1>1. TypeOK /\ workload' = workload
  BY WorkloadKept DEF Inv
<1>2. p \in Nat /\ index \in Nat /\ time \in Nat /\ workload[p].startTime \in Nat
  <2>1. workload[p] \in ProcessInput
    BY <1>1 DEF TypeOK
  <2> QED BY <1>1, <2>1 DEF TypeOK, Procs, ProcessInput
<1>3. CASE StartTick \/ EndOfWorkload \/ ArrivalsDone
  BY <1>1, <1>3, ArrivedAgain
<1>4. CASE \E o \in Procs : ProcessArrived(o)
  <2>1. PICK o \in Procs : ProcessArrived(o)
    BY <1>4
  <2>2. /\ phase = "arrival" /\ phase' = "arrival" /\ index' = o + 1 /\ time' = time
        /\ ArrivesNow(o) /\ (ArrivesNow(p) => o <= p) /\ o \in Nat
    BY <2>1 DEF ProcessArrived, At, Goto, Procs
  <2>3. o # p
    BY <2>1
  <2> QED BY <1>1, <1>2, <2>2, <2>3 DEF Arrived, ArrivesNow
<1>5. CASE AdvanceSchedulingTime
  <2>1. phase = "advanceScheduling" /\ phase' \in {"loop", "free"} /\ time' = time + 1
    BY <1>5 DEF AdvanceSchedulingTime, At, Goto
  <2> QED BY <1>1, <1>2, <2>1 DEF Arrived
<1>6. CASE FreeComputer
  BY <1>1, <1>6 DEF FreeComputer, At, Goto, Arrived
<1>7. CASE Stop
  BY <1>1, <1>7 DEF Stop, vars, Arrived
<1>8. CASE ~ \/ StartTick \/ EndOfWorkload \/ ArrivalsDone
             \/ (\E o \in Procs : ProcessArrived(o))
             \/ AdvanceSchedulingTime \/ FreeComputer \/ Stop
  <2>1. /\ time' = time /\ phase \notin {"loop", "arrival", "free", "done"}
        /\ phase' \notin {"loop", "arrival", "free", "done"}
    BY <1>8 DEF Next, At, Goto, NextCore, PreviousCore, NextIdleCore,
       AgingNextQueue, AgingDone, AgingKeep, AgingMove, NoProcess, SwitchInDone,
       SwitchOutDone, Terminate, StartIO, NoEvent, WithinLimit, Demote, Preempt,
       KeepRunning, Resume, NoResume, QueuesSizesBeforeRR, SliceContinues,
       SwitchOutAfterSlice, NewSlice, NoInterrupt, InterruptCore, NoInterruptTime,
       SkipCore, PutProcessOnCPU, SkipDisk, PutProcessOnDisk, AdvanceProcessTime
  <2> QED BY <1>1, <2>1 DEF Arrived
<1> QED
  BY <1>3, <1>4, <1>5, <1>6, <1>7, <1>8

(* advanceNextEvent is called where a burst begins, and the time of a      *)
(* process advances in advanceProcessTime, and nowhere else.               *)
LEMMA OnlyStateChanges ==
  ASSUME Inv, Next, NEW p \in Procs
  PROVE  /\ ~AdvanceProcessTime => proc'[p].advancementTime = proc[p].advancementTime
         /\ \/ proc'[p].nextEvents = proc[p].nextEvents
            \/ /\ proc'[p].nextEvents = Rest(proc[p].nextEvents)
               /\ \/ ProcessArrived(p)
                  \/ StartIO /\ p = core[index].node
                  \/ (Resume \/ NoInterruptTime) /\ p = disk.node
<1> DEFINE Same == /\ proc'[p].advancementTime = proc[p].advancementTime
                   /\ proc'[p].nextEvents = proc[p].nextEvents
<1>1. proc \in [Procs -> Process]
  BY DEF Inv, TypeOK
<1>2. ASSUME NEW o, NEW to, proc' = [proc EXCEPT ![o].state = to]
      PROVE  Same
  BY <1>1, <1>2 DEF Process
<1>3. ASSUME NEW o, NEW to, proc' = [proc EXCEPT ![o].state = to, ![o].nextEvents = Rest(@)]
      PROVE  /\ proc'[p].advancementTime = proc[p].advancementTime
             /\ IF o = p THEN proc'[p].nextEvents = Rest(proc[p].nextEvents)
                ELSE proc'[p].nextEvents = proc[p].nextEvents
  BY <1>1, <1>3 DEF Process
<1>4. CASE \E o \in Procs : ProcessArrived(o)
  <2>1. PICK o \in Procs : ProcessArrived(o)
    BY <1>4
  <2>2. proc' = [proc EXCEPT ![o].state = "READY", ![o].nextEvents = Rest(@)]
    BY <2>1 DEF ProcessArrived
  <2> QED BY <1>3, <2>1, <2>2
<1>5. CASE StartIO
  <2>1. proc' = [proc EXCEPT ![core[index].node].state = "WAITING",
                             ![core[index].node].nextEvents = Rest(@)]
    BY <1>5 DEF StartIO
  <2> QED BY <1>3, <1>5, <2>1
<1>6. CASE SwitchInDone \/ Terminate \/ Demote \/ Preempt \/ SwitchOutAfterSlice
  <2>1. ASSUME SwitchInDone \/ Terminate PROVE Same
    <3>1. \E to : proc' = [proc EXCEPT ![core[index].node].state = to]
      BY <2>1 DEF SwitchInDone, Terminate
    <3> QED BY <1>2, <3>1
  <2>2. ASSUME NEW nd, SwitchOutReady(index, nd) PROVE Same
    <3>1. proc' = [proc EXCEPT ![core[index].node].state = "READY"]
      BY <2>2 DEF SwitchOutReady
    <3> QED BY <1>2, <3>1
  <2>3. ASSUME Demote PROVE Same
    <3>1. proc' = proc \/ \E nd : SwitchOutReady(index, nd)
      BY <2>3 DEF Demote
    <3> QED BY <2>2, <3>1
  <2>4. ASSUME Preempt \/ SwitchOutAfterSlice PROVE Same
    BY <2>2, <2>4 DEF Preempt, SwitchOutAfterSlice
  <2> HIDE DEF Same
  <2>5. Same
    BY <1>6, <2>1, <2>3, <2>4
  <2> QED BY <2>5 DEF Same
<1>7. CASE Resume \/ NoInterruptTime
  <2>1. PICK running : EndIO(disk.node, running)
    BY <1>7 DEF Resume, NoInterruptTime
  <2>2. proc' = [x \in Procs |->
          [proc[x] EXCEPT
             !.state = IF x \in running THEN "RUNNING" ELSE IF x = disk.node THEN "READY" ELSE @,
             !.nextEvents = IF x = disk.node THEN Rest(@) ELSE @]]
    BY <2>1 DEF EndIO
  <2>3. /\ proc'[p].advancementTime = proc[p].advancementTime
        /\ proc'[p].nextEvents = IF p = disk.node THEN Rest(proc[p].nextEvents)
                                 ELSE proc[p].nextEvents
    BY <1>1, <2>2 DEF Process
  <2> QED BY <1>7, <2>3
<1>8. CASE \E c \in Cores : InterruptCore(c)
  <2>1. PICK c \in Cores : proc' = ProcessInterrupted(c)
    BY <1>8 DEF InterruptCore
  <2>2. proc'[p] = proc[p] \/ proc'[p] = [proc[p] EXCEPT !.state = "READY"]
    BY <2>1 DEF ProcessInterrupted
  <2> QED BY <1>1, <2>2 DEF Process
<1>9. CASE (\E q \in Queue : PutProcessOnCPU(q)) \/ PutProcessOnDisk
  <2>1. ASSUME NEW q \in Queue, PutProcessOnCPU(q) PROVE Same
    <3>1. \E to : proc' = [proc EXCEPT ![TopNode(readyQueues[q])].state = to]
      BY <2>1 DEF PutProcessOnCPU
    <3> QED BY <1>2, <3>1
  <2>2. ASSUME PutProcessOnDisk PROVE Same
    <3>1. proc' = [proc EXCEPT ![TopNode(waitingQueue)].state = "WAITING"]
      BY <2>2 DEF PutProcessOnDisk
    <3> QED BY <1>2, <3>1
  <2> HIDE DEF Same
  <2>3. Same
    BY <1>9, <2>1, <2>2
  <2> QED BY <2>3 DEF Same
<1>10. CASE AdvanceProcessTime
  <2>1. proc'[p] = proc[p] \/ proc'[p] = [proc[p] EXCEPT !.advancementTime = @ + 1]
    BY <1>10 DEF AdvanceProcessTime
  <2> QED BY <1>1, <1>10, <2>1 DEF Process
<1>11. CASE ~ \/ \E o \in Procs : ProcessArrived(o)
              \/ SwitchInDone \/ Terminate \/ StartIO \/ Demote \/ Preempt
              \/ SwitchOutAfterSlice \/ Resume \/ NoInterruptTime
              \/ (\E c \in Cores : InterruptCore(c)) \/ (\E q \in Queue : PutProcessOnCPU(q))
              \/ PutProcessOnDisk \/ AdvanceProcessTime
  <2>1. proc' = proc
    BY <1>11, SystemUnchanged DEF Next, StartTick, EndOfWorkload, ArrivalsDone,
       AgingNextQueue, AgingDone, AgingKeep, AgingMove, NoProcess, SwitchOutDone, NoEvent,
       WithinLimit, KeepRunning, NoResume, QueuesSizesBeforeRR, SliceContinues, NewSlice,
       NoInterrupt, SkipCore, SkipDisk, AdvanceSchedulingTime, FreeComputer, Stop, vars
  <2> QED BY <2>1
<1> QED
  BY <1>4, <1>5, <1>6, <1>7, <1>8, <1>9, <1>10, <1>11

(* A process is TERMINATED by Terminate, and for ever.                     *)
LEMMA TerminatedOnce ==
  ASSUME Inv, Owned, Next, NEW p \in Procs, ~Terminate
  PROVE  proc'[p].state = "TERMINATED" <=> proc[p].state = "TERMINATED"
BY TerminatedStays, OnlyTerminateTerminates

(* The burst of the process on a core is over, an I/O burst follows.       *)
LEMMA StartIOInTime ==
  ASSUME Inv, Owned, StartIO
  PROVE  LET p == core[index].node
         IN /\ p \in Procs /\ index \in Cores \ Leaving /\ Left[p] = 0
            /\ proc[p].nextEvents # <<>> /\ proc[p].nextEvents[1].type = "IO"
            /\ p \notin Ready /\ p \notin Waiting /\ disk.node # p
            /\ waitingQueue' = Append(waitingQueue, p) \/ fault' = "relinked"
<1> DEFINE c == index
           p == core[c].node
<1>1. /\ TypeOK /\ IndexOK /\ phase = "event" /\ p # NULL
      /\ BurstOver(c) /\ ~Finished(p)
      /\ waitingQueue' = Append(waitingQueue, p) \/ fault' = "relinked"
  BY DEF StartIO, BurstOver, At, Inv
<1>2. c \in Cores /\ p \in Procs /\ core[c] \in Core
  BY <1>1 DEF IndexOK, TypeOK, Core
<1>3. Exclusive /\ Timers /\ Bursts /\ SwitchedOutInTime
  BY DEF Owned
<1>4. Left[p] = 0 /\ proc[p].nextEvents # <<>>
  <2>1. Left[p] = 0 /\ CurEventTimeLeft(p) = 0
    BY <1>1, <1>2, LeftOf DEF BurstOver
  <2>2. ASSUME proc[p].nextEvents = <<>> PROVE FALSE
    <3>1. proc[p].advancementTime \in Nat /\ workload[p].processDuration \in Nat
      BY <1>1, <1>2 DEF TypeOK, Process, ProcessInput
    <3>2. workload[p].processDuration - proc[p].advancementTime = 0
      BY <2>1, <2>2 DEF CurEventTimeLeft, TimeLeft
    <3> QED BY <1>1, <3>1, <3>2 DEF Finished
  <2> QED BY <2>1, <2>2
<1>5. c \notin Leaving
  <2>1. ASSUME c \in Leaving PROVE FALSE
    <3>1. ~SwitchedOut(c) /\ phase # "advanceScheduling"
      BY <1>1 DEF BurstOver
    <3>2. core[c].switchOutTimer # 0
      BY <2>1, <3>1 DEF Leaving, LeavesForIO, SwitchedOut
    <3>3. core[c].switchOutTimer \in Int /\ core[c].switchOutTimer >= 0
      BY <1>2, <1>3 DEF Timers, Core
    <3>4. Left[p] >= core[c].switchOutTimer - 0
      BY <1>3, <2>1, <3>1 DEF SwitchedOutInTime
    <3> QED BY <1>4, <3>2, <3>3, <3>4
  <2> QED BY <2>1
<1>6. p \notin Ready /\ p \notin Waiting /\ disk.node # p
  BY <1>1, <1>2, <1>3, <1>5 DEF Exclusive, InIO
<1>7. proc[p].nextEvents[1].type = "IO"
  <2>1. p \in InCPU
    BY <1>2, <1>5 DEF InCPU
  <2> QED BY <1>2, <1>3, <1>4, <2>1 DEF Bursts
<1> QED
  BY <1>1, <1>2, <1>4, <1>5, <1>6, <1>7

(* The I/O burst of the process on the disk is over, a CPU burst follows.  *)
LEMMA EndIOInTime ==
  ASSUME Inv, Owned, Resume \/ NoInterruptTime
  PROVE  /\ disk.node \in Procs /\ Left[disk.node] = 0
         /\ proc[disk.node].nextEvents # <<>> /\ proc[disk.node].nextEvents[1].type = "CPU"
<1>1. TypeOK /\ IndexOK /\ InterruptHoldsDisk /\ InTime /\ Bursts
  BY DEF Inv, Owned
<1>2. disk.node \in Procs /\ Left[disk.node] = 0
  <2>1. CASE Resume
    <3>1. index \in Cores /\ core[index].state = "INTERRUPTED"
      BY <1>1, <2>1 DEF Resume, InterruptOver, At, IndexOK
    <3>2. disk.node \in Procs /\ disk.state = "DISK_IDLE"
      BY <1>1, <3>1 DEF InterruptHoldsDisk, Interrupted, TypeOK, Disk
    <3> QED BY <1>1, <3>2 DEF InTime
  <2>2. CASE NoInterruptTime
    BY <1>1, <2>2, LeftOf DEF NoInterruptTime, DiskOperationOver, TypeOK, Disk
  <2> QED BY <2>1, <2>2
<1>3. disk.node \in InIO
  BY <1>2 DEF InIO
<1> QED
  BY <1>1, <1>2, <1>3 DEF Bursts

(* No time is taken back.                                                  *)
LEMMA ServiceGrows ==
  ASSUME Inv, Next, NEW p \in Procs
  PROVE  proc'[p].advancementTime >= proc[p].advancementTime
<1>1. proc \in [Procs -> Process] /\ proc[p].advancementTime \in Nat
  BY DEF Inv, TypeOK, Process
<1>2. CASE AdvanceProcessTime
  <2>1. proc'[p] = proc[p] \/ proc'[p] = [proc[p] EXCEPT !.advancementTime = @ + 1]
    BY <1>2 DEF AdvanceProcessTime
  <2>2. proc'[p].advancementTime \in {proc[p].advancementTime, proc[p].advancementTime + 1}
    BY <1>1, <2>1 DEF Process
  <2> QED BY <1>1, <2>2
<1>3. CASE ~AdvanceProcessTime
  BY <1>1, <1>3, OnlyStateChanges
<1> QED
  BY <1>2, <1>3

(* The events of a process are consumed in the order of its input line.    *)
LEMMA InLineKept ==
  ASSUME GoodInputs, Inv, Owned, workload \in Workloads, InLine, Next
  PROVE  InLine'
<1>1. TypeOK /\ workload' = workload /\ Alive
  BY WorkloadKept DEF Inv, Owned
<1>2. SUFFICES ASSUME NEW p \in Procs, Arrived(p)' PROVE \E k : Segment(p, k)'
  BY DEF InLine
<1> DEFINE E == workload[p].events
<1>3. /\ E \in Seq(Event) /\ Len(E) \in Nat /\ Len(E) >= 1 /\ E[1].time = 0
      /\ \A i \in 1..Len(E) : E[i].time \in Nat
      /\ proc[p].advancementTime \in Nat
  BY <1>1, InputLine
<1>4. /\ proc'[p].advancementTime >= proc[p].advancementTime
      /\ proc'[p].advancementTime \in Int
  <2>1. proc'[p].advancementTime \in Nat
    BY NextInv DEF Inv, TypeOK, Process
  <2> QED BY <2>1, ServiceGrows
<1>5. CASE ProcessArrived(p)
  <2>1. proc[p] = [state |-> "READY", nextEvents |-> E, advancementTime |-> 0]
    <3>1. ~Arrived(p)
      BY <1>1, <1>5 DEF ProcessArrived, ArrivesNow, At, Arrived, TypeOK, Procs, ProcessInput
    <3> QED BY <1>1, <3>1 DEF Alive
  <2>2. proc'[p].nextEvents = Rest(E)
    <3>1. proc' = [proc EXCEPT ![p].state = "READY", ![p].nextEvents = Rest(@)]
      BY <1>5 DEF ProcessArrived
    <3> QED BY <1>1, <2>1, <3>1 DEF TypeOK
  <2>3. /\ Rest(E) = Tail(E) /\ Len(Tail(E)) = Len(E) - 1
        /\ \A j \in 1..Len(Tail(E)) : Tail(E)[j] = E[1 + j]
    BY <1>3 DEF Rest
  <2>4. E[1].time <= proc'[p].advancementTime
    BY <1>3, <1>4
  <2>5. Segment(p, 1)'
    BY <1>1, <1>3, <2>2, <2>3, <2>4 DEF Segment
  <2> QED BY <2>5
<1>6. CASE ~ProcessArrived(p)
  <2>1. PICK k : Segment(p, k)
    BY <1>2, <1>6, ArrivedOnce DEF InLine
  <2>2. CASE proc'[p].nextEvents = proc[p].nextEvents
    <3>1. k \in 1..Len(E) /\ E[k].time <= proc[p].advancementTime
      BY <2>1 DEF Segment
    <3>2. E[k].time <= proc'[p].advancementTime
      BY <1>3, <1>4, <3>1
    <3>3. Segment(p, k)'
      BY <1>1, <2>1, <2>2, <3>2 DEF Segment
    <3> QED BY <3>3
  <2>3. CASE /\ proc'[p].nextEvents = Rest(proc[p].nextEvents)
             /\ \/ StartIO /\ p = core[index].node
                \/ (Resume \/ NoInterruptTime) /\ p = disk.node
    <3>1. Left[p] = 0 /\ proc[p].nextEvents # <<>>
      BY <2>3, StartIOInTime, EndIOInTime
    <3>2. ~AdvanceProcessTime
      BY <2>3 DEF StartIO, Resume, NoInterruptTime, AdvanceProcessTime, At
    <3>3. proc'[p].advancementTime = proc[p].advancementTime
      BY <3>2, OnlyStateChanges
    <3>4. Segment(p, k + 1)'
      BY <1>1, <2>1, <2>3, <3>1, <3>3, NextSegment
    <3> QED BY <3>4
  <2> QED BY <1>6, <2>2, <2>3, OnlyStateChanges
<1> QED
  BY <1>5, <1>6

-----------------------------------------------------------------------------
(* Every handler is a step of ProcessLife                                  *)

(* A handler that moves one process between two places.                    *)
LEMMA Moved ==
  ASSUME Inv, Owned, Next, ~AdvanceProcessTime, ~Terminate, NEW p \in Procs,
         NEW from, NEW to, PlaceOf(p) = from, PlaceOf(p)' = to,
         \A o \in Procs : o # p => /\ ~ProcessArrived(o)
                                   /\ o \in Ready' <=> o \in Ready
                                   /\ o \in Waiting' <=> o \in Waiting
                                   /\ disk'.node = o <=> disk.node = o
  PROVE  Life!Move(p, from, to)
<1>1. workload' = workload
  BY WorkloadKept
<1>2. ASSUME NEW o \in Procs, o # p PROVE PlaceOf(o)' = PlaceOf(o)
  BY <1>2, ArrivedOnce, TerminatedOnce, SamePlace
<1>3. \A o \in Procs : proc'[o].advancementTime = proc[o].advancementTime
  BY OnlyStateChanges
<1> QED
  BY <1>1, <1>2, <1>3, MoveStep

(* A handler that moves nobody.                                            *)
LEMMA Stays ==
  ASSUME Inv, Owned, Next, ~AdvanceProcessTime, ~Terminate,
         \A o \in Procs : ~ProcessArrived(o),
         Ready' = Ready, Waiting' = Waiting, disk'.node = disk.node
  PROVE  UNCHANGED Life!life
<1>1. workload' = workload
  BY WorkloadKept
<1>2. ASSUME NEW o \in Procs PROVE PlaceOf(o)' = PlaceOf(o)
  BY ArrivedOnce, TerminatedOnce, SamePlace
<1>3. \A o \in Procs : proc'[o].advancementTime = proc[o].advancementTime
  BY OnlyStateChanges
<1> QED
  BY <1>1, <1>2, <1>3, StutterStep

(* processArrived is Arrive.                                               *)
LEMMA ArriveStep ==
  ASSUME Inv, Owned, Owned', NEW p \in Procs, ProcessArrived(p), fault' = "none"
  PROVE  Life!Next
<1>1. /\ TypeOK /\ Alive /\ Next /\ ~AdvanceProcessTime /\ ~Terminate
      /\ phase = "arrival" /\ index' = p + 1
      /\ UNCHANGED <<waitingQueue, disk>>
      /\ HandleProcessForCPU(readyQueues, stalePrev, p, initNode,
                             TimeLeft(p, Rest(proc[p].nextEvents)))
  BY DEF Inv, Owned, Next, ProcessArrived, AdvanceProcessTime, Terminate, At, Goto
<1>2. ~Arrived(p)
  BY <1>1 DEF ProcessArrived, ArrivesNow, At, Arrived, TypeOK, Procs, ProcessInput
<1>3. p \notin Ready /\ p \notin Waiting
  BY <1>1, <1>2, OwnedByNobody DEF Alive, Living
<1>4. Ready' = Ready \cup {p}
  <2>1. TimeLeft(p, Rest(proc[p].nextEvents)) \in Int
    <3>1. proc[p].nextEvents \in Seq(Event)
      BY <1>1 DEF TypeOK, Process
    <3> QED BY <1>1, <3>1, RestIsSeq, TimeLeftIsInt
  <2>2. initNode \in Node /\ readyQueues \in [Queue -> Seq(Procs)]
    BY <1>1 DEF initNode, Node, TypeOK
  <2>3. DistinctReady(readyQueues)
    BY DEF Owned
  <2> QED BY <1>1, <1>3, <2>1, <2>2, <2>3, Enqueued DEF Ready
<1>5. UNCHANGED <<Waiting, disk>>
  BY <1>1, ViewsUnchanged
<1>6. PlaceOf(p) = "outside" /\ PlaceOf(p)' = "ready"
  BY <1>2, <1>4, OwnedInPlace, OwnedInPlaceAfter DEF InPlace
<1>7. ASSUME NEW o \in Procs, o # p PROVE ~ProcessArrived(o)
  BY <1>1, <1>7 DEF ProcessArrived, Goto, Procs
<1>8. Life!Move(p, "outside", "ready")
  BY <1>1, <1>4, <1>5, <1>6, <1>7, Moved
<1> QED
  BY <1>8 DEF Life!Next, Life!Arrive, Life!Procs, Procs

(* A process that is ready again after its core has let go of it.          *)
LEMMA BackToQueueStep ==
  ASSUME Inv, Owned, Owned', Next, ~AdvanceProcessTime, ~Terminate,
         \A o \in Procs : ~ProcessArrived(o),
         NEW c \in Cores \ Leaving, NEW p \in Procs, core[c].node = p,
         Ready' = Ready \cup {p}, UNCHANGED <<Waiting, disk>>
  PROVE  Life!Next
<1>1. PlaceOf(p) = "core" /\ PlaceOf(p)' = "ready"
  BY OwnedInPlace, OwnedInPlaceAfter DEF InPlace
<1>2. Life!Move(p, "core", "ready")
  BY <1>1, Moved
<1> QED
  BY <1>2 DEF Life!Next, Life!BackToQueue, Life!Procs, Procs

(* The context switch of handleSchedulerEvents: the process is back in its *)
(* queue at once if a switch-out takes no time, and later otherwise.       *)
LEMMA SwitchOutReadyStep ==
  ASSUME Inv, Owned, Owned', Next, ~AdvanceProcessTime, ~Terminate,
         \A o \in Procs : ~ProcessArrived(o),
         NEW c \in Cores, core[c].state = "OCCUPIED", NEW nd \in Node,
         SwitchOutReady(c, nd), fault' = "none", UNCHANGED <<waitingQueue, disk>>
  PROVE  Life!Next \/ UNCHANGED Life!life
<1> DEFINE p == core[c].node
<1>1. /\ TypeOK /\ Exclusive /\ DistinctReady(readyQueues)
      /\ p \in Procs /\ c \notin Leaving
  BY DEF Inv, Owned, TypeOK, CoreOK, Core, Leaving, LeavesForIO
<1>2. p \notin Ready /\ p \notin Waiting
  BY <1>1 DEF Exclusive, InIO
<1>3. UNCHANGED Waiting
  BY ViewsUnchanged
<1>4. CASE SwitchOutDuration > 0
  <2>1. UNCHANGED readyQueues
    BY <1>4 DEF SwitchOutReady
  <2> QED BY <1>3, <2>1, ViewsUnchanged, Stays
<1>5. CASE ~(SwitchOutDuration > 0)
  <2>1. HandleProcessForCPU(readyQueues, stalePrev, p, nd, CurEventTimeLeft(p))
    BY <1>5 DEF SwitchOutReady
  <2>2. CurEventTimeLeft(p) \in Int /\ readyQueues \in [Queue -> Seq(Procs)]
    BY <1>1, LeftIsInt, LeftOf DEF TypeOK
  <2>3. core[c].node = p
    OBVIOUS
  <2> HIDE DEF p
  <2>4. Ready' = Ready \cup {p}
    BY <1>1, <1>2, <2>1, <2>2, Enqueued DEF Ready
  <2> QED BY <1>1, <1>3, <2>3, <2>4, BackToQueueStep
<1> QED
  BY <1>4, <1>5

(* Demotion, preemption and the end of a slice.                            *)
LEMMA ContextSwitchStep ==
  ASSUME Inv, Owned, Owned', Next, Demote \/ Preempt \/ SwitchOutAfterSlice, fault' = "none"
  PROVE  Life!Next \/ UNCHANGED Life!life
<1>1. /\ TypeOK /\ IndexOK /\ CoreOK
      /\ ~AdvanceProcessTime /\ ~Terminate /\ \A o \in Procs : ~ProcessArrived(o)
      /\ UNCHANGED <<waitingQueue, disk>>
  BY DEF Inv, Demote, Preempt, SwitchOutAfterSlice, AdvanceProcessTime, Terminate,
     ProcessArrived, At
<1>2. index \in Cores /\ core[index].state = "OCCUPIED" /\ core[index].node \in Procs
  BY <1>1 DEF IndexOK, CoreOK, TypeOK, Core, Demote, Preempt, SwitchOutAfterSlice,
     SliceOver, At
<1>3. node[core[index].node] \in Node /\ node[core[index].node].queueNbr + 1 \in Int
  BY <1>1, <1>2 DEF TypeOK, Node
<1>4. CASE Demote
  <2> DEFINE p == core[index].node
             q == node[p].queueNbr + 1
  <2>1. CASE OtherProcessInReadyQueue(q)
    <3>1. SwitchOutReady(index, MovedTo(p, q)) /\ MovedTo(p, q) \in Node
      BY <1>1, <1>2, <1>3, <1>4, <2>1, MovedToIsNode DEF Demote
    <3> QED BY <1>1, <1>2, <3>1, SwitchOutReadyStep
  <2>2. CASE ~OtherProcessInReadyQueue(q)
    <3>1. UNCHANGED readyQueues
      BY <1>4, <2>2 DEF Demote
    <3> QED BY <1>1, <3>1, ViewsUnchanged, Stays
  <2> QED BY <2>1, <2>2
<1>5. CASE Preempt \/ SwitchOutAfterSlice
  <2>1. SwitchOutReady(index, node[core[index].node])
    BY <1>5 DEF Preempt, SwitchOutAfterSlice
  <2> QED BY <1>1, <1>2, <1>3, <2>1, SwitchOutReadyStep
<1> QED
  BY <1>4, <1>5

(* The end of a switch-out: the process that continues is ready again, the *)
(* other one is on its way through the disk already.                       *)
LEMMA SwitchOutDoneStep ==
  ASSUME Inv, Owned, Owned', Next, SwitchOutDone, fault' = "none"
  PROVE  Life!Next \/ UNCHANGED Life!life
<1> DEFINE c == index
           p == core[c].node
<1>1. /\ TypeOK /\ IndexOK /\ phase = "event" /\ p # NULL /\ core[c].state = "SWITCH_OUT"
      /\ ~AdvanceProcessTime /\ ~Terminate /\ \A o \in Procs : ~ProcessArrived(o)
      /\ UNCHANGED <<waitingQueue, disk>>
  BY DEF Inv, SwitchOutDone, SwitchedOut, BurstOver, AdvanceProcessTime, Terminate,
     ProcessArrived, At
<1>2. c \in Cores /\ p \in Procs
  BY <1>1 DEF IndexOK, TypeOK, Core
<1>3. Exclusive /\ DistinctReady(readyQueues) /\ UNCHANGED Waiting
  BY <1>1, ViewsUnchanged DEF Owned
<1>4. CASE ~core[c].continueOnCPU
  <2>1. UNCHANGED readyQueues
    BY <1>4 DEF SwitchOutDone
  <2> QED BY <1>1, <1>3, <2>1, ViewsUnchanged, Stays
<1>5. CASE core[c].continueOnCPU
  <2>1. HandleProcessForCPU(readyQueues, stalePrev, p, node[p], CurEventTimeLeft(p))
    BY <1>5 DEF SwitchOutDone
  <2>2. /\ node[p] \in Node /\ CurEventTimeLeft(p) \in Int
        /\ readyQueues \in [Queue -> Seq(Procs)]
    BY <1>1, <1>2, LeftIsInt, LeftOf DEF TypeOK
  <2>3. c \notin Leaving /\ p \notin Ready /\ p \notin Waiting
    BY <1>1, <1>2, <1>3, <1>5 DEF Leaving, LeavesForIO, Exclusive, InIO
  <2>4. core[c].node = p
    OBVIOUS
  <2> HIDE DEF c, p
  <2>5. Ready' = Ready \cup {p}
    BY <1>1, <1>2, <1>3, <2>1, <2>2, <2>3, Enqueued DEF Ready
  <2> QED BY <1>1, <1>2, <1>3, <2>3, <2>4, <2>5, BackToQueueStep
<1> QED
  BY <1>4, <1>5

(* Terminate is Terminate.                                                 *)
LEMMA TerminateStep ==
  ASSUME Inv, Owned, Owned', Terminate
  PROVE  Life!Next
<1>1. /\ TypeOK /\ IndexOK /\ Next /\ ~AdvanceProcessTime /\ \A o \in Procs : ~ProcessArrived(o)
      /\ core[index].node # NULL /\ phase = "event"
      /\ UNCHANGED <<readyQueues, waitingQueue, disk>>
      /\ proc' = [proc EXCEPT ![core[index].node].state = "TERMINATED"]
  BY DEF Inv, Next, Terminate, BurstOver, AdvanceProcessTime, ProcessArrived, At, lists
<1>2. index \in Cores /\ core[index].node \in Procs
  BY <1>1 DEF IndexOK, TypeOK, Core
<1>3. PICK p \in Procs : p = core[index].node
  BY <1>2
<1>4. /\ proc'[p].state = "TERMINATED" /\ \A o \in Procs : o # p => proc'[o] = proc[o]
  BY <1>1, <1>3 DEF TypeOK, Process
<1>5. /\ index \notin Leaving /\ proc[p].advancementTime = workload[p].processDuration
  BY <1>3, TerminatedInTime
<1>6. PlaceOf(p) = "core" /\ PlaceOf(p)' = "done"
  BY <1>2, <1>3, <1>4, <1>5, OwnedInPlace, OwnedInPlaceAfter DEF InPlace
<1>7. UNCHANGED <<workload, Ready, Waiting>>
  BY <1>1, ViewsUnchanged, WorkloadKept
<1>8. ASSUME NEW o \in Procs, o # p PROVE PlaceOf(o)' = PlaceOf(o)
  BY <1>1, <1>4, <1>7, <1>8, ArrivedOnce, SamePlace
<1>9. \A o \in Procs : proc'[o].advancementTime = proc[o].advancementTime
  BY <1>1, OnlyStateChanges
<1>10. Life!Move(p, "core", "done")
  BY <1>3, <1>6, <1>7, <1>8, <1>9, MoveStep
<1>11. Life!Terminate(p)
  BY <1>3, <1>5, <1>10 DEF Life!Terminate
<1> QED
  BY <1>3, <1>11 DEF Life!Next, Life!Procs, Procs

(* A CPU burst is over: StartIO is RequestIO.                              *)
LEMMA StartIOStep ==
  ASSUME GoodInputs, workload \in Workloads, Inv, Owned, Owned', InLine, StartIO, fault' = "none"
  PROVE  Life!Next
<1>1. /\ TypeOK /\ Alive /\ Next /\ ~AdvanceProcessTime /\ ~Terminate
      /\ \A o \in Procs : ~ProcessArrived(o)
      /\ UNCHANGED <<readyQueues, disk>>
  BY DEF Inv, Owned, Next, Terminate, StartIO, AdvanceProcessTime, ProcessArrived, At
<1>2. core[index].node \in Procs
  BY StartIOInTime
<1>3. PICK p \in Procs : p = core[index].node
  BY <1>2
<1>4. /\ p \in Procs /\ index \in Cores \ Leaving /\ Left[p] = 0
      /\ proc[p].nextEvents # <<>> /\ proc[p].nextEvents[1].type = "IO"
      /\ waitingQueue' = Append(waitingQueue, p)
  BY <1>3, StartIOInTime
<1>5. UNCHANGED Ready
  BY <1>1, ViewsUnchanged
<1>6. Waiting' = Waiting \cup {p}
  <2>1. waitingQueue \in Seq(Procs) /\ Len(waitingQueue) \in Nat
    BY <1>1 DEF TypeOK
  <2>2. /\ DOMAIN waitingQueue' = 1..(Len(waitingQueue) + 1)
        /\ waitingQueue'[Len(waitingQueue) + 1] = p
        /\ \A i \in 1..Len(waitingQueue) : waitingQueue'[i] = waitingQueue[i]
        /\ DOMAIN waitingQueue = 1..Len(waitingQueue)
    BY <1>4, <2>1
  <2>3. \A o \in Procs : o \in Waiting' <=> o \in Waiting \/ o = p
    <3>1. \A i \in DOMAIN waitingQueue' : i \in 1..Len(waitingQueue) \/ i = Len(waitingQueue) + 1
      BY <2>1, <2>2
    <3>2. /\ DOMAIN waitingQueue \subseteq DOMAIN waitingQueue'
          /\ Len(waitingQueue) + 1 \in DOMAIN waitingQueue'
      BY <2>1, <2>2
    <3> QED BY <2>2, <3>1, <3>2 DEF Waiting, ProcessInQueue
  <2> QED BY <1>4, <2>3 DEF Waiting
<1>7. PlaceOf(p) = "core" /\ PlaceOf(p)' = "waiting"
  BY <1>4, <1>3, <1>6, OwnedInPlace, OwnedInPlaceAfter DEF InPlace
<1>8. Life!Move(p, "core", "waiting")
  BY <1>1, <1>4, <1>5, <1>6, <1>7, Moved
<1>9. Life!Burst(p) = "IO"
  <2>1. Arrived(p)
    BY <1>1, <1>4, <1>3 DEF Alive, InCPU, Living
  <2> QED BY <1>1, <1>4, <2>1, BurstAtEnd
<1> QED
  BY <1>4, <1>8, <1>9 DEF Life!Next, Life!RequestIO, Life!Procs, Procs

(* The end of an I/O operation is EndIO, with or without an interrupt.     *)
LEMMA EndIOStep ==
  ASSUME GoodInputs, workload \in Workloads, Inv, Owned, Owned', InLine,
         Resume \/ NoInterruptTime, fault' = "none"
  PROVE  Life!Next
<1>1. /\ TypeOK /\ Alive /\ Exclusive /\ DistinctReady(readyQueues)
      /\ Next /\ ~AdvanceProcessTime /\ ~Terminate
      /\ \A o \in Procs : ~ProcessArrived(o)
      /\ UNCHANGED waitingQueue /\ disk'.node = NULL
      /\ \E running : EndIO(disk.node, running)
  BY DEF Inv, Owned, Next, Terminate, Resume, NoInterruptTime, DiskReleased, TypeOK, Disk,
     AdvanceProcessTime, ProcessArrived, At
<1>2. disk.node \in Procs
  BY EndIOInTime
<1>3. PICK p \in Procs : p = disk.node
  BY <1>2
<1>4. /\ p \in Procs /\ Left[p] = 0
      /\ proc[p].nextEvents # <<>> /\ proc[p].nextEvents[1].type = "CPU"
  BY <1>3, EndIOInTime
<1>5. p \notin Ready /\ p \notin Waiting
  BY <1>1, <1>3 DEF Exclusive
<1>6. Ready' = Ready \cup {p}
  <2>1. HandleProcessForCPU(readyQueues, stalePrev, p, node[p],
                            TimeLeft(p, Rest(proc[p].nextEvents)))
    BY <1>1, <1>4, <1>3 DEF EndIO
  <2>2. TimeLeft(p, Rest(proc[p].nextEvents)) \in Int
    <3>1. proc[p].nextEvents \in Seq(Event)
      BY <1>1, <1>4 DEF TypeOK, Process
    <3> QED BY <1>1, <1>4, <3>1, RestIsSeq, TimeLeftIsInt
  <2>3. node[p] \in Node /\ readyQueues \in [Queue -> Seq(Procs)]
    BY <1>1, <1>4 DEF TypeOK
  <2> QED BY <1>1, <1>4, <1>5, <2>1, <2>2, <2>3, Enqueued DEF Ready
<1>7. UNCHANGED Waiting
  BY <1>1, ViewsUnchanged
<1>8. PlaceOf(p) = "disk" /\ PlaceOf(p)' = "ready"
  BY <1>4, <1>6, <1>3, OwnedInPlace, OwnedInPlaceAfter DEF InPlace
<1>9. ASSUME NEW o \in Procs, o # p
      PROVE  /\ o \in Ready' <=> o \in Ready
             /\ disk'.node = o <=> disk.node = o
  BY <1>1, <1>6, <1>3, <1>9, NullIsNoProcess
<1>10. Life!Move(p, "disk", "ready")
  BY <1>1, <1>4, <1>7, <1>8, <1>9, Moved
<1>11. Life!Burst(p) = "CPU"
  <2>1. Arrived(p)
    BY <1>1, <1>4, <1>3 DEF Alive, InIO, Living
  <2> QED BY <1>1, <1>4, <2>1, BurstAtEnd
<1> QED
  BY <1>4, <1>10, <1>11 DEF Life!Next, Life!EndIO, Life!Procs, Procs

(* The library operator is the same in both modules.                       *)
LEMMA SameCardinality ==
  ASSUME NEW S
  PROVE  Life!Cardinality(S) = Cardinality(S)
BY DEF Life!Cardinality, Cardinality

(* While a core is idle, fewer processes than cores are on one.            *)
LEMMA CoreFree ==
  ASSUME TypeOK, Owned, NEW c \in Cores, core[c].node = NULL
  PROVE  Cardinality(Life!At("core")) < CoreCount
<1> DEFINE S == {p \in Procs : PlaceOf(p) = "core"}
           T == Cores \ {c}
           f == [p \in S |-> CHOOSE d \in Cores : core[d].node = p]
<1>1. Life!At("core") = S
  BY DEF Life!At, Life!Procs, Procs
<1>2. ASSUME NEW p \in S PROVE f[p] \in T /\ core[f[p]].node = p
  <2>1. \E d \in Cores : core[d].node = p
    BY OwnedInPlace DEF InPlace
  <2>2. f[p] \in Cores /\ core[f[p]].node = p
    BY <2>1
  <2> QED BY <2>2, NullIsNoProcess
<1>3. f \in [S -> T]
  BY <1>2
<1>4. IsFiniteSet(T) /\ Cardinality(T) = CoreCount - 1 /\ CoreCount \in Nat
  <2>1. CoreCount \in Nat \ {0}
    BY SizeAssumption
  <2>2. /\ IsFiniteSet(0..(CoreCount - 1))
        /\ Cardinality(0..(CoreCount - 1)) = IF 0 > CoreCount - 1 THEN 0 ELSE CoreCount - 1 - 0 + 1
    BY <2>1, FS_Interval
  <2>3. IsFiniteSet(Cores) /\ Cardinality(Cores) = CoreCount
    BY <2>1, <2>2 DEF Cores
  <2> QED BY <2>1, <2>3, FS_RemoveElement
<1>5. IsFiniteSet(S) /\ Cardinality(S) \in Nat
  <2>1. IsFiniteSet(Procs)
    BY SizeAssumption, FS_Interval DEF Procs
  <2> QED BY <2>1, FS_Subset, FS_CardinalityType
<1>6. \A x, y \in S : f[x] = f[y] => x = y
  BY <1>2
<1> HIDE DEF S, T, f
<1>7. ~(Cardinality(T) < Cardinality(S))
  BY <1>3, <1>4, <1>5, <1>6, FS_PigeonHole
<1> QED
  BY <1>1, <1>4, <1>5, <1>7

(* putProcessOnCPU is Dispatch.                                            *)
LEMMA DispatchStep ==
  ASSUME GoodInputs, workload \in Workloads, Inv, Owned, Owned', InLine,
         index \in Cores, NEW q \in Queue, PutProcessOnCPU(q)
  PROVE  Life!Next
<1> DEFINE head == readyQueues[q][1]
           t    == Tail(readyQueues[q])
<1>1. /\ TypeOK /\ Next /\ ~AdvanceProcessTime /\ ~Terminate
      /\ \A o \in Procs : ~ProcessArrived(o)
      /\ UNCHANGED <<waitingQueue, disk>>
      /\ core[index].state = "IDLE" /\ readyQueues[q] # <<>> /\ TopNode(readyQueues[q]) = head
      /\ readyQueues' = [readyQueues EXCEPT ![q] = t]
      /\ core' = IF SwitchInDuration > 0
                 THEN [core EXCEPT ![index].state = "SWITCH_IN", ![index].node = head,
                                   ![index].switchInTimer = SwitchInDuration]
                 ELSE [core EXCEPT ![index].state = "OCCUPIED", ![index].node = head,
                                   ![index].quantumTime = 0]
  BY DEF Inv, Next, Terminate, PutProcessOnCPU, Assignable, TopNode, DequeueTopNode,
     AdvanceProcessTime, ProcessArrived, At
<1>2. /\ Exclusive /\ Timers /\ Bursts /\ InTime /\ Alive /\ DistinctReady(readyQueues)
  BY DEF Owned
<1>3. core[index].node = NULL
  BY <1>1, <1>2 DEF Timers
<1>4. /\ readyQueues \in [Queue -> Seq(Procs)] /\ Len(readyQueues[q]) >= 1
      /\ Len(readyQueues[q]) \in Nat /\ head \in Procs /\ t \in Seq(Procs)
      /\ Len(t) = Len(readyQueues[q]) - 1 /\ \A j \in 1..Len(t) : t[j] = readyQueues[q][j + 1]
  BY <1>1 DEF TypeOK
<1>5. PICK p \in Procs : p = head
  BY <1>4
<1> HIDE DEF t
<1>6. Ready' = Ready \ {p}
  <2>1. LET new == [readyQueues EXCEPT ![q] = t]
        IN InQueues(new) = InQueues(readyQueues) \ {readyQueues[q][1]} /\ DistinctReady(new)
    <3>1. 1 \in 1..Len(readyQueues[q]) /\ \A j \in 1..Len(t) : ~(j < 1)
      BY <1>4
    <3> QED BY <1>2, <1>4, <3>1, RemovedFromQueues
  <2> QED BY <1>5, <1>1, <2>1 DEF Ready, InQueues
<1>7. p \in Ready
  <2>1. 1 \in DOMAIN readyQueues[q]
    BY <1>4
  <2> QED BY <1>5, <1>4, <2>1 DEF Ready, InQueues, ProcessInQueue
<1>8. core'[index].node = p /\ core'[index].state \in {"SWITCH_IN", "OCCUPIED"}
  BY <1>5, <1>1 DEF TypeOK, Core
<1> HIDE DEF head
<1>9. index \notin Leaving'
  BY <1>8 DEF Leaving, LeavesForIO
<1>10. UNCHANGED Waiting
  BY <1>1, ViewsUnchanged
<1>11. PlaceOf(p) = "ready" /\ PlaceOf(p)' = "core"
  BY <1>4, <1>7, <1>8, <1>9, OwnedInPlace, OwnedInPlaceAfter DEF InPlace
<1>12. Life!Move(p, "ready", "core")
  BY <1>1, <1>4, <1>6, <1>10, <1>11, Moved
<1>13. Life!Burst(p) = "CPU"
  <2>1. /\ p \in InCPU /\ Left[p] >= 1
    BY <1>2, <1>7 DEF InCPU, InTime
  <2>2. /\ Arrived(p)
        /\ proc[p].nextEvents = <<>> \/ proc[p].nextEvents[1].type = "IO"
    BY <1>2, <1>4, <2>1 DEF Alive, Living, Bursts
  <2> QED BY <1>1, <1>4, <2>1, <2>2, BurstInTime
<1>14. Cardinality(Life!At("core")) < CoreCount
  BY <1>1, <1>3, CoreFree
<1>15. Life!Dispatch(p)
  BY <1>12, <1>13, <1>14, SameCardinality DEF Life!Dispatch
<1> QED
  BY <1>15 DEF Life!Next, Life!Procs, Procs

(* putProcessOnDisk is StartIO.                                            *)
LEMMA DiskStep ==
  ASSUME Inv, Owned, Owned', PutProcessOnDisk
  PROVE  Life!Next
<1>1. /\ TypeOK /\ InterruptHoldsDisk /\ Exclusive /\ InTime /\ DistinctWaiting(waitingQueue)
      /\ Next /\ ~AdvanceProcessTime /\ ~Terminate
      /\ \A o \in Procs : ~ProcessArrived(o)
      /\ UNCHANGED readyQueues
      /\ disk.state = "DISK_IDLE" /\ ~Interrupted /\ waitingQueue # <<>>
      /\ TopNode(waitingQueue) = waitingQueue[1]
      /\ waitingQueue' = Tail(waitingQueue) /\ disk'.node = TopNode(waitingQueue)
  BY DEF Inv, Owned, Next, Terminate, PutProcessOnDisk, DiskAvailable, TopNode,
     DequeueTopNode, AdvanceProcessTime, ProcessArrived, At
<1>2. /\ waitingQueue \in Seq(Procs) /\ Len(waitingQueue) \in Nat /\ Len(waitingQueue) >= 1
      /\ waitingQueue[1] \in Procs
      /\ DOMAIN Tail(waitingQueue) = 1..(Len(waitingQueue) - 1)
      /\ DOMAIN waitingQueue = 1..Len(waitingQueue)
      /\ \A i \in 1..(Len(waitingQueue) - 1) : Tail(waitingQueue)[i] = waitingQueue[i + 1]
  BY <1>1 DEF TypeOK
<1>3. PICK p \in Procs : p = waitingQueue[1]
  BY <1>2
<1>4. p \in Waiting
  BY <1>2, <1>3 DEF Waiting, ProcessInQueue
<1>5. ASSUME NEW o \in Procs, o # p PROVE o \in Waiting' <=> o \in Waiting
  <2>1. ASSUME NEW i \in 1..Len(waitingQueue), waitingQueue[i] = o
        PROVE  \E j \in 1..(Len(waitingQueue) - 1) : Tail(waitingQueue)[j] = o
    <3>1. i - 1 \in 1..(Len(waitingQueue) - 1)
      BY <1>2, <1>3, <1>5, <2>1
    <3>2. Tail(waitingQueue)[i - 1] = o
      BY <1>2, <2>1, <3>1
    <3> QED BY <3>1, <3>2
  <2>2. ASSUME NEW j \in 1..(Len(waitingQueue) - 1), Tail(waitingQueue)[j] = o
        PROVE  \E i \in 1..Len(waitingQueue) : waitingQueue[i] = o
    <3>1. j + 1 \in 1..Len(waitingQueue)
      BY <1>2
    <3> QED BY <1>2, <2>2, <3>1
  <2> QED BY <1>1, <1>2, <2>1, <2>2 DEF Waiting, ProcessInQueue
<1>6. disk.node \notin Procs
  BY <1>1 DEF InTime
<1>7. disk'.node = p
  BY <1>1, <1>3
<1>8. UNCHANGED Ready
  BY <1>1, ViewsUnchanged
<1>9. PlaceOf(p) = "waiting" /\ PlaceOf(p)' = "disk"
  BY <1>4, <1>7, OwnedInPlace, OwnedInPlaceAfter DEF InPlace
<1>10. \A o \in Procs : o # p => (disk'.node = o <=> disk.node = o)
  BY <1>6, <1>7
<1>11. Life!Move(p, "waiting", "disk")
  BY <1>1, <1>5, <1>8, <1>9, <1>10, Moved
<1>12. Life!At("disk") = {}
  <2>1. \A o \in Procs : PlaceOf(o) # "disk"
    BY <1>6, OwnedInPlace DEF InPlace
  <2> QED BY <2>1 DEF Life!At, Life!Procs, Procs
<1>13. Life!StartIO(p)
  BY <1>11, <1>12 DEF Life!StartIO
<1> QED
  BY <1>13 DEF Life!Next, Life!Procs, Procs

(* A process with time left in its burst is not yet at its end.            *)
LEMMA MoreToServe ==
  ASSUME TypeOK, Bursts, NEW p \in Procs, Left[p] >= 1
  PROVE  proc[p].advancementTime < workload[p].processDuration
<1>1. proc[p] \in Process /\ workload[p] \in ProcessInput
  BY DEF TypeOK
<1>2. /\ proc[p].advancementTime \in Nat /\ workload[p].processDuration \in Nat
      /\ proc[p].nextEvents \in Seq(Event)
  BY <1>1 DEF Process, ProcessInput
<1>3. CASE proc[p].nextEvents = <<>>
  <2>1. Left[p] = workload[p].processDuration - proc[p].advancementTime
    BY <1>3, LeftOf DEF CurEventTimeLeft, TimeLeft
  <2> QED BY <1>2, <2>1
<1>4. CASE proc[p].nextEvents # <<>>
  <2>1. Left[p] = proc[p].nextEvents[1].time - proc[p].advancementTime
    BY <1>4, LeftOf DEF CurEventTimeLeft, TimeLeft
  <2>2. 1 \in 1..Len(proc[p].nextEvents) /\ proc[p].nextEvents[1] \in Event
    BY <1>2, <1>4
  <2>3. /\ proc[p].nextEvents[1].time < workload[p].processDuration
        /\ proc[p].nextEvents[1].time \in Nat
    BY <2>2 DEF Bursts, GoodEvents, Event
  <2> QED BY <1>2, <2>1, <2>3
<1> QED
  BY <1>3, <1>4

(* Who is served is in the right kind of burst, with time left in it.      *)
LEMMA InBurst ==
  ASSUME GoodInputs, workload \in Workloads, Inv, Owned, InLine, phase = "advanceProcesses",
         NEW p \in Procs
  PROVE  /\ proc[p].state = "RUNNING" =>
              /\ PlaceOf(p) = "core" /\ Life!Burst(p) = "CPU"
              /\ proc[p].advancementTime < workload[p].processDuration
         /\ proc[p].state = "WAITING" /\ disk.state = "DISK_RUNNING" /\ disk.node = p =>
              /\ PlaceOf(p) = "disk" /\ Life!Burst(p) = "IO"
              /\ proc[p].advancementTime < workload[p].processDuration
<1>1. TypeOK
  BY DEF Inv
<1>2. /\ Exclusive /\ Bursts /\ States /\ RunningOnOccupiedCore /\ Alive /\ HandledInTime
      /\ DiskInTime
  BY DEF Owned, States
<1>3. ASSUME proc[p].state = "RUNNING"
      PROVE  /\ PlaceOf(p) = "core" /\ Life!Burst(p) = "CPU"
             /\ proc[p].advancementTime < workload[p].processDuration
  <2>1. PICK c \in Cores : core[c].state = "OCCUPIED" /\ core[c].node = p
    BY <1>2, <1>3 DEF RunningOnOccupiedCore
  <2>2. c \notin Leaving /\ Handled(c)
    BY <2>1 DEF Leaving, LeavesForIO, Handled
  <2>3. Left[p] >= 1
    BY <1>2, <2>1, <2>2 DEF HandledInTime
  <2>4. /\ Arrived(p)
        /\ proc[p].nextEvents = <<>> \/ proc[p].nextEvents[1].type = "IO"
    <3>1. p \in InCPU
      BY <2>1, <2>2 DEF InCPU
    <3> QED BY <1>2, <3>1 DEF Alive, Living, Bursts
  <2>5. PlaceOf(p) = "core"
    BY <1>1, <2>1, <2>2, OwnedInPlace DEF InPlace
  <2>6. Life!Burst(p) = "CPU"
    BY <1>1, <2>3, <2>4, BurstInTime
  <2> QED BY <1>1, <1>2, <2>3, <2>5, <2>6, MoreToServe
<1>4. ASSUME proc[p].state = "WAITING", disk.state = "DISK_RUNNING", disk.node = p
      PROVE  /\ PlaceOf(p) = "disk" /\ Life!Burst(p) = "IO"
             /\ proc[p].advancementTime < workload[p].processDuration
  <2>1. Left[p] >= 1
    BY <1>2, <1>4 DEF DiskInTime
  <2>2. Arrived(p) /\ proc[p].nextEvents # <<>> /\ proc[p].nextEvents[1].type = "CPU"
    <3>1. p \in InIO
      BY <1>4 DEF InIO
    <3> QED BY <1>2, <3>1 DEF Alive, Living, Bursts
  <2>3. PlaceOf(p) = "disk"
    BY <1>1, <1>4, OwnedInPlace DEF InPlace
  <2>4. Life!Burst(p) = "IO"
    BY <1>1, <2>1, <2>2, BurstInTime
  <2> QED BY <1>1, <1>2, <2>1, <2>3, <2>4, MoreToServe
<1> QED
  BY <1>3, <1>4

(* advanceProcessTime is Serve: it serves the processes on OCCUPIED cores  *)
(* and the process on the running disk, and none of them past its burst.   *)
LEMMA ServeStep ==
  ASSUME GoodInputs, workload \in Workloads, Inv, Owned, Owned', InLine, AdvanceProcessTime
  PROVE  Life!Next
<1> DEFINE S == {p \in Procs : proc[p].state = "RUNNING"}
           T == {p \in Procs : /\ proc[p].state = "WAITING"
                               /\ disk.state = "DISK_RUNNING" /\ disk.node = p}
<1>1. /\ TypeOK /\ Next /\ ~Terminate /\ \A o \in Procs : ~ProcessArrived(o)
      /\ phase = "advanceProcesses"
      /\ UNCHANGED <<readyQueues, waitingQueue, core, disk>>
      /\ proc' = [p \in Procs |-> IF Progresses(p)
                                  THEN [proc[p] EXCEPT !.advancementTime = @ + 1] ELSE proc[p]]
  BY DEF Inv, Next, Terminate, AdvanceProcessTime, ProcessArrived, At, lists
<1>3. ASSUME NEW p \in S
      PROVE  /\ PlaceOf(p) = "core" /\ Life!Burst(p) = "CPU"
             /\ proc[p].advancementTime < workload[p].processDuration
  BY <1>1, InBurst
<1>4. ASSUME NEW p \in T
      PROVE  /\ PlaceOf(p) = "disk" /\ Life!Burst(p) = "IO"
             /\ proc[p].advancementTime < workload[p].processDuration
  BY <1>1, InBurst
<1>5. ASSUME NEW p \in Procs
      PROVE  proc'[p].advancementTime =
               IF p \in S \cup T THEN proc[p].advancementTime + 1 ELSE proc[p].advancementTime
  BY <1>1 DEF Progresses, TypeOK, Process
<1>6. ASSUME NEW p \in Procs PROVE PlaceOf(p)' = PlaceOf(p)
  <2>1. UNCHANGED <<Ready, Waiting, disk>>
    BY <1>1, ViewsUnchanged
  <2> QED BY <1>1, <2>1, ArrivedOnce, TerminatedOnce, SamePlace
<1>7. workload' = workload
  BY <1>1, WorkloadKept
<1>8. /\ S \subseteq {p \in Life!At("core") : Life!Burst(p) = "CPU"}
      /\ T \subseteq {p \in Life!At("disk") : Life!Burst(p) = "IO"}
  <2>1. \A p \in Procs : [o \in Procs |-> PlaceOf(o)][p] = PlaceOf(p)
    OBVIOUS
  <2>2. S \subseteq Procs /\ T \subseteq Procs
    OBVIOUS
  <2> HIDE DEF S, T
  <2> QED BY <1>3, <1>4, <2>1, <2>2 DEF Life!At, Life!Procs, Procs
<1>9. S \subseteq Procs /\ T \subseteq Procs
  OBVIOUS
<1> HIDE DEF S, T
<1>10. /\ \A p \in S \cup T :
            [o \in Procs |-> proc[o].advancementTime][p] < workload[p].processDuration
       /\ [o \in Procs |-> proc[o].advancementTime]' =
            [p \in Procs |->
               IF p \in S \cup T THEN [o \in Procs |-> proc[o].advancementTime][p] + 1
               ELSE [o \in Procs |-> proc[o].advancementTime][p]]
       /\ [o \in Procs |-> PlaceOf(o)]' = [o \in Procs |-> PlaceOf(o)]
  BY <1>3, <1>4, <1>5, <1>6, <1>9
<1>11. Life!Serve
  BY <1>7, <1>8, <1>10 DEF Life!Serve, Life!Procs, Procs
<1> QED
  BY <1>11 DEF Life!Next

(* The other handlers move nobody.                                         *)
LEMMA QuietStep ==
  ASSUME Inv, Owned, fault' = "none",
         \/ StartTick \/ EndOfWorkload \/ ArrivalsDone \/ AgingNextQueue \/ AgingDone
         \/ AgingKeep \/ AgingMove \/ NoProcess \/ SwitchInDone \/ NoEvent \/ WithinLimit
         \/ KeepRunning \/ NoResume \/ QueuesSizesBeforeRR \/ SliceContinues \/ NewSlice
         \/ NoInterrupt \/ (\E c \in Cores : InterruptCore(c)) \/ SkipCore \/ SkipDisk
         \/ AdvanceSchedulingTime \/ FreeComputer
  PROVE  UNCHANGED Life!life
<1>1. Next
  BY DEF Next
<1>2. ~AdvanceProcessTime /\ ~Terminate /\ \A o \in Procs : ~ProcessArrived(o)
  BY DEF StartTick, EndOfWorkload, ArrivalsDone, AgingNextQueue, AgingDone,
     AgingKeep, AgingMove, NoProcess, SwitchInDone, SwitchedIn, NoEvent, WithinLimit,
     KeepRunning, NoResume, QueuesSizesBeforeRR, SliceContinues, NewSlice, NoInterrupt,
     InterruptCore, SkipCore, SkipDisk, AdvanceSchedulingTime, FreeComputer,
     AdvanceProcessTime, Terminate, BurstOver, ProcessArrived, At
<1>3. Ready' = Ready
  <2>1. CASE AgingMove
    BY <2>1, AgingMoveReady DEF Inv, Owned
  <2>2. CASE ~AgingMove
    <3>1. UNCHANGED readyQueues
      BY <2>2, SystemUnchanged DEF lists, StartTick, EndOfWorkload, ArrivalsDone,
         AgingNextQueue, AgingDone, AgingKeep, NoProcess, SwitchInDone, NoEvent, WithinLimit,
         KeepRunning, NoResume, QueuesSizesBeforeRR, SliceContinues, NewSlice, NoInterrupt,
         InterruptCore, SkipCore, SkipDisk, AdvanceSchedulingTime, FreeComputer
    <3> QED BY <3>1, ViewsUnchanged
  <2> QED BY <2>1, <2>2
<1>4. UNCHANGED waitingQueue
  BY SystemUnchanged DEF lists, StartTick, EndOfWorkload, ArrivalsDone,
     AgingNextQueue, AgingDone, AgingKeep, AgingMove, NoProcess, SwitchInDone, NoEvent,
     WithinLimit, KeepRunning, NoResume, QueuesSizesBeforeRR, SliceContinues, NewSlice,
     NoInterrupt, InterruptCore, SkipCore, SkipDisk, AdvanceSchedulingTime, FreeComputer
<1>5. disk'.node = disk.node
  <2>1. CASE \E c \in Cores : InterruptCore(c)
    BY <2>1 DEF InterruptCore, Inv, TypeOK, Disk
  <2>2. CASE ~ \E c \in Cores : InterruptCore(c)
    BY <2>2, SystemUnchanged DEF StartTick, EndOfWorkload, ArrivalsDone,
       AgingNextQueue, AgingDone, AgingKeep, AgingMove, NoProcess, SwitchInDone, NoEvent,
       WithinLimit, KeepRunning, NoResume, QueuesSizesBeforeRR, SliceContinues, NewSlice,
       NoInterrupt, SkipCore, SkipDisk, AdvanceSchedulingTime, FreeComputer
  <2> QED BY <2>1, <2>2
<1> QED
  BY <1>1, <1>2, <1>3, <1>4, <1>5, ViewsUnchanged, Stays

(* When nothing changes, nothing changes for the processes.                *)
LEMMA StutterIsStutter ==
  ASSUME UNCHANGED vars
  PROVE  UNCHANGED Life!life
<1>1. UNCHANGED <<workload, proc>> /\ \A o \in Procs : PlaceOf(o)' = PlaceOf(o)
  BY DEF vars, system, inputs, lists, PlaceOf, Living, Arrived, InReadyQueues
<1> QED
  BY <1>1, StutterStep

(* A step of the simulator is a step of ProcessLife or none.               *)
LEMMA NextIsStep ==
  ASSUME GoodInputs, workload \in Workloads, AssigningOK, Inv, Owned, Owned', InLine,
         fault' = "none", [Next]_vars
  PROVE  [Life!Next]_Life!life
<1>1. SUFFICES Life!Next \/ UNCHANGED Life!life
  OBVIOUS
<1>2. CASE UNCHANGED vars \/ Stop
  <2>1. UNCHANGED vars
    BY <1>2 DEF Stop
  <2> QED BY <2>1, StutterIsStutter
<1>3. CASE Next /\ ~Stop
  <2>1. CASE \/ StartTick \/ EndOfWorkload \/ ArrivalsDone \/ AgingNextQueue \/ AgingDone
             \/ AgingKeep \/ AgingMove \/ NoProcess \/ SwitchInDone \/ NoEvent \/ WithinLimit
             \/ KeepRunning \/ NoResume \/ QueuesSizesBeforeRR \/ SliceContinues \/ NewSlice
             \/ NoInterrupt \/ (\E c \in Cores : InterruptCore(c)) \/ SkipCore \/ SkipDisk
             \/ AdvanceSchedulingTime \/ FreeComputer
    BY <2>1, QuietStep
  <2>2. CASE \E p \in Procs : ProcessArrived(p)
    BY <2>2, ArriveStep
  <2>3. CASE Demote \/ Preempt \/ SwitchOutAfterSlice
    BY <1>3, <2>3, ContextSwitchStep
  <2>4. CASE SwitchOutDone
    BY <1>3, <2>4, SwitchOutDoneStep
  <2>5. CASE Terminate
    BY <2>5, TerminateStep
  <2>6. CASE StartIO
    BY <2>6, StartIOStep
  <2>7. CASE Resume \/ NoInterruptTime
    BY <2>7, EndIOStep
  <2>8. CASE \E q \in Queue : PutProcessOnCPU(q)
    <3>1. index \in Cores
      BY <2>8 DEF AssigningOK, PutProcessOnCPU, At
    <3> QED BY <2>8, <3>1, DispatchStep
  <2>9. CASE PutProcessOnDisk
    BY <2>9, DiskStep
  <2>10. CASE AdvanceProcessTime
    BY <2>10, ServeStep
  <2> QED
    BY <1>3, <2>1, <2>2, <2>3, <2>4, <2>5, <2>6, <2>7, <2>8, <2>9, <2>10 DEF Next
<1> QED
  BY <1>2, <1>3

(* The run stops at the first list fault.                                  *)
LEMMA RunningIsOwned ==
  ASSUME Kept, Next, ~Stop
  PROVE  fault = "none" /\ Owned
<1>1. fault = "none"
  BY DEF Next, At, StartTick, EndOfWorkload,
     ProcessArrived, ArrivalsDone, AgingNextQueue, AgingDone, AgingKeep, AgingMove,
     NoProcess, SwitchInDone, SwitchOutDone, Terminate, StartIO, NoEvent, WithinLimit,
     Demote, Preempt, KeepRunning, Resume, NoResume, QueuesSizesBeforeRR,
     SliceContinues, SwitchOutAfterSlice, NewSlice, NoInterrupt, InterruptCore,
     NoInterruptTime, SkipCore, PutProcessOnCPU, SkipDisk, PutProcessOnDisk,
     AdvanceProcessTime, AdvanceSchedulingTime, FreeComputer
<1> QED
  BY <1>1 DEF Kept

(* At the start nobody has arrived.                                        *)
LEMMA NobodyArrived ==
  ASSUME Init, NEW p \in Procs
  PROVE  ~Arrived(p) /\ PlaceOf(p) = "outside"
<1>1. workload[p].startTime \in Nat
  BY InputAssumption DEF Init, ProcessInput
<1>2. ~Arrived(p)
  BY <1>1 DEF Init, Arrived
<1>3. proc[p].state # "TERMINATED"
  BY DEF Init
<1> QED
  BY <1>2, <1>3 DEF PlaceOf, Living

(* The remaining events of a process always match its input line.          *)
LEMMA StepInLine ==
  ASSUME GoodInputs
  PROVE  StepSpec => []InLine
<1>1. Init => InLine
  BY NobodyArrived DEF InLine
<1>2. Inv /\ Context /\ Kept /\ InLine /\ [Next]_vars => InLine'
  <2>1. SUFFICES ASSUME Inv, Context, Kept, InLine, [Next]_vars PROVE InLine'
    OBVIOUS
  <2>2. CASE UNCHANGED vars \/ Stop
    <3>1. UNCHANGED vars
      BY <2>2 DEF Stop
    <3> QED BY <2>1, <3>1 DEF vars, system, inputs, InLine, Segment, Arrived
  <2>3. CASE Next /\ ~Stop
    <3>1. Owned /\ workload \in Workloads
      BY <2>1, <2>3, RunningIsOwned DEF Context
    <3> QED BY <2>1, <2>3, <3>1, InLineKept
  <2> QED BY <2>1, <2>2, <2>3
<1> QED
  BY <1>1, <1>2, StepInvariance, StepContext, StepOwnership, PTL DEF StepSpec

LEMMA InLineInvariance ==
  ASSUME GoodInputs
  PROVE  Spec => []InLine
BY StepInLine, PTL DEF Spec, StepSpec

(* At the start every process is outside.                                  *)
LEMMA LifeAtStart ==
  Init => Life!Init
<1>1. SUFFICES ASSUME Init PROVE Life!Init
  OBVIOUS
<1>2. \A p \in Procs : PlaceOf(p) = "outside"
  BY <1>1, NobodyArrived
<1>3. workload \in Workloads /\ \A p \in Procs : proc[p].advancementTime = 0
  BY <1>1 DEF Init
<1> QED
  BY <1>2, <1>3 DEF Life!Init, Life!Procs, Procs

(* The simulator implements ProcessLife, for as long as none of the list   *)
(* faults that --age and --limit can cause ends the run.                   *)
THEOREM LifeIsImplemented ==
  ASSUME GoodInputs
  PROVE  Spec /\ []NoUndefinedBehaviour => ImplementsProcessLife
<1>1. Init => Life!Init
  BY LifeAtStart
<1> DEFINE Known == Inv /\ Context /\ Kept /\ InLine /\ NoUndefinedBehaviour
<1>2. Known /\ Known' /\ [Next]_vars => [Life!Next]_Life!life
  <2>1. SUFFICES ASSUME Known, Known', [Next]_vars PROVE [Life!Next]_Life!life
    OBVIOUS
  <2>2. Inv /\ Owned /\ Owned' /\ AssigningOK /\ workload \in Workloads /\ fault' = "none"
    BY <2>1 DEF Context, Kept, NoUndefinedBehaviour
  <2> QED BY <2>1, <2>2, NextIsStep
<1>3. Spec /\ []NoUndefinedBehaviour => []Known
  BY Invariance, ContextInvariance, Ownership, InLineInvariance, PTL
<1> HIDE DEF Known
<1> QED
  BY <1>1, <1>2, <1>3, PTL DEF Spec, ImplementsProcessLife, Life!Spec

-----------------------------------------------------------------------------
(* The CPU time that printStats prints *)

(* Only advanceProcessTime counts CPU time.                                *)
LEMMA OnlyServiceCounts ==
  ASSUME Inv, Next, ~AdvanceProcessTime, NEW p \in Procs
  PROVE  stats'[p].cpuTime = stats[p].cpuTime
<1>1. stats \in [Procs -> ProcessStats]
  BY DEF Inv, TypeOK
<1>2. ASSUME NEW o, NEW n, stats' = [stats EXCEPT ![o].nbContextSwitches = n]
      PROVE  stats'[p].cpuTime = stats[p].cpuTime
  BY <1>1, <1>2 DEF ProcessStats
<1>3. CASE \E o \in Procs : ProcessArrived(o)
  <2>1. \E o : stats' = [stats EXCEPT ![o].arrivalTime = time]
    BY <1>3 DEF ProcessArrived
  <2> QED BY <1>1, <2>1 DEF ProcessStats
<1>4. CASE Terminate
  <2>1. \E o, n : stats' = [stats EXCEPT ![o].finishTime = time, ![o].turnaroundTime = n]
    BY <1>4 DEF Terminate
  <2> QED BY <1>1, <2>1 DEF ProcessStats
<1>5. CASE StartIO \/ Demote \/ Preempt \/ SwitchOutAfterSlice
  <2>1. ASSUME NEW c, NEW nd, SwitchOutReady(c, nd)
        PROVE  \E o, n : stats' = [stats EXCEPT ![o].nbContextSwitches = n]
    BY <2>1 DEF SwitchOutReady
  <2>2. CASE StartIO
    <3>1. \E o, n : stats' = [stats EXCEPT ![o].nbContextSwitches = n]
      BY <2>2 DEF StartIO
    <3> QED BY <1>2, <3>1
  <2>3. CASE Demote
    <3>1. UNCHANGED stats \/ \E nd : SwitchOutReady(index, nd)
      BY <2>3 DEF Demote
    <3> QED BY <1>2, <2>1, <3>1
  <2>4. CASE Preempt \/ SwitchOutAfterSlice
    <3>1. \E nd : SwitchOutReady(index, nd)
      BY <2>4 DEF Preempt, SwitchOutAfterSlice
    <3> QED BY <1>2, <2>1, <3>1
  <2> QED BY <1>5, <2>2, <2>3, <2>4
<1>6. CASE ~ \/ \E o \in Procs : ProcessArrived(o)
             \/ Terminate \/ StartIO \/ Demote \/ Preempt \/ SwitchOutAfterSlice
  <2>1. stats' = stats
    BY <1>6, SystemUnchanged DEF Next, StartTick, EndOfWorkload, ArrivalsDone,
       AgingNextQueue, AgingDone, AgingKeep, AgingMove, NoProcess, SwitchInDone,
       SwitchOutDone, NoEvent, WithinLimit, KeepRunning, Resume, NoResume,
       QueuesSizesBeforeRR, SliceContinues, NewSlice, NoInterrupt, InterruptCore,
       NoInterruptTime, SkipCore, PutProcessOnCPU, SkipDisk, PutProcessOnDisk,
       AdvanceSchedulingTime, FreeComputer, Stop, vars
  <2> QED BY <2>1
<1> QED
  BY <1>3, <1>4, <1>5, <1>6

(* One more time unit counts if it is spent in a CPU burst.                *)
LEMMA OneMoreUnit ==
  ASSUME NEW P, NEW n \in Nat
  PROVE  Cardinality({t \in 0..((n + 1) - 1) : P[t] = "CPU"}) =
           Cardinality({t \in 0..(n - 1) : P[t] = "CPU"}) + (IF P[n] = "CPU" THEN 1 ELSE 0)
<1> DEFINE A == {t \in 0..(n - 1) : P[t] = "CPU"}
           B == {t \in 0..((n + 1) - 1) : P[t] = "CPU"}
<1>1. IsFiniteSet(A) /\ Cardinality(A) \in Nat
  <2>1. IsFiniteSet(0..(n - 1))
    BY FS_Interval
  <2>2. A \in SUBSET (0..(n - 1))
    OBVIOUS
  <2> QED BY <2>1, <2>2, FS_Subset, FS_CardinalityType
<1>2. n \notin A
  OBVIOUS
<1>3. CASE P[n] = "CPU"
  <2>1. B = A \cup {n}
    BY <1>3
  <2>2. Cardinality(A \cup {n}) = Cardinality(A) + 1
    <3> HIDE DEF A, B
    <3> QED BY <1>1, <1>2, FS_AddElement
  <2> QED BY <1>3, <2>1, <2>2
<1>4. CASE P[n] # "CPU"
  <2>1. B = A
    BY <1>4
  <2> QED BY <1>1, <1>4, <2>1
<1> QED
  BY <1>3, <1>4

(* A step keeps the count exact.                                           *)
LEMMA CpuTimeKept ==
  ASSUME GoodInputs, workload \in Workloads, Inv, Owned, InLine, CpuTimeIsExact, Next
  PROVE  CpuTimeIsExact'
<1>1. TypeOK /\ workload' = workload
  BY WorkloadKept DEF Inv
<1>2. SUFFICES ASSUME NEW p \in Procs
      PROVE  stats'[p].cpuTime =
               Cardinality({t \in 0..(proc'[p].advancementTime - 1) : BurstAt(p, t)' = "CPU"})
  BY DEF CpuTimeIsExact
<1>3. \A t : BurstAt(p, t)' = BurstAt(p, t)
  BY <1>1 DEF BurstAt
<1> DEFINE a == proc[p].advancementTime
           P == [t \in 0..a |-> BurstAt(p, t)]
           Count(n) == Cardinality({t \in 0..(n - 1) : BurstAt(p, t) = "CPU"})
<1>4. a \in Nat /\ stats[p].cpuTime \in Nat /\ stats[p].cpuTime = Count(a)
  BY <1>1 DEF CpuTimeIsExact, TypeOK, Process, ProcessStats
<1>5. CASE ~AdvanceProcessTime
  <2>1. proc'[p].advancementTime = a /\ stats'[p].cpuTime = stats[p].cpuTime
    BY <1>5, OnlyStateChanges, OnlyServiceCounts
  <2> QED BY <1>3, <1>4, <2>1
<1>6. CASE AdvanceProcessTime
  <2>1. phase = "advanceProcesses"
    BY <1>6 DEF AdvanceProcessTime, At
  <2>2. proc'[p].advancementTime = IF Progresses(p) THEN a + 1 ELSE a
    BY <1>1, <1>6 DEF AdvanceProcessTime, TypeOK, Process
  <2>3. stats'[p].cpuTime = stats[p].cpuTime + (IF proc[p].state = "RUNNING" THEN 1 ELSE 0)
    <3>1. stats \in [Procs -> ProcessStats]
      BY <1>1 DEF TypeOK
    <3>2. stats'[p] =
            CASE proc[p].state = "READY" /\ workload[p].startTime <= time /\ InReadyQueues(p)
                   -> [stats[p] EXCEPT !.waitingTime = @ + 1]
              [] proc[p].state = "RUNNING" -> [stats[p] EXCEPT !.cpuTime = @ + 1]
              [] OTHER -> stats[p]
      BY <1>6 DEF AdvanceProcessTime
    <3>3. CASE proc[p].state = "RUNNING"
      BY <3>1, <3>2, <3>3 DEF ProcessStats
    <3>4. CASE proc[p].state # "RUNNING"
      BY <3>1, <3>2, <3>4 DEF ProcessStats
    <3> QED BY <3>3, <3>4
  <2>4. BurstAt(p, a) = Life!Burst(p)
    BY DEF BurstAt, Life!Burst
  <2>5. CASE ~Progresses(p)
    <3>1. proc[p].state # "RUNNING"
      BY <2>5 DEF Progresses
    <3>2. proc'[p].advancementTime = a /\ stats'[p].cpuTime = stats[p].cpuTime
      BY <1>4, <2>2, <2>3, <2>5, <3>1
    <3> QED BY <1>3, <1>4, <3>2
  <2>6. CASE Progresses(p)
    <3>1. BurstAt(p, a) = IF proc[p].state = "RUNNING" THEN "CPU" ELSE "IO"
      BY <2>1, <2>4, <2>6, InBurst DEF Progresses
    <3>2. Count(a + 1) = Count(a) + (IF BurstAt(p, a) = "CPU" THEN 1 ELSE 0)
      <4>1. P[a] = BurstAt(p, a)
        BY <1>4
      <4>2. {t \in 0..(a - 1) : P[t] = "CPU"} = {t \in 0..(a - 1) : BurstAt(p, t) = "CPU"}
        BY <1>4
      <4>3. {t \in 0..((a + 1) - 1) : P[t] = "CPU"} =
              {t \in 0..((a + 1) - 1) : BurstAt(p, t) = "CPU"}
        BY <1>4
      <4>4. Cardinality({t \in 0..((a + 1) - 1) : P[t] = "CPU"}) =
              Cardinality({t \in 0..(a - 1) : P[t] = "CPU"}) + (IF P[a] = "CPU" THEN 1 ELSE 0)
        <5> HIDE DEF P, a
        <5> QED BY <1>4, OneMoreUnit
      <4> QED BY <4>1, <4>2, <4>3, <4>4
    <3> QED BY <1>3, <1>4, <2>2, <2>3, <2>6, <3>1, <3>2
  <2> QED BY <2>5, <2>6
<1> QED
  BY <1>5, <1>6

(* The CPU time of a process is the time it spent in its CPU bursts.       *)
THEOREM CpuTimeExact ==
  ASSUME GoodInputs
  PROVE  Spec => []CpuTimeIsExact
<1>1. Init => CpuTimeIsExact
  <2>1. SUFFICES ASSUME Init, NEW p \in Procs
        PROVE  stats[p].cpuTime =
                 Cardinality({t \in 0..(proc[p].advancementTime - 1) : BurstAt(p, t) = "CPU"})
    BY DEF CpuTimeIsExact
  <2>2. stats[p].cpuTime = 0 /\ proc[p].advancementTime = 0
    BY <2>1 DEF Init, initStats
  <2>3. {t \in 0..(0 - 1) : BurstAt(p, t) = "CPU"} = {}
    OBVIOUS
  <2> QED BY <2>2, <2>3, FS_EmptySet
<1> DEFINE Known == Inv /\ Context /\ Kept /\ InLine
<1>2. Known /\ CpuTimeIsExact /\ [Next]_vars => CpuTimeIsExact'
  <2>1. SUFFICES ASSUME Known, CpuTimeIsExact, [Next]_vars PROVE CpuTimeIsExact'
    OBVIOUS
  <2>2. CASE UNCHANGED vars \/ Stop
    <3>1. UNCHANGED <<workload, proc, stats>>
      BY <2>2 DEF Stop, vars, system, inputs
    <3>2. \A p, t : BurstAt(p, t)' = BurstAt(p, t)
      BY <3>1 DEF BurstAt
    <3> QED BY <2>1, <3>1, <3>2 DEF CpuTimeIsExact
  <2>3. CASE Next /\ ~Stop
    <3>1. Owned /\ workload \in Workloads
      BY <2>1, <2>3, RunningIsOwned DEF Context
    <3> QED BY <2>1, <2>3, <3>1, CpuTimeKept
  <2> QED BY <2>1, <2>2, <2>3
<1>3. Spec => []Known
  BY Invariance, ContextInvariance, Ownership, InLineInvariance, PTL
<1> HIDE DEF Known
<1> QED
  BY <1>1, <1>2, <1>3, PTL DEF Spec

-----------------------------------------------------------------------------
(* The interrupt *)

(* An interrupted core only counts its interrupt down, or resumes.         *)
LEMMA CoreWhileInterrupted ==
  ASSUME Inv, Owned, Next, NEW c \in Cores, core[c].state = "INTERRUPTED"
  PROVE  \/ core'[c] = core[c]
         \/ core'[c] = [core[c] EXCEPT !.interruptTimer = @ - 1]
         \/ core'[c] = [core[c] EXCEPT !.state = StateBeforeInterrupt(c)]
<1>1. TypeOK /\ core \in [Cores -> Core]
  BY DEF Inv, TypeOK
<1>2. CASE SwitchInDone \/ SwitchOutDone
  <2>1. index # c
    BY <1>2 DEF SwitchInDone, SwitchOutDone, SwitchedIn, SwitchedOut
  <2> QED BY <1>1, <1>2, <2>1 DEF SwitchInDone, SwitchOutDone
<1>3. CASE Terminate \/ StartIO
  <2>1. CASE Terminate
    <3>1. core[index].state = "OCCUPIED"
      BY <2>1, TerminatedInTime
    <3>2. core' = [core EXCEPT ![index].state = "IDLE", ![index].node = NULL]
      BY <2>1 DEF Terminate
    <3> QED BY <1>1, <3>1, <3>2
  <2>2. CASE StartIO
    <3>1. /\ index \in Cores \ Leaving /\ core[index].node \in Procs
          /\ Left[core[index].node] = 0
      BY <2>2, StartIOInTime
    <3>2. core[index].state = "OCCUPIED"
      BY <3>1 DEF Owned, InTime
    <3>3. index # c
      BY <3>2
    <3> QED BY <1>1, <2>2, <3>3 DEF StartIO
  <2> QED BY <1>3, <2>1, <2>2
<1>4. CASE Demote \/ Preempt \/ SwitchOutAfterSlice
  <2>1. core[index].state = "OCCUPIED"
    BY <1>4 DEF Demote, Preempt, SwitchOutAfterSlice, SliceOver, At, Inv, IndexOK
  <2>2. index # c
    BY <2>1
  <2>3. core' = core \/ \E nd : SwitchOutReady(index, nd)
    BY <1>4 DEF Demote, Preempt, SwitchOutAfterSlice
  <2> QED BY <1>1, <2>2, <2>3 DEF SwitchOutReady
<1>5. CASE Resume
  <2>1. core' = [core EXCEPT ![index].state = StateBeforeInterrupt(index)]
    BY <1>5 DEF Resume
  <2> QED BY <1>1, <2>1
<1>6. CASE NewSlice
  <2>1. core[index].state = "OCCUPIED"
    BY <1>6 DEF NewSlice, SliceOver
  <2>2. core' = [core EXCEPT ![index].quantumTime = 0]
    BY <1>6 DEF NewSlice
  <2> QED BY <1>1, <2>1, <2>2
<1>7. CASE \E d \in Cores : InterruptCore(d)
  BY <1>7 DEF InterruptCore, DiskOperationOver, Interrupted
<1>8. CASE \E q \in Queue : PutProcessOnCPU(q)
  <2>1. core[index].state = "IDLE"
    BY <1>8 DEF PutProcessOnCPU, Assignable
  <2>2. index # c
    BY <2>1
  <2> QED BY <1>1, <1>8, <2>2 DEF PutProcessOnCPU
<1>9. CASE AdvanceSchedulingTime
  <2>1. core'[c] = AdvanceTimers(c)
    BY <1>9 DEF AdvanceSchedulingTime
  <2> QED BY <2>1 DEF AdvanceTimers
<1>10. CASE ~ \/ SwitchInDone \/ SwitchOutDone \/ Terminate \/ StartIO \/ Demote \/ Preempt
              \/ SwitchOutAfterSlice \/ Resume \/ NewSlice
              \/ (\E d \in Cores : InterruptCore(d)) \/ (\E q \in Queue : PutProcessOnCPU(q))
              \/ AdvanceSchedulingTime
  <2>1. core' = core
    BY <1>10, SystemUnchanged DEF Next, StartTick, EndOfWorkload, ProcessArrived, ArrivalsDone,
       AgingNextQueue, AgingDone, AgingKeep, AgingMove, NoProcess, NoEvent, WithinLimit,
       KeepRunning, NoResume, QueuesSizesBeforeRR, SliceContinues, NoInterrupt,
       NoInterruptTime, SkipCore, SkipDisk, PutProcessOnDisk, AdvanceProcessTime,
       FreeComputer, Stop, vars
  <2> QED BY <2>1
<1> QED
  BY <1>2, <1>3, <1>4, <1>5, <1>6, <1>7, <1>8, <1>9, <1>10

(* Only handleInterrupt interrupts a core.                                 *)
LEMMA OnlyInterruptInterrupts ==
  ASSUME Inv, Next, NEW c \in Cores, core[c].state # "INTERRUPTED",
         core'[c].state = "INTERRUPTED"
  PROVE  InterruptCore(c)
<1>1. TypeOK /\ core \in [Cores -> Core]
  BY DEF Inv, TypeOK
<1>2. \A d \in Cores : core[d] \in Core
  BY <1>1
<1>3. CASE SwitchInDone \/ SwitchOutDone \/ Terminate \/ StartIO \/ NewSlice
  <2>1. CASE SwitchInDone
    BY <1>1, <1>2, <2>1 DEF SwitchInDone, Core
  <2>2. CASE SwitchOutDone \/ Terminate
    BY <1>1, <1>2, <2>2 DEF SwitchOutDone, Terminate, Core
  <2>3. CASE StartIO
    <3>1. \/ core' = [core EXCEPT ![index].state = "SWITCH_OUT",
                                  ![index].switchOutTimer = SwitchOutDuration,
                                  ![index].continueOnCPU = FALSE]
          \/ core' = [core EXCEPT ![index].state = "IDLE", ![index].node = NULL,
                                  ![index].continueOnCPU = FALSE]
      BY <2>3 DEF StartIO
    <3> QED BY <1>1, <1>2, <3>1 DEF Core
  <2>4. CASE NewSlice
    <3>1. core' = [core EXCEPT ![index].quantumTime = 0]
      BY <2>4 DEF NewSlice
    <3> QED BY <1>1, <1>2, <3>1 DEF Core
  <2> QED BY <1>3, <2>1, <2>2, <2>3, <2>4
<1>4. CASE Demote \/ Preempt \/ SwitchOutAfterSlice
  <2>1. core' = core \/ \E nd : SwitchOutReady(index, nd)
    BY <1>4 DEF Demote, Preempt, SwitchOutAfterSlice
  <2> QED BY <1>1, <1>2, <2>1 DEF SwitchOutReady, Core
<1>5. CASE Resume
  <2>1. core' = [core EXCEPT ![index].state = StateBeforeInterrupt(index)]
    BY <1>5 DEF Resume
  <2>2. StateBeforeInterrupt(index) # "INTERRUPTED"
    BY DEF StateBeforeInterrupt
  <2> QED BY <1>1, <1>2, <2>1, <2>2 DEF Core
<1>6. CASE \E d \in Cores : InterruptCore(d)
  <2>1. PICK d \in Cores : InterruptCore(d)
    BY <1>6
  <2>2. core' = [core EXCEPT ![d].state = "INTERRUPTED", ![d].interruptTimer = InterruptTime]
    BY <2>1 DEF InterruptCore
  <2>3. d = c
    BY <1>1, <2>2
  <2> QED BY <2>1, <2>3
<1>7. CASE \E q \in Queue : PutProcessOnCPU(q)
  BY <1>1, <1>2, <1>7 DEF PutProcessOnCPU, Core
<1>8. CASE AdvanceSchedulingTime
  <2>1. core'[c] = AdvanceTimers(c) /\ core[c] \in Core
    BY <1>2, <1>8 DEF AdvanceSchedulingTime
  <2>2. core'[c].state = core[c].state
    BY <2>1 DEF AdvanceTimers, Core, CoreStates
  <2> QED BY <2>2
<1>9. CASE ~ \/ SwitchInDone \/ SwitchOutDone \/ Terminate \/ StartIO \/ Demote \/ Preempt
             \/ SwitchOutAfterSlice \/ Resume \/ NewSlice
             \/ (\E d \in Cores : InterruptCore(d)) \/ (\E q \in Queue : PutProcessOnCPU(q))
             \/ AdvanceSchedulingTime
  <2>1. core' = core
    BY <1>9, SystemUnchanged DEF Next, StartTick, EndOfWorkload, ProcessArrived, ArrivalsDone,
       AgingNextQueue, AgingDone, AgingKeep, AgingMove, NoProcess, NoEvent, WithinLimit,
       KeepRunning, NoResume, QueuesSizesBeforeRR, SliceContinues, NoInterrupt,
       NoInterruptTime, SkipCore, SkipDisk, PutProcessOnDisk, AdvanceProcessTime,
       FreeComputer, Stop, vars
  <2> QED BY <2>1
<1> QED
  BY <1>3, <1>4, <1>5, <1>6, <1>7, <1>8, <1>9

(* The timers of a core tell what it was doing when it is interrupted:     *)
(* handleSchedulerEvents has left no timer of a context switch at 0.       *)
LEMMA InterruptCanBeUndone ==
  ASSUME Inv, Owned, NEW c \in Cores, InterruptCore(c)
  PROVE  core[c].state = StateBeforeInterrupt(c)'
<1>1. /\ core \in [Cores -> Core] /\ core[c] \in Core /\ phase = "interrupt" /\ ~Interrupted
      /\ core' = [core EXCEPT ![c].state = "INTERRUPTED", ![c].interruptTimer = InterruptTime]
  BY DEF Inv, TypeOK, InterruptCore, DiskOperationOver, At
<1>2. /\ core'[c].node = core[c].node /\ core'[c].switchInTimer = core[c].switchInTimer
      /\ core'[c].switchOutTimer = core[c].switchOutTimer
  BY <1>1 DEF Core
<1>3. core[c].state \in {"IDLE", "OCCUPIED", "SWITCH_IN", "SWITCH_OUT"}
  BY <1>1 DEF Interrupted, Core, CoreStates
<1>4. Timers /\ CoreOK /\ HandledInTime /\ Handled(c)
  BY <1>1 DEF Owned, Inv, Handled
<1>5. CASE core[c].state = "IDLE"
  BY <1>2, <1>4, <1>5 DEF Timers, StateBeforeInterrupt
<1>6. CASE core[c].state = "OCCUPIED"
  BY <1>2, <1>4, <1>6 DEF Timers, CoreOK, StateBeforeInterrupt
<1>7. CASE core[c].state = "SWITCH_IN"
  <2>1. core[c].node # NULL /\ core[c].switchInTimer # 0
    BY <1>1, <1>4, <1>7 DEF CoreOK, HandledInTime, Core
  <2> QED BY <1>2, <1>7, <2>1 DEF StateBeforeInterrupt
<1>8. CASE core[c].state = "SWITCH_OUT"
  <2>1. /\ core[c].node # NULL /\ core[c].switchOutTimer # 0
        /\ core[c].switchInTimer = 0
    BY <1>1, <1>4, <1>8 DEF CoreOK, Timers, HandledInTime, Core
  <2> QED BY <1>2, <1>8, <2>1 DEF StateBeforeInterrupt
<1> QED
  BY <1>3, <1>5, <1>6, <1>7, <1>8

(* The process of an interrupted core is not served: it does not run, and  *)
(* the disk, if the process is waiting for it, is idle.                    *)
LEMMA NotServedWhileInterrupted ==
  ASSUME Inv, Owned, Next, NEW c \in Cores, core[c].state = "INTERRUPTED",
         core[c].node \in Procs
  PROVE  proc'[core[c].node].advancementTime = proc[core[c].node].advancementTime
<1> DEFINE p == core[c].node
<1>1. CASE ~AdvanceProcessTime
  BY <1>1, OnlyStateChanges
<1>2. CASE AdvanceProcessTime
  <2>1. disk.state = "DISK_IDLE"
    BY DEF Inv, InterruptHoldsDisk, Interrupted
  <2>2. proc[p].state # "RUNNING"
    <3>1. RunningOnOccupiedCore /\ Exclusive
      BY DEF Owned, States
    <3>2. ASSUME NEW d \in Cores, core[d].state = "OCCUPIED" PROVE core[d].node # p
      BY <3>1, <3>2, NullIsNoProcess DEF Exclusive
    <3> QED BY <3>1, <3>2 DEF RunningOnOccupiedCore
  <2>3. ~Progresses(p)
    BY <2>1, <2>2 DEF Progresses
  <2> QED BY <1>2, <2>3 DEF AdvanceProcessTime
<1> QED
  BY <1>1, <1>2

(* A core goes on after an interrupt with what it was doing before it.     *)
THEOREM InterruptsAreTransparent ==
  ASSUME GoodInputs
  PROVE  Spec => InterruptIsTransparent
<1> DEFINE Transparent ==
      \A c \in Cores :
        /\ core[c].state # "INTERRUPTED" /\ core'[c].state = "INTERRUPTED" =>
             core[c].state = StateBeforeInterrupt(c)'
        /\ core[c].state = "INTERRUPTED" =>
             /\ core'[c] = [core[c] EXCEPT !.interruptTimer = core'[c].interruptTimer,
                                           !.state = core'[c].state]
             /\ core'[c].state # "INTERRUPTED" => core'[c].state = StateBeforeInterrupt(c)
             /\ core[c].node \in Procs =>
                  proc'[core[c].node].advancementTime = proc[core[c].node].advancementTime
<1>1. Inv /\ Kept /\ [Next]_vars => [Transparent]_vars
  <2>1. SUFFICES ASSUME Inv, Kept, Next, ~UNCHANGED vars PROVE Transparent
    OBVIOUS
  <2>2. Owned
    BY <2>1, RunningIsOwned DEF Stop
  <2>3. SUFFICES ASSUME NEW c \in Cores
        PROVE  /\ core[c].state # "INTERRUPTED" /\ core'[c].state = "INTERRUPTED" =>
                    core[c].state = StateBeforeInterrupt(c)'
               /\ core[c].state = "INTERRUPTED" =>
                    /\ core'[c] = [core[c] EXCEPT !.interruptTimer = core'[c].interruptTimer,
                                                  !.state = core'[c].state]
                    /\ core'[c].state # "INTERRUPTED" => core'[c].state = StateBeforeInterrupt(c)
                    /\ core[c].node \in Procs =>
                         proc'[core[c].node].advancementTime =
                           proc[core[c].node].advancementTime
    OBVIOUS
  <2>4. core[c] \in Core
    BY <2>1 DEF Inv, TypeOK
  <2>5. ASSUME core[c].state # "INTERRUPTED", core'[c].state = "INTERRUPTED"
        PROVE  core[c].state = StateBeforeInterrupt(c)'
    BY <2>1, <2>2, <2>5, OnlyInterruptInterrupts, InterruptCanBeUndone
  <2>6. ASSUME core[c].state = "INTERRUPTED"
        PROVE  /\ core'[c] = [core[c] EXCEPT !.interruptTimer = core'[c].interruptTimer,
                                             !.state = core'[c].state]
               /\ core'[c].state # "INTERRUPTED" => core'[c].state = StateBeforeInterrupt(c)
    <3>1. \/ core'[c] = core[c]
          \/ core'[c] = [core[c] EXCEPT !.interruptTimer = @ - 1]
          \/ core'[c] = [core[c] EXCEPT !.state = StateBeforeInterrupt(c)]
      BY <2>1, <2>2, <2>6, CoreWhileInterrupted
    <3> QED BY <2>4, <2>6, <3>1 DEF Core
  <2> QED BY <2>1, <2>2, <2>5, <2>6, NotServedWhileInterrupted
<1> HIDE DEF Transparent
<1>2. Spec => [][Transparent]_vars
  BY <1>1, Invariance, Ownership, PTL DEF Spec
<1> QED
  BY <1>2 DEF InterruptIsTransparent, Transparent

-----------------------------------------------------------------------------
(* How one core changes *)

\* The core lets its process go, or starts to switch it out.
LetsGo(c) ==
  \/ core'[c] = [core[c] EXCEPT !.state = "IDLE", !.node = NULL]
  \/ core'[c] = [core[c] EXCEPT !.state = "IDLE", !.node = NULL, !.continueOnCPU = FALSE]
  \/ \E b \in BOOLEAN :
       core'[c] = [core[c] EXCEPT !.state = "SWITCH_OUT", !.switchOutTimer = SwitchOutDuration,
                                  !.continueOnCPU = b]

\* The core gets process p.
Gets(c, p) ==
  /\ core[c].state = "IDLE"
  /\ \/ SwitchInDuration > 0
        /\ core'[c] = [core[c] EXCEPT !.state = "SWITCH_IN", !.node = p,
                                      !.switchInTimer = SwitchInDuration]
     \/ SwitchInDuration = 0
        /\ core'[c] = [core[c] EXCEPT !.state = "OCCUPIED", !.node = p, !.quantumTime = 0]

\* Steps that switch a process out to a ready queue.
SwitchesOut == \E nd : SwitchOutReady(index, nd)

(* A core is changed by the handler that stands at it, by an interrupt,    *)
(* and by the advance of the time.                                         *)
LEMMA CoreSteps ==
  ASSUME Inv, Next, NEW c \in Cores
  PROVE  \/ core'[c] = core[c]
         \/ /\ c = index /\ SwitchInDone
            /\ core'[c] = [core[c] EXCEPT !.state = "OCCUPIED", !.quantumTime = 0]
         \/ c = index /\ (SwitchOutDone \/ Terminate \/ StartIO) /\ LetsGo(c)
         \/ /\ c = index /\ (Demote \/ Preempt \/ SwitchOutAfterSlice) /\ SwitchesOut
            /\ core[c].state = "OCCUPIED" /\ LetsGo(c)
         \/ /\ c = index /\ Resume
            /\ core'[c] = [core[c] EXCEPT !.state = StateBeforeInterrupt(c)]
         \/ c = index /\ NewSlice /\ core'[c] = [core[c] EXCEPT !.quantumTime = 0]
         \/ /\ InterruptCore(c)
            /\ core'[c] = [core[c] EXCEPT !.state = "INTERRUPTED",
                                          !.interruptTimer = InterruptTime]
         \/ /\ c = index /\ \E q \in Queue : /\ PutProcessOnCPU(q)
                                             /\ Gets(c, TopNode(readyQueues[q]))
         \/ AdvanceSchedulingTime /\ core'[c] = AdvanceTimers(c)
<1>1. TypeOK /\ core \in [Cores -> Core] /\ core[c] \in Core
  BY DEF Inv, TypeOK
<1>2. CASE SwitchInDone \/ NewSlice \/ Resume
  <2>1. ASSUME SwitchInDone
        PROVE  IF c = index THEN core'[c] = [core[c] EXCEPT !.state = "OCCUPIED", !.quantumTime = 0]
               ELSE core'[c] = core[c]
    <3>1. core' = [core EXCEPT ![index].state = "OCCUPIED", ![index].quantumTime = 0]
      BY <2>1 DEF SwitchInDone
    <3> QED BY <1>1, <3>1 DEF Core
  <2>2. ASSUME NewSlice
        PROVE  IF c = index THEN core'[c] = [core[c] EXCEPT !.quantumTime = 0]
               ELSE core'[c] = core[c]
    <3>1. core' = [core EXCEPT ![index].quantumTime = 0]
      BY <2>2 DEF NewSlice
    <3> QED BY <1>1, <3>1 DEF Core
  <2>3. ASSUME Resume
        PROVE  IF c = index THEN core'[c] = [core[c] EXCEPT !.state = StateBeforeInterrupt(c)]
               ELSE core'[c] = core[c]
    <3>1. core' = [core EXCEPT ![index].state = StateBeforeInterrupt(index)]
      BY <2>3 DEF Resume
    <3> QED BY <1>1, <3>1
  <2> QED BY <1>2, <2>1, <2>2, <2>3
<1>3. ASSUME SwitchOutDone \/ Terminate \/ StartIO
      PROVE  IF c = index THEN LetsGo(c) ELSE core'[c] = core[c]
  <2>1. CASE SwitchOutDone \/ Terminate
    <3>1. core' = [core EXCEPT ![index].state = "IDLE", ![index].node = NULL]
      BY <2>1 DEF SwitchOutDone, Terminate
    <3>2. c = index => core'[c] = [core[c] EXCEPT !.state = "IDLE", !.node = NULL]
      BY <1>1, <3>1 DEF Core
    <3>3. c # index => core'[c] = core[c]
      BY <1>1, <3>1
    <3> QED BY <3>2, <3>3 DEF LetsGo
  <2>2. CASE StartIO
    <3>1. \/ core' = [core EXCEPT ![index].state = "SWITCH_OUT",
                                  ![index].switchOutTimer = SwitchOutDuration,
                                  ![index].continueOnCPU = FALSE]
          \/ core' = [core EXCEPT ![index].state = "IDLE", ![index].node = NULL,
                                  ![index].continueOnCPU = FALSE]
      BY <2>2 DEF StartIO
    <3>2. c = index =>
            \/ core'[c] = [core[c] EXCEPT !.state = "SWITCH_OUT",
                                 !.switchOutTimer = SwitchOutDuration, !.continueOnCPU = FALSE]
            \/ core'[c] = [core[c] EXCEPT !.state = "IDLE", !.node = NULL,
                                          !.continueOnCPU = FALSE]
      BY <1>1, <3>1 DEF Core
    <3>3. c # index => core'[c] = core[c]
      BY <1>1, <3>1
    <3> QED BY <3>2, <3>3 DEF LetsGo
  <2> QED BY <1>3, <2>1, <2>2
<1>4. CASE Demote \/ Preempt \/ SwitchOutAfterSlice
  <2>1. core' = core \/ SwitchesOut
    BY <1>4 DEF Demote, Preempt, SwitchOutAfterSlice, SwitchesOut
  <2>2. core[index].state = "OCCUPIED"
    BY <1>4 DEF Demote, Preempt, SwitchOutAfterSlice, SliceOver, At, Inv, IndexOK
  <2>3. ASSUME SwitchesOut
        PROVE  IF c = index THEN LetsGo(c) ELSE core'[c] = core[c]
    <3>1. PICK nd : SwitchOutReady(index, nd)
      BY <2>3 DEF SwitchesOut
    <3>2. \/ core' = [core EXCEPT ![index].state = "SWITCH_OUT",
                                  ![index].switchOutTimer = SwitchOutDuration,
                                  ![index].continueOnCPU = TRUE]
          \/ core' = [core EXCEPT ![index].state = "IDLE", ![index].node = NULL]
      BY <3>1 DEF SwitchOutReady
    <3>3. c = index =>
            \/ core'[c] = [core[c] EXCEPT !.state = "SWITCH_OUT",
                                 !.switchOutTimer = SwitchOutDuration, !.continueOnCPU = TRUE]
            \/ core'[c] = [core[c] EXCEPT !.state = "IDLE", !.node = NULL]
      BY <1>1, <3>2 DEF Core
    <3>4. c # index => core'[c] = core[c]
      BY <1>1, <3>2
    <3> QED BY <3>3, <3>4 DEF LetsGo
  <2> QED BY <1>4, <2>1, <2>2, <2>3
<1>5. CASE \E d \in Cores : InterruptCore(d)
  <2>1. PICK d \in Cores : InterruptCore(d)
    BY <1>5
  <2>2. core' = [core EXCEPT ![d].state = "INTERRUPTED", ![d].interruptTimer = InterruptTime]
    BY <2>1 DEF InterruptCore
  <2>3. IF c = d THEN core'[c] = [core[c] EXCEPT !.state = "INTERRUPTED",
                                                 !.interruptTimer = InterruptTime]
        ELSE core'[c] = core[c]
    BY <1>1, <2>2 DEF Core
  <2> QED BY <2>1, <2>3
<1>6. CASE \E q \in Queue : PutProcessOnCPU(q)
  <2>1. PICK q \in Queue : PutProcessOnCPU(q)
    BY <1>6
  <2> DEFINE p == TopNode(readyQueues[q])
  <2>2. /\ core[index].state = "IDLE"
        /\ core' = IF SwitchInDuration > 0
                   THEN [core EXCEPT ![index].state = "SWITCH_IN", ![index].node = p,
                                     ![index].switchInTimer = SwitchInDuration]
                   ELSE [core EXCEPT ![index].state = "OCCUPIED", ![index].node = p,
                                     ![index].quantumTime = 0]
    BY <2>1 DEF PutProcessOnCPU, Assignable
  <2>3. SwitchInDuration > 0 \/ SwitchInDuration = 0
    BY DurationAssumption
  <2>4. c = index => Gets(c, p)
    <3> HIDE DEF p
    <3> QED BY <1>1, <2>2, <2>3 DEF Gets, Core
  <2>5. c # index => core'[c] = core[c]
    BY <1>1, <2>2
  <2> QED BY <2>1, <2>4, <2>5
<1>7. CASE AdvanceSchedulingTime
  BY <1>7 DEF AdvanceSchedulingTime
<1>8. CASE ~ \/ SwitchInDone \/ NewSlice \/ Resume \/ SwitchOutDone \/ Terminate \/ StartIO
             \/ Demote \/ Preempt \/ SwitchOutAfterSlice \/ (\E d \in Cores : InterruptCore(d))
             \/ (\E q \in Queue : PutProcessOnCPU(q)) \/ AdvanceSchedulingTime
  <2>1. core' = core
    BY <1>8, SystemUnchanged DEF Next, StartTick, EndOfWorkload, ProcessArrived, ArrivalsDone,
       AgingNextQueue, AgingDone, AgingKeep, AgingMove, NoProcess, NoEvent, WithinLimit,
       KeepRunning, NoResume, QueuesSizesBeforeRR, SliceContinues, NoInterrupt,
       NoInterruptTime, SkipCore, SkipDisk, PutProcessOnDisk, AdvanceProcessTime,
       FreeComputer, Stop, vars
  <2> QED BY <2>1
<1> QED
  BY <1>2, <1>3, <1>4, <1>5, <1>6, <1>7, <1>8

-----------------------------------------------------------------------------
(* The turnaround that printStats prints *)

(* Times are counted in advanceProcessTime only, and a context switch when *)
(* the process of an OCCUPIED core leaves it.                              *)
LEMMA StatsKept ==
  ASSUME Inv, Owned, Next, ~AdvanceProcessTime, NEW p \in Procs
  PROVE  /\ stats'[p].waitingTime = stats[p].waitingTime
         /\ ~ProcessArrived(p) => stats'[p].arrivalTime = stats[p].arrivalTime
         /\ \/ stats'[p].nbContextSwitches = stats[p].nbContextSwitches
            \/ /\ stats'[p].nbContextSwitches = stats[p].nbContextSwitches + 1
               /\ p = core[index].node /\ index \in Cores \ Leaving
               /\ core[index].state = "OCCUPIED" /\ LetsGo(index)
<1>1. stats \in [Procs -> ProcessStats] /\ stats[p] \in ProcessStats
  BY DEF Inv, TypeOK
<1> DEFINE Same == /\ stats'[p].waitingTime = stats[p].waitingTime
                   /\ stats'[p].arrivalTime = stats[p].arrivalTime
                   /\ stats'[p].nbContextSwitches = stats[p].nbContextSwitches
<1>2. ASSUME NEW o, stats' = [stats EXCEPT ![o].nbContextSwitches = @ + 1]
      PROVE  /\ stats'[p].waitingTime = stats[p].waitingTime
             /\ stats'[p].arrivalTime = stats[p].arrivalTime
             /\ stats'[p].nbContextSwitches =
                  IF p = o THEN stats[p].nbContextSwitches + 1 ELSE stats[p].nbContextSwitches
  BY <1>1, <1>2 DEF ProcessStats
<1>3. CASE \E o \in Procs : ProcessArrived(o)
  <2>1. PICK o \in Procs : ProcessArrived(o)
    BY <1>3
  <2>2. stats' = [stats EXCEPT ![o].arrivalTime = time]
    BY <2>1 DEF ProcessArrived
  <2>3. /\ stats'[p].waitingTime = stats[p].waitingTime
        /\ o # p => stats'[p].arrivalTime = stats[p].arrivalTime
        /\ stats'[p].nbContextSwitches = stats[p].nbContextSwitches
    BY <1>1, <2>2 DEF ProcessStats
  <2> QED BY <2>1, <2>3
<1>4. CASE Terminate
  <2>1. \E o, n : stats' = [stats EXCEPT ![o].finishTime = time, ![o].turnaroundTime = n]
    BY <1>4 DEF Terminate
  <2>2. Same
    BY <1>1, <2>1 DEF ProcessStats
  <2> QED BY <2>2
<1>5. CASE StartIO
  <2>1. stats' = [stats EXCEPT ![core[index].node].nbContextSwitches = @ + 1]
    BY <1>5 DEF StartIO
  <2>2. /\ index \in Cores \ Leaving /\ core[index].node \in Procs
        /\ Left[core[index].node] = 0
    BY <1>5, StartIOInTime
  <2>3. core[index].state = "OCCUPIED"
    BY <2>2 DEF Owned, InTime
  <2>4. LetsGo(index)
    <3>1. TypeOK /\ core \in [Cores -> Core] /\ core[index] \in Core
      BY <2>2 DEF Inv, TypeOK
    <3>2. \/ core' = [core EXCEPT ![index].state = "SWITCH_OUT",
                                  ![index].switchOutTimer = SwitchOutDuration,
                                  ![index].continueOnCPU = FALSE]
          \/ core' = [core EXCEPT ![index].state = "IDLE", ![index].node = NULL,
                                  ![index].continueOnCPU = FALSE]
      BY <1>5 DEF StartIO
    <3> QED BY <2>2, <3>1, <3>2 DEF Core, LetsGo
  <2> QED BY <1>2, <2>1, <2>2, <2>3, <2>4
<1>6. CASE Demote \/ Preempt \/ SwitchOutAfterSlice
  <2>1. stats' = stats \/ SwitchesOut
    BY <1>6 DEF Demote, Preempt, SwitchOutAfterSlice, SwitchesOut
  <2>2. CASE stats' = stats
    BY <2>2
  <2>3. CASE SwitchesOut
    <3>1. stats' = [stats EXCEPT ![core[index].node].nbContextSwitches = @ + 1]
      BY <2>3 DEF SwitchesOut, SwitchOutReady
    <3>2. index \in Cores /\ core[index].state = "OCCUPIED"
      BY <1>6 DEF Demote, Preempt, SwitchOutAfterSlice, SliceOver, At, Inv, IndexOK
    <3>3. index \notin Leaving
      BY <3>2 DEF Leaving, LeavesForIO
    <3>4. LetsGo(index)
      <4>1. TypeOK /\ core \in [Cores -> Core] /\ core[index] \in Core
        BY <3>2 DEF Inv, TypeOK
      <4>2. \/ core' = [core EXCEPT ![index].state = "SWITCH_OUT",
                                    ![index].switchOutTimer = SwitchOutDuration,
                                    ![index].continueOnCPU = TRUE]
            \/ core' = [core EXCEPT ![index].state = "IDLE", ![index].node = NULL]
        BY <2>3 DEF SwitchesOut, SwitchOutReady
      <4> QED BY <3>2, <4>1, <4>2 DEF Core, LetsGo
    <3> QED BY <1>2, <3>1, <3>2, <3>3, <3>4
  <2> QED BY <2>1, <2>2, <2>3
<1>7. CASE ~ \/ \E o \in Procs : ProcessArrived(o)
             \/ Terminate \/ StartIO \/ Demote \/ Preempt \/ SwitchOutAfterSlice
  <2>1. stats' = stats
    BY <1>7, SystemUnchanged DEF Next, StartTick, EndOfWorkload, ArrivalsDone,
       AgingNextQueue, AgingDone, AgingKeep, AgingMove, NoProcess, SwitchInDone,
       SwitchOutDone, NoEvent, WithinLimit, KeepRunning, Resume, NoResume,
       QueuesSizesBeforeRR, SliceContinues, NewSlice, NoInterrupt, InterruptCore,
       NoInterruptTime, SkipCore, PutProcessOnCPU, SkipDisk, PutProcessOnDisk,
       AdvanceSchedulingTime, FreeComputer, Stop, vars
  <2> QED BY <2>1
<1> QED
  BY <1>3, <1>4, <1>5, <1>6, <1>7

\* A core that executes its process, or switches it in, or goes back to that
\* after an interrupt.
OnCore(c) ==
  core[c].node \in Procs /\ core[c].state # "SWITCH_OUT" /\ core[c].switchOutTimer = 0

\* The time accounted for so far, since the arrival of p, and since core c got p.
Spent(p) ==
  proc[p].advancementTime + stats[p].waitingTime
    + SwitchInDuration * stats[p].nbContextSwitches
Elapsed(p) == time - stats[p].arrivalTime + (IF phase = "advanceScheduling" THEN 1 ELSE 0)
SwitchedInFor(c) ==
  SwitchInDuration - core[c].switchInTimer
    + (IF phase = "advanceScheduling" /\ core[c].state = "SWITCH_IN" THEN 1 ELSE 0)

\* No time unit is accounted for twice.
Accounted(p) ==
  /\ ~Arrived(p) => stats[p].waitingTime = 0 /\ stats[p].nbContextSwitches = 0
  /\ Living(p) =>
       /\ Spent(p) <= Elapsed(p)
       /\ \A c \in Cores :
            OnCore(c) /\ core[c].node = p => Spent(p) + SwitchedInFor(c) <= Elapsed(p)

\* Sums with the product by SwitchInDuration.
LEMMA OneMoreSwitch ==
  ASSUME NEW n \in Nat
  PROVE  /\ SwitchInDuration * n \in Nat
         /\ SwitchInDuration * (n + 1) = SwitchInDuration * n + SwitchInDuration
         /\ SwitchInDuration * 0 = 0
BY DurationAssumption

LEMMA AccountNumbers ==
  ASSUME TypeOK, NEW p \in Procs
  PROVE  /\ Spent(p) \in Int /\ Elapsed(p) \in Int /\ time \in Nat
         /\ stats[p].arrivalTime \in Nat /\ stats[p].waitingTime \in Nat
         /\ stats[p].nbContextSwitches \in Nat /\ proc[p].advancementTime \in Nat
         /\ SwitchInDuration * stats[p].nbContextSwitches \in Nat
         /\ SwitchInDuration \in Nat
         /\ \A c \in Cores : SwitchedInFor(c) \in Int /\ core[c].switchInTimer \in Int
<1>1. stats[p] \in ProcessStats /\ proc[p] \in Process /\ time \in Nat
  BY DEF TypeOK
<1>2. /\ stats[p].arrivalTime \in Nat /\ stats[p].waitingTime \in Nat
      /\ stats[p].nbContextSwitches \in Nat /\ proc[p].advancementTime \in Nat
  BY <1>1 DEF ProcessStats, Process
<1>3. SwitchInDuration * stats[p].nbContextSwitches \in Nat
  BY <1>2, OneMoreSwitch
<1>4. SwitchInDuration \in Nat /\ \A c \in Cores : core[c].switchInTimer \in Int
  BY DurationAssumption DEF TypeOK, Core
<1> QED
  BY <1>1, <1>2, <1>3, <1>4 DEF Spent, Elapsed, SwitchedInFor

(* The time of a process on a core goes on, or begins when it gets the     *)
(* core.                                                                   *)
LEMMA OnCoreKept ==
  ASSUME Inv, Owned, Next, ~AdvanceSchedulingTime, NEW c \in Cores, OnCore(c)'
  PROVE  \/ /\ OnCore(c) /\ core'[c].node = core[c].node
            /\ core'[c].switchInTimer = core[c].switchInTimer
            /\ c = index => ~LetsGo(index)
         \/ /\ core[c].state = "IDLE" /\ core'[c].switchInTimer = SwitchInDuration
            /\ c = index
<1>1. core[c] \in Core /\ Timers
  BY DEF Inv, TypeOK, Owned
<1>2. ~LetsGo(c)
  <2>1. SUFFICES ASSUME LetsGo(c) PROVE FALSE
    OBVIOUS
  <2>2. core'[c].node = NULL \/ core'[c].state = "SWITCH_OUT"
    <3>1. CASE core'[c] = [core[c] EXCEPT !.state = "IDLE", !.node = NULL]
      BY <1>1, <3>1 DEF Core
    <3>2. CASE core'[c] = [core[c] EXCEPT !.state = "IDLE", !.node = NULL, !.continueOnCPU = FALSE]
      BY <1>1, <3>2 DEF Core
    <3>3. CASE \E b \in BOOLEAN :
            core'[c] = [core[c] EXCEPT !.state = "SWITCH_OUT",
                                       !.switchOutTimer = SwitchOutDuration, !.continueOnCPU = b]
      <4>1. PICK b \in BOOLEAN :
              core'[c] = [core[c] EXCEPT !.state = "SWITCH_OUT",
                                       !.switchOutTimer = SwitchOutDuration, !.continueOnCPU = b]
        BY <3>3
      <4> QED BY <1>1, <4>1 DEF Core
    <3> QED BY <2>1, <3>1, <3>2, <3>3 DEF LetsGo
  <2> QED BY <2>2, NullIsNoProcess DEF OnCore
<1>3. CASE core'[c] = core[c]
  BY <1>2, <1>3 DEF OnCore
<1>4. CASE c = index /\ SwitchInDone
           /\ core'[c] = [core[c] EXCEPT !.state = "OCCUPIED", !.quantumTime = 0]
  <2>1. core[c].state = "SWITCH_IN"
    BY <1>4 DEF SwitchInDone, SwitchedIn
  <2> QED BY <1>1, <1>2, <1>4, <2>1 DEF Core, OnCore
<1>5. CASE c = index /\ Resume
           /\ core'[c] = [core[c] EXCEPT !.state = StateBeforeInterrupt(c)]
  <2>1. core[c].state = "INTERRUPTED"
    BY <1>5 DEF Resume, InterruptOver
  <2> QED BY <1>1, <1>2, <1>5, <2>1 DEF Core, OnCore
<1>6. CASE c = index /\ NewSlice /\ core'[c] = [core[c] EXCEPT !.quantumTime = 0]
  BY <1>1, <1>2, <1>6 DEF Core, OnCore
<1>7. CASE InterruptCore(c) /\ core'[c] = [core[c] EXCEPT !.state = "INTERRUPTED",
                                                         !.interruptTimer = InterruptTime]
  <2>1. core[c].state # "SWITCH_OUT"
    <3>1. SUFFICES ASSUME core[c].state = "SWITCH_OUT" PROVE FALSE
      OBVIOUS
    <3>2. Handled(c) /\ HandledInTime
      BY <1>7 DEF InterruptCore, At, Handled, Owned
    <3>3. core[c].switchOutTimer >= 1
      BY <3>1, <3>2 DEF HandledInTime
    <3>4. core'[c].switchOutTimer = core[c].switchOutTimer
      BY <1>1, <1>7 DEF Core
    <3> QED BY <1>1, <3>3, <3>4 DEF OnCore
  <2> QED BY <1>1, <1>2, <1>7, <2>1 DEF Core, OnCore
<1>8. CASE c = index /\ \E q \in Queue : /\ PutProcessOnCPU(q)
                                         /\ Gets(c, TopNode(readyQueues[q]))
  <2>1. PICK p : Gets(c, p)
    BY <1>8
  <2>2. core[c].state = "IDLE" /\ core[c].switchInTimer = 0
    BY <1>1, <2>1 DEF Gets, Timers
  <2>3. core'[c].switchInTimer = SwitchInDuration
    BY <1>1, <2>1, <2>2 DEF Gets, Core
  <2> QED BY <1>8, <2>2, <2>3
<1> QED
  BY <1>2, <1>3, <1>4, <1>5, <1>6, <1>7, <1>8, CoreSteps

(* In a time unit one of the accounts grows at most by one, and none while *)
(* the process is switched in.                                             *)
LEMMA UnitSpent ==
  ASSUME Inv, Owned, AdvanceProcessTime, NEW p \in Procs
  PROVE  /\ Spent(p)' <= Spent(p) + 1
         /\ (\E c \in Cores : core[c].node = p /\ core[c].state = "SWITCH_IN") =>
              Spent(p)' = Spent(p)
         /\ stats'[p].arrivalTime = stats[p].arrivalTime
         /\ stats'[p].nbContextSwitches = stats[p].nbContextSwitches
         /\ stats'[p].waitingTime # stats[p].waitingTime => p \in Ready
<1>1. TypeOK /\ proc[p] \in Process /\ stats[p] \in ProcessStats
  BY DEF Inv, TypeOK
<1>2. proc'[p].advancementTime = IF Progresses(p) THEN proc[p].advancementTime + 1
                                 ELSE proc[p].advancementTime
  BY <1>1 DEF AdvanceProcessTime, Process
<1> DEFINE waits == /\ proc[p].state = "READY" /\ workload[p].startTime <= time
                    /\ InReadyQueues(p)
<1>3. /\ stats'[p].waitingTime = IF waits THEN stats[p].waitingTime + 1
                                 ELSE stats[p].waitingTime
      /\ stats'[p].arrivalTime = stats[p].arrivalTime
      /\ stats'[p].nbContextSwitches = stats[p].nbContextSwitches
  <2>1. stats'[p] = CASE waits -> [stats[p] EXCEPT !.waitingTime = @ + 1]
                      [] proc[p].state = "RUNNING" -> [stats[p] EXCEPT !.cpuTime = @ + 1]
                      [] OTHER -> stats[p]
    BY DEF AdvanceProcessTime
  <2>2. waits => proc[p].state # "RUNNING"
    OBVIOUS
  <2> HIDE DEF waits
  <2>3. CASE waits
    BY <1>1, <2>1, <2>2, <2>3 DEF ProcessStats
  <2>4. CASE ~waits /\ proc[p].state = "RUNNING"
    <3>1. stats'[p] = [stats[p] EXCEPT !.cpuTime = @ + 1]
      BY <2>1, <2>4
    <3> QED BY <1>1, <2>4, <3>1 DEF ProcessStats
  <2>5. CASE ~waits /\ proc[p].state # "RUNNING"
    <3>1. stats'[p] = stats[p]
      BY <2>1, <2>5
    <3> QED BY <2>5, <3>1
  <2> QED BY <2>3, <2>4, <2>5
<1>4. waits => ~Progresses(p) /\ p \in Ready
  BY DEF Progresses, InReadyQueues, Ready, InQueues
<1>5. ASSUME NEW c \in Cores, core[c].node = p, core[c].state = "SWITCH_IN"
      PROVE  ~Progresses(p) /\ ~waits
  <2>1. Exclusive /\ States /\ Timers
    BY DEF Owned
  <2>2. c \notin Leaving
    BY <1>5, <2>1 DEF Leaving, LeavesForIO
  <2>3. p \notin InIO /\ p \notin Ready
    BY <1>5, <2>1, <2>2 DEF Exclusive
  <2>4. proc[p].state # "RUNNING"
    <3>1. \A d \in Cores : core[d].node = p => d = c
      BY <1>5, <2>1, NullIsNoProcess DEF Exclusive
    <3> QED BY <1>5, <2>1, <3>1 DEF States, RunningOnOccupiedCore
  <2>5. proc[p].state # "WAITING"
    BY <2>1, <2>3 DEF States
  <2> QED BY <1>4, <2>3, <2>4, <2>5 DEF Progresses
<1> HIDE DEF waits
<1>6. /\ Spent(p) = proc[p].advancementTime + stats[p].waitingTime
                      + SwitchInDuration * stats[p].nbContextSwitches
      /\ Spent(p)' = proc'[p].advancementTime + stats'[p].waitingTime
                      + SwitchInDuration * stats[p].nbContextSwitches
  BY <1>3 DEF Spent
<1> DEFINE S == SwitchInDuration * stats[p].nbContextSwitches
<1>7. S \in Nat /\ proc[p].advancementTime \in Nat /\ stats[p].waitingTime \in Nat
  BY <1>1, AccountNumbers
<1> HIDE DEF S
<1>8. /\ Spent(p) = proc[p].advancementTime + stats[p].waitingTime + S
      /\ Spent(p)' = proc'[p].advancementTime + stats'[p].waitingTime + S
  BY <1>6 DEF S
<1>9. Spent(p)' <= Spent(p) + 1
  BY <1>2, <1>3, <1>4, <1>7, <1>8
<1>10. (\E c \in Cores : core[c].node = p /\ core[c].state = "SWITCH_IN") =>
         Spent(p)' = Spent(p)
  BY <1>2, <1>3, <1>5, <1>7, <1>8
<1> QED
  BY <1>3, <1>4, <1>9, <1>10

\* The accounts are numbers.
Counted ==
  \A p \in Procs : /\ Spent(p) \in Int /\ Elapsed(p) \in Int
                   /\ \A c \in Cores : SwitchedInFor(c) \in Int

LEMMA AccountsAreNumbers ==
  TypeOK => Counted
BY AccountNumbers DEF Counted

LEMMA AccountsAfterAreNumbers ==
  TypeOK' => Counted'
BY AccountsAreNumbers, PTL

(* Nothing is accounted for before a process arrives.                      *)
LEMMA NothingBefore ==
  ASSUME Inv, Owned, Next, NEW p \in Procs, Accounted(p), ~Arrived(p)'
  PROVE  stats'[p].waitingTime = 0 /\ stats'[p].nbContextSwitches = 0
<1>1. ~ProcessArrived(p)
  <2>1. SUFFICES ASSUME ProcessArrived(p) PROVE FALSE
    OBVIOUS
  <2>2. /\ phase' = "arrival" /\ time' = time /\ index' = p + 1 /\ workload' = workload
        /\ workload[p].startTime = time
    BY <2>1 DEF ProcessArrived, ArrivesNow, Goto, inputs
  <2>3. p < p + 1
    BY DEF Procs
  <2> QED BY <2>2, <2>3 DEF Arrived
<1>2. ~Arrived(p)
  BY <1>1, ArrivedOnce
<1>3. stats[p].waitingTime = 0 /\ stats[p].nbContextSwitches = 0
  BY <1>2 DEF Accounted
<1>4. p \notin Ready /\ p \notin InCPU
  <2>1. ~Living(p)
    BY <1>2 DEF Living
  <2>2. p \notin InIO \cup InCPU
    BY <2>1 DEF Owned, Alive
  <2> QED BY <2>2 DEF InCPU
<1>5. CASE AdvanceProcessTime
  BY <1>3, <1>4, <1>5, UnitSpent
<1>6. CASE ~AdvanceProcessTime
  <2>1. ~(p = core[index].node /\ index \in Cores \ Leaving)
    BY <1>4 DEF InCPU
  <2> QED BY <1>3, <1>6, <2>1, StatsKept
<1> QED
  BY <1>5, <1>6

(* A process arrives with nothing accounted for.                           *)
LEMMA ArrivesAccounted ==
  ASSUME Inv, Owned, NEW p \in Procs, ProcessArrived(p), Accounted(p)
  PROVE  Accounted(p)'
<1>1. TypeOK /\ proc[p] \in Process /\ stats \in [Procs -> ProcessStats] /\ time \in Nat
      /\ stats[p] \in ProcessStats
  BY DEF Inv, TypeOK
<1>2. ~Arrived(p)
  BY <1>1 DEF ProcessArrived, ArrivesNow, At, Arrived, TypeOK, Procs
<1>3. /\ stats[p].waitingTime = 0 /\ stats[p].nbContextSwitches = 0
      /\ proc[p].advancementTime = 0
  <2>1. proc[p] = [state |-> "READY", nextEvents |-> workload[p].events, advancementTime |-> 0]
    BY <1>2 DEF Owned, Alive
  <2> QED BY <1>2, <2>1 DEF Accounted
<1>4. /\ stats'[p].waitingTime = 0 /\ stats'[p].nbContextSwitches = 0
      /\ stats'[p].arrivalTime = time /\ time' = time /\ phase' = "arrival"
      /\ core' = core
  <2>1. stats' = [stats EXCEPT ![p].arrivalTime = time]
    BY DEF ProcessArrived
  <2>2. stats'[p] = [stats[p] EXCEPT !.arrivalTime = time]
    BY <1>1, <2>1
  <2> QED BY <1>1, <1>3, <2>2 DEF ProcessStats, ProcessArrived, Goto
<1>5. proc'[p].advancementTime = 0
  <2>1. ~AdvanceProcessTime
    BY DEF ProcessArrived, AdvanceProcessTime, At
  <2>2. Next
    BY DEF Next
  <2> QED BY <1>3, <2>1, <2>2, OnlyStateChanges
<1>6. Spent(p)' = 0
  BY <1>4, <1>5, OneMoreSwitch DEF Spent
<1>7. Elapsed(p)' = 0
  BY <1>1, <1>4 DEF Elapsed
<1>8. \A c \in Cores : core'[c].node # p
  <2>1. ~Living(p)
    BY <1>2 DEF Living
  <2>2. p \notin InIO /\ p \notin InCPU
    BY <2>1 DEF Owned, Alive
  <2> QED BY <1>4, <2>2, OwnedByNobody
<1> QED
  BY <1>4, <1>6, <1>7, <1>8 DEF Accounted

(* Every step of a living process is accounted for within the time.        *)
LEMMA AccountedKept ==
  ASSUME Inv, Inv', Owned, Next, ~Stop, NEW p \in Procs, Accounted(p)
  PROVE  Accounted(p)'
<1>1. TypeOK /\ TypeOK' /\ Timers /\ Exclusive
  BY DEF Inv, Owned
<1>2. CASE ProcessArrived(p)
  BY <1>2, ArrivesAccounted
<1>3. CASE ~ProcessArrived(p) /\ ~Living(p)'
  BY <1>3, NothingBefore DEF Accounted, Living
<1>4. CASE ~ProcessArrived(p) /\ Living(p)'
  <2>1. Arrived(p)' /\ Arrived(p) /\ proc[p].state # "TERMINATED"
    BY <1>4, ArrivedOnce, TerminatedStays DEF Living
  <2>2. /\ Spent(p) <= Elapsed(p)
        /\ \A c \in Cores :
             OnCore(c) /\ core[c].node = p => Spent(p) + SwitchedInFor(c) <= Elapsed(p)
    BY <2>1 DEF Accounted, Living
  <2>3. /\ Spent(p) \in Int /\ Elapsed(p) \in Int /\ SwitchInDuration \in Nat
        /\ Spent(p)' \in Int /\ Elapsed(p)' \in Int /\ time \in Nat
        /\ stats[p].arrivalTime \in Nat
        /\ \A c \in Cores : /\ SwitchedInFor(c) \in Int /\ SwitchedInFor(c)' \in Int
                            /\ core[c].switchInTimer \in Int
    <3>1. Spent(p)' \in Int /\ Elapsed(p)' \in Int /\ \A c \in Cores : SwitchedInFor(c)' \in Int
      BY <1>1, AccountsAfterAreNumbers DEF Counted
    <3> QED BY <1>1, <3>1, AccountNumbers
  <2>4. SUFFICES /\ Spent(p)' <= Elapsed(p)'
                 /\ \A c \in Cores : OnCore(c)' /\ core'[c].node = p =>
                      Spent(p)' + SwitchedInFor(c)' <= Elapsed(p)'
    BY <2>1 DEF Accounted
  <2>5. CASE AdvanceProcessTime
    <3>1. /\ phase = "advanceProcesses" /\ phase' = "advanceScheduling" /\ time' = time
          /\ core' = core
      BY <2>5 DEF AdvanceProcessTime, At, Goto
    <3>2. /\ Spent(p)' <= Spent(p) + 1
          /\ (\E c \in Cores : core[c].node = p /\ core[c].state = "SWITCH_IN") =>
               Spent(p)' = Spent(p)
          /\ stats'[p].arrivalTime = stats[p].arrivalTime
      BY <2>5, UnitSpent
    <3>3. Elapsed(p)' = Elapsed(p) + 1
      BY <2>3, <3>1, <3>2 DEF Elapsed
    <3>4. \A c \in Cores :
            SwitchedInFor(c)' = IF core[c].state = "SWITCH_IN" THEN SwitchedInFor(c) + 1
                                ELSE SwitchedInFor(c)
      BY <2>3, <3>1 DEF SwitchedInFor
    <3>5. ASSUME NEW c \in Cores, OnCore(c)', core'[c].node = p
          PROVE  Spent(p)' + SwitchedInFor(c)' <= Elapsed(p)'
      <4>1. OnCore(c) /\ core[c].node = p
        BY <3>1, <3>5 DEF OnCore
      <4> QED BY <2>2, <2>3, <3>2, <3>3, <3>4, <4>1
    <3> QED BY <2>2, <2>3, <3>2, <3>3, <3>5
  <2>6. CASE AdvanceSchedulingTime
    <3>1. /\ phase = "advanceScheduling" /\ phase' # "advanceScheduling" /\ time' = time + 1
          /\ proc' = proc /\ stats' = stats /\ \A c \in Cores : core'[c] = AdvanceTimers(c)
      BY <2>6 DEF AdvanceSchedulingTime, At, Goto
    <3>2. Spent(p)' = Spent(p) /\ Elapsed(p)' = Elapsed(p)
      BY <2>3, <3>1 DEF Spent, Elapsed
    <3>3. ASSUME NEW c \in Cores, OnCore(c)', core'[c].node = p
          PROVE  Spent(p)' + SwitchedInFor(c)' <= Elapsed(p)'
      <4>1. core[c] \in Core /\ core'[c] = AdvanceTimers(c)
        BY <1>1, <3>1 DEF TypeOK
      <4>2. /\ core'[c].node = core[c].node /\ core'[c].state = core[c].state
            /\ core[c].state # "SWITCH_OUT" =>
                 /\ core'[c].switchOutTimer = core[c].switchOutTimer
                 /\ core'[c].switchInTimer = IF core[c].state = "SWITCH_IN"
                                             THEN core[c].switchInTimer - 1
                                             ELSE core[c].switchInTimer
        BY <4>1 DEF AdvanceTimers, Core, CoreStates
      <4>3. OnCore(c) /\ core[c].node = p
        BY <3>3, <4>2 DEF OnCore
      <4>4. SwitchedInFor(c)' = SwitchedInFor(c)
        BY <2>3, <3>1, <4>2, <4>3 DEF SwitchedInFor, OnCore
      <4> QED BY <2>2, <3>2, <4>3, <4>4
    <3> QED BY <2>2, <3>2, <3>3
  <2>7. CASE ~AdvanceProcessTime /\ ~AdvanceSchedulingTime
    <3>1. phase # "advanceScheduling" /\ phase' # "advanceScheduling" /\ time' = time
      BY <2>7 DEF Next, At, Goto, NextCore, PreviousCore, NextIdleCore, StartTick,
         EndOfWorkload, ProcessArrived, ArrivalsDone,
         AgingNextQueue, AgingDone, AgingKeep, AgingMove, NoProcess, SwitchInDone,
         SwitchOutDone, Terminate, StartIO, NoEvent, WithinLimit, Demote, Preempt,
         KeepRunning, Resume, NoResume, QueuesSizesBeforeRR, SliceContinues,
         SwitchOutAfterSlice, NewSlice, NoInterrupt, InterruptCore, NoInterruptTime,
         SkipCore, PutProcessOnCPU, SkipDisk, PutProcessOnDisk, FreeComputer, Stop, vars
    <3>2. /\ stats'[p].waitingTime = stats[p].waitingTime
          /\ stats'[p].arrivalTime = stats[p].arrivalTime
          /\ proc'[p].advancementTime = proc[p].advancementTime
      BY <1>4, <2>7, StatsKept, OnlyStateChanges
    <3>3. Elapsed(p)' = Elapsed(p)
      BY <3>1, <3>2 DEF Elapsed
    <3>4. \A c \in Cores : /\ SwitchedInFor(c) = SwitchInDuration - core[c].switchInTimer
                           /\ SwitchedInFor(c)' = SwitchInDuration - core'[c].switchInTimer
      <4>1. \A c \in Cores : core'[c].switchInTimer \in Int
        BY <1>1 DEF TypeOK, Core
      <4> QED BY <2>3, <3>1, <4>1 DEF SwitchedInFor
    <3>5. CASE stats'[p].nbContextSwitches = stats[p].nbContextSwitches
      <4>1. Spent(p)' = Spent(p)
        BY <3>2, <3>5 DEF Spent
      <4>2. ASSUME NEW c \in Cores, OnCore(c)', core'[c].node = p
            PROVE  Spent(p)' + SwitchedInFor(c)' <= Elapsed(p)'
        <5>1. CASE /\ OnCore(c) /\ core'[c].node = core[c].node
                   /\ core'[c].switchInTimer = core[c].switchInTimer
          BY <2>2, <3>3, <3>4, <4>1, <4>2, <5>1
        <5>2. CASE core'[c].switchInTimer = SwitchInDuration
          BY <2>2, <2>3, <3>3, <3>4, <4>1, <5>2
        <5> QED BY <2>7, <4>2, <5>1, <5>2, OnCoreKept
      <4> QED BY <2>2, <3>3, <4>1, <4>2
    <3>6. CASE /\ stats'[p].nbContextSwitches = stats[p].nbContextSwitches + 1
               /\ p = core[index].node /\ index \in Cores \ Leaving
               /\ core[index].state = "OCCUPIED" /\ LetsGo(index)
      <4>1. Spent(p)' = Spent(p) + SwitchInDuration
        <5> DEFINE n == stats[p].nbContextSwitches
        <5>1. /\ n \in Nat /\ proc[p].advancementTime \in Nat /\ stats[p].waitingTime \in Nat
              /\ SwitchInDuration * n \in Nat
          BY <1>1, AccountNumbers
        <5>2. SwitchInDuration * (n + 1) = SwitchInDuration * n + SwitchInDuration
          BY <5>1, OneMoreSwitch
        <5>3. stats'[p].nbContextSwitches = n + 1
          BY <3>6
        <5>4. Spent(p)' = proc[p].advancementTime + stats[p].waitingTime
                            + SwitchInDuration * (n + 1)
          BY <3>2, <5>3 DEF Spent
        <5>5. Spent(p) = proc[p].advancementTime + stats[p].waitingTime + SwitchInDuration * n
          BY DEF Spent
        <5> DEFINE s == SwitchInDuration * n
                   t == SwitchInDuration * (n + 1)
        <5>6. t = s + SwitchInDuration /\ s \in Nat
          BY <5>1, <5>2
        <5>7. /\ Spent(p)' = proc[p].advancementTime + stats[p].waitingTime + t
              /\ Spent(p) = proc[p].advancementTime + stats[p].waitingTime + s
          BY <5>4, <5>5
        <5> HIDE DEF s, t, n
        <5> QED BY <2>3, <5>1, <5>6, <5>7
      <4>2. OnCore(index) /\ SwitchedInFor(index) = SwitchInDuration
        <5>1. core[index].switchInTimer = 0 /\ core[index].switchOutTimer = 0
          BY <1>1, <3>6 DEF Timers
        <5> QED BY <2>3, <3>4, <3>6, <5>1 DEF OnCore
      <4>3. Spent(p)' <= Elapsed(p)'
        BY <2>2, <3>3, <3>6, <4>1, <4>2
      <4>4. ASSUME NEW c \in Cores, OnCore(c)', core'[c].node = p
            PROVE  FALSE
        <5>1. CASE c = index
          BY <2>7, <3>6, <4>4, <5>1, OnCoreKept
        <5>2. CASE c # index
          <6>1. core'[c].node = core[c].node
            BY <2>7, <4>4, <5>2, OnCoreKept
          <6> QED BY <1>1, <3>6, <4>4, <5>2, <6>1, NullIsNoProcess DEF Exclusive
        <5> QED BY <5>1, <5>2
      <4> QED BY <4>3, <4>4
    <3> QED BY <1>4, <2>7, <3>5, <3>6, StatsKept
  <2> QED BY <2>5, <2>6, <2>7
<1> QED
  BY <1>2, <1>3, <1>4

(* A process that terminates has executed to the end since it got its      *)
(* core: that switch-in is the last one.                                   *)
LEMMA TurnaroundAtEnd ==
  ASSUME Inv, Owned, Terminate, NEW p \in Procs, p = core[index].node, Accounted(p)
  PROVE  stats'[p].turnaroundTime >=
           workload[p].processDuration + stats'[p].waitingTime
             + SwitchInDuration * (stats'[p].nbContextSwitches + 1)
<1>1. /\ TypeOK /\ phase = "event" /\ stats[p] \in ProcessStats
      /\ stats \in [Procs -> ProcessStats] /\ index \in Cores
  BY DEF Inv, TypeOK, Terminate, At, IndexOK
<1>2. /\ core[index].state = "OCCUPIED" /\ index \in Cores \ Leaving
      /\ proc[p].advancementTime = workload[p].processDuration /\ Living(p)
  <2>1. /\ core[index].state = "OCCUPIED"
        /\ proc[p].advancementTime = workload[p].processDuration
    BY TerminatedInTime
  <2>2. index \notin Leaving
    BY <2>1 DEF Leaving, LeavesForIO
  <2>3. p \in InCPU
    BY <1>1, <2>2 DEF InCPU
  <2> QED BY <1>1, <2>1, <2>2, <2>3 DEF Owned, Alive
<1>3. core[index].switchInTimer = 0 /\ core[index].switchOutTimer = 0
  BY <1>2 DEF Owned, Timers
<1>4. OnCore(index) /\ SwitchedInFor(index) = SwitchInDuration
  BY <1>1, <1>2, <1>3, DurationAssumption DEF OnCore, SwitchedInFor
<1>5. Spent(p) + SwitchInDuration <= time - stats[p].arrivalTime
  <2>1. Spent(p) + SwitchInDuration <= Elapsed(p)
    BY <1>2, <1>4 DEF Accounted
  <2> QED BY <1>1, <2>1, AccountNumbers DEF Elapsed
<1>6. /\ stats'[p].turnaroundTime = time - stats[p].arrivalTime
      /\ stats'[p].waitingTime = stats[p].waitingTime
      /\ stats'[p].nbContextSwitches = stats[p].nbContextSwitches
  <2>1. stats' = [stats EXCEPT ![p].finishTime = time,
                               ![p].turnaroundTime = time - stats[p].arrivalTime]
    BY DEF Terminate
  <2> QED BY <1>1, <2>1 DEF ProcessStats
<1> DEFINE n == stats[p].nbContextSwitches
           s == SwitchInDuration * n
           t == SwitchInDuration * (n + 1)
<1>7. n \in Nat /\ s \in Nat /\ t = s + SwitchInDuration
  BY <1>1, AccountNumbers, OneMoreSwitch
<1>8. Spent(p) = workload[p].processDuration + stats[p].waitingTime + s
  BY <1>2 DEF Spent
<1>9. stats'[p].nbContextSwitches + 1 = n + 1
  BY <1>6
<1>10. SUFFICES time - stats[p].arrivalTime >=
                  workload[p].processDuration + stats[p].waitingTime + t
  BY <1>6, <1>9
<1>11. /\ time \in Nat /\ stats[p].arrivalTime \in Nat /\ stats[p].waitingTime \in Nat
       /\ SwitchInDuration \in Nat /\ workload[p].processDuration \in Nat
  BY <1>1, <1>2, AccountNumbers
<1> HIDE DEF n, s, t
<1> QED
  BY <1>5, <1>7, <1>8, <1>11

(* The turnaround of a terminated process covers its bursts, its waiting   *)
(* time, and one switch-in more than its context switches.                 *)
THEOREM TurnaroundIsCovered ==
  ASSUME GoodInputs
  PROVE  Spec => []TurnaroundCoversAll
<1> DEFINE Account == TurnaroundCoversAll /\ \A p \in Procs : Accounted(p)
           Known == Inv /\ Context /\ Kept
<1>1. Init => Account
  <2>1. SUFFICES ASSUME Init, NEW p \in Procs
        PROVE  Accounted(p) /\ proc[p].state # "TERMINATED"
    BY DEF TurnaroundCoversAll
  <2>2. ~Arrived(p)
    BY <2>1, NobodyArrived
  <2>3. /\ stats[p].waitingTime = 0 /\ stats[p].nbContextSwitches = 0
        /\ proc[p].state # "TERMINATED"
    BY <2>1 DEF Init, initStats
  <2> QED BY <2>2, <2>3 DEF Accounted, Living
<1>2. Known /\ Known' /\ Account /\ [Next]_vars => Account'
  <2>1. SUFFICES ASSUME Known, Known', Account, [Next]_vars PROVE Account'
    OBVIOUS
  <2>2. CASE UNCHANGED vars \/ Stop
    <3>1. UNCHANGED <<workload, proc, stats, core, time, phase, index>>
      BY <2>2 DEF Stop, vars, system, inputs
    <3>2. TurnaroundCoversAll'
      BY <2>1, <3>1 DEF TurnaroundCoversAll
    <3>3. \A p \in Procs : Accounted(p)'
      BY <2>1, <3>1 DEF Accounted, Arrived, Living, Spent, Elapsed, OnCore, SwitchedInFor
    <3> QED BY <3>2, <3>3
  <2>3. CASE Next /\ ~Stop
    <3>1. Owned /\ workload' = workload
      BY <2>1, <2>3, RunningIsOwned, WorkloadKept
    <3>2. \A p \in Procs : Accounted(p)'
      BY <2>1, <2>3, <3>1, AccountedKept
    <3>3. ASSUME NEW p \in Procs, proc'[p].state = "TERMINATED"
          PROVE  stats'[p].turnaroundTime >=
                   workload[p].processDuration + stats'[p].waitingTime
                     + SwitchInDuration * (stats'[p].nbContextSwitches + 1)
      <4>1. CASE proc[p].state = "TERMINATED"
        BY <2>1, <2>3, <3>1, <4>1, TerminatedStays DEF TurnaroundCoversAll
      <4>2. CASE proc[p].state # "TERMINATED"
        <5>1. Terminate
          BY <2>1, <2>3, <3>3, <4>2, OnlyTerminateTerminates
        <5>2. proc' = [proc EXCEPT ![core[index].node].state = "TERMINATED"]
          BY <5>1 DEF Terminate
        <5>3. p = core[index].node
          BY <2>1, <3>3, <4>2, <5>2 DEF Inv, TypeOK
        <5> QED BY <2>1, <3>1, <5>1, <5>3, TurnaroundAtEnd
      <4> QED BY <4>1, <4>2
    <3>4. TurnaroundCoversAll'
      BY <3>1, <3>3 DEF TurnaroundCoversAll
    <3> QED BY <3>2, <3>4
  <2> QED BY <2>1, <2>2, <2>3
<1>3. Account => TurnaroundCoversAll
  OBVIOUS
<1>4. Spec => []Known
  BY Invariance, ContextInvariance, Ownership, PTL
<1> HIDE DEF Known, Account
<1> QED
  BY <1>1, <1>2, <1>3, <1>4, PTL DEF Spec
=============================================================================
