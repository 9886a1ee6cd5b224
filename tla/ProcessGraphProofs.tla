------------------------- MODULE ProcessGraphProofs -------------------------
(***************************************************************************)
(* The graph agrees with the statistics, no two processes are drawn on one *)
(* core at one time, and the row of the disk shows the I/O bursts, for any *)
(* number of processes, cores and queues, all options and durations, and   *)
(* all input files like those of test_files.                               *)
(*                                                                         *)
(* What is printed repeats the symbol of an event until the next one, so a *)
(* column depends on the last event before it.  By GraphOK all events of a *)
(* row are of earlier time units: one more event changes no column that is *)
(* there already, and the new column shows what the process does in this   *)
(* time unit.  By Agrees, for each process, so many columns show a core as *)
(* the statistics count; one is added exactly when they count one more.    *)
(***************************************************************************)
EXTENDS ProcessGraph, ProcessLifeProofs

\* The events of a row.
Drawn == [symbol : Nat, time : Nat]

-----------------------------------------------------------------------------
(* The symbols *)

(* The symbol of a number is a digit or a letter.                          *)
LEMMA SymbolOf ==
  ASSUME NEW i \in Nat
  PROVE  IdToSymbol(i) \in Nat /\ IdToSymbol(i) >= 48
BY DEF IdToSymbol

(* 62 numbers in a row have 62 symbols.                                    *)
LEMMA SymbolsDiffer ==
  ASSUME NEW i \in 0..62, NEW j \in 0..62, IdToSymbol(i) = IdToSymbol(j)
  PROVE  i = j \/ {i, j} = {0, 62}
<1> DEFINE code(m) == IF m < 10 THEN 48 + m ELSE IF m < 36 THEN 55 + m ELSE 61 + m
           m1 == i % 62
           m2 == j % 62
<1>1. m1 \in 0..61 /\ m2 \in 0..61
  OBVIOUS
<1>2. code(m1) = code(m2)
  BY DEF IdToSymbol
<1>3. m1 = m2
  <2> HIDE DEF m1, m2
  <2> QED BY <1>1, <1>2
<1>4. /\ i < 62 => m1 = i
      /\ i = 62 => m1 = 0
      /\ j < 62 => m2 = j
      /\ j = 62 => m2 = 0
  OBVIOUS
<1> QED
  BY <1>3, <1>4

-----------------------------------------------------------------------------
(* The rows *)

(* The last of a set of columns.                                           *)
LEMMA MaxIs ==
  ASSUME NEW S \in SUBSET Int, NEW m \in S, \A x \in S : x <= m
  PROVE  Max(S) = m
<1>1. \A x, y \in S : x >= y /\ y >= x => x = y
  OBVIOUS
<1> QED
  BY <1>1 DEF Max

LEMMA GreatestElement ==
  ASSUME NEW n \in Nat, NEW S \in SUBSET (1..n), S # {}
  PROVE  \E m \in S : \A x \in S : x <= m
<1> DEFINE T == {d \in 0..n : n - d \in S}
<1>1. T \in SUBSET Nat /\ \A x \in S : x \in Int /\ n - x \in T
  OBVIOUS
<1>2. T # {}
  BY <1>1
<1>3. PICK d \in T : \A j \in T : d <= j
  <2> HIDE DEF T
  <2> QED BY <1>1, <1>2, LeastElement
<1>4. n - d \in S /\ d \in Nat
  OBVIOUS
<1>5. \A x \in S : x <= n - d
  <2>1. SUFFICES ASSUME NEW x \in S PROVE x <= n - d
    OBVIOUS
  <2>2. d <= n - x
    BY <1>1, <1>3
  <2> QED BY <1>1, <1>4, <2>2
<1> QED
  BY <1>4, <1>5

(* The events of a time unit are drawn behind those of the units before:   *)
(* they change no column that has been drawn, and the last of them is      *)
(* printed in theirs.                                                      *)
LEMMA RowGrows ==
  ASSUME NEW row \in Seq(Drawn), NEW add \in Seq(Drawn), NEW n \in Nat,
         \A k \in 1..Len(row) : row[k].time < n,
         \A k \in 1..Len(add) : add[k].time = n
  PROVE  /\ row \o add \in Seq(Drawn)
         /\ \A k \in 1..Len(row \o add) : (row \o add)[k].time < n + 1
         /\ \A t \in 0..(n - 1) : Printed(row \o add, t) = Printed(row, t)
         /\ add # <<>> => Printed(row \o add, n) = add[Len(add)].symbol
         /\ row = <<>> /\ add = <<>> => Printed(row \o add, n) = SPACE
<1> DEFINE new == row \o add
<1>1. /\ new \in Seq(Drawn) /\ Len(new) = Len(row) + Len(add)
      /\ Len(row) \in Nat /\ Len(add) \in Nat
      /\ \A k \in 1..Len(row) : new[k] = row[k]
      /\ \A k \in (Len(row) + 1)..Len(new) : new[k] = add[k - Len(row)]
  BY ConcatProperties
<1> HIDE DEF new
<1>2. /\ DOMAIN new = 1..Len(new) /\ DOMAIN row = 1..Len(row)
      /\ \A k \in 1..Len(row) : row[k].time \in Nat
      /\ \A k \in 1..Len(new) : new[k].time \in Nat
  <2>1. ASSUME NEW r \in Seq(Drawn)
        PROVE  DOMAIN r = 1..Len(r) /\ \A k \in 1..Len(r) : r[k].time \in Nat
    <3>1. DOMAIN r = 1..Len(r) /\ \A k \in 1..Len(r) : r[k] \in Drawn
      OBVIOUS
    <3> QED BY <3>1 DEF Drawn
  <2> QED BY <1>1, <2>1
<1>3. ASSUME NEW k \in 1..Len(new)
      PROVE  IF k <= Len(row) THEN new[k] = row[k] /\ new[k].time < n ELSE new[k].time = n
  <2>1. CASE k <= Len(row)
    BY <1>1, <2>1
  <2>2. CASE k > Len(row)
    <3>1. k - Len(row) \in 1..Len(add) /\ new[k] = add[k - Len(row)]
      BY <1>1, <2>2
    <3> QED BY <1>1, <2>2, <3>1
  <2> QED BY <1>1, <2>1, <2>2
<1>4. ASSUME NEW t \in 0..(n - 1) PROVE Printed(new, t) = Printed(row, t)
  <2> DEFINE begun(r) == {k \in DOMAIN r : r[k].time <= t}
  <2>1. begun(new) = begun(row)
    BY <1>1, <1>2, <1>3
  <2>2. begun(row) # {} => Max(begun(row)) \in 1..Len(row)
    <3>1. ASSUME begun(row) # {} PROVE \E m \in begun(row) : \A x \in begun(row) : x <= m
      <4>1. begun(row) \in SUBSET (1..Len(row)) /\ begun(row) \in SUBSET Int
        BY <1>2
      <4> HIDE DEF begun
      <4> QED BY <1>1, <3>1, <4>1, GreatestElement
    <3>2. ASSUME NEW m \in begun(row), \A x \in begun(row) : x <= m
          PROVE  Max(begun(row)) = m
      <4>1. begun(row) \in SUBSET Int
        BY <1>2
      <4> HIDE DEF begun
      <4> QED BY <3>2, <4>1, MaxIs
    <3> QED BY <1>2, <3>1, <3>2
  <2>3. begun(row) # {} => new[Max(begun(row))] = row[Max(begun(row))]
    BY <1>1, <2>2
  <2> HIDE DEF begun
  <2>4. /\ Printed(new, t) = IF begun(new) = {} THEN SPACE ELSE new[Max(begun(new))].symbol
        /\ Printed(row, t) = IF begun(row) = {} THEN SPACE ELSE row[Max(begun(row))].symbol
    BY DEF Printed, begun
  <2> QED BY <2>1, <2>3, <2>4
<1>5. ASSUME add # <<>> PROVE Printed(new, n) = add[Len(add)].symbol
  <2>1. /\ Len(add) >= 1 /\ Len(new) \in 1..Len(new)
        /\ new[Len(new)] = add[Len(add)]
    BY <1>1, <1>5
  <2> DEFINE begun == {k \in DOMAIN new : new[k].time <= n}
  <2>2. begun = 1..Len(new)
    BY <1>1, <1>2, <1>3
  <2>3. Max(begun) = Len(new)
    <3>1. /\ begun \in SUBSET Int /\ Len(new) \in begun
          /\ \A x \in begun : x <= Len(new)
      BY <1>1, <2>1, <2>2
    <3> HIDE DEF begun
    <3> QED BY <3>1, MaxIs
  <2>4. begun # {}
    BY <2>1, <2>2
  <2> QED BY <2>1, <2>3, <2>4 DEF Printed
<1>6. ASSUME row = <<>>, add = <<>> PROVE Printed(new, n) = SPACE
  <2>1. DOMAIN new = {}
    BY <1>1, <1>2, <1>6
  <2> QED BY <2>1 DEF Printed
<1>7. \A k \in 1..Len(new) : new[k].time < n + 1
  BY <1>2, <1>3
<1> QED
  BY <1>1, <1>4, <1>5, <1>6, <1>7 DEF new

(* The columns of one more time unit.                                      *)
LEMMA OneMoreColumn ==
  ASSUME NEW n \in Nat, NEW A \in SUBSET (0..(n - 1))
  PROVE  /\ Cardinality(A) \in Nat
         /\ Cardinality(A \cup {n}) = Cardinality(A) + 1
<1>1. IsFiniteSet(A)
  <2>1. IsFiniteSet(0..(n - 1))
    BY FS_Interval
  <2> QED BY <2>1, FS_Subset
<1>2. n \notin A
  OBVIOUS
<1> QED
  BY <1>1, <1>2, FS_AddElement, FS_CardinalityType

-----------------------------------------------------------------------------
(* What is drawn in one time unit *)

\* The process on a running disk is WAITING.
DiskServes ==
  disk.state = "DISK_RUNNING" => disk.node \in Procs /\ proc[disk.node].state = "WAITING"

\* The symbol of p in this time unit.
Shown(p) ==
  CASE proc[p].state = "RUNNING"    -> IdToSymbol(CoreOf(p))
    [] proc[p].state = "WAITING"    -> WAITING_SYMBOL
    [] proc[p].state = "TERMINATED" -> SPACE
    [] proc[p].state = "READY"      ->
         IF workload[p].startTime <= time THEN READY_SYMBOL ELSE SPACE

DiskShown == IF disk.state = "DISK_RUNNING" THEN IdToSymbol(disk.node) ELSE SPACE

(* The core a RUNNING process is drawn on is the one that executes it.     *)
LEMMA CoreOfRunning ==
  ASSUME TypeOK, Exclusive, RunningOnOccupiedCore, NEW p \in Procs, proc[p].state = "RUNNING"
  PROVE  CoreOf(p) \in Cores /\ core[CoreOf(p)].node = p
<1>1. PICK c \in Cores : core[c].state = "OCCUPIED" /\ core[c].node = p
  BY DEF RunningOnOccupiedCore
<1>2. {d \in Cores : core[d].node = p} = {c}
  BY <1>1, NullIsNoProcess DEF Exclusive
<1>3. \A d \in {c} : c <= d
  BY <1>1 DEF Cores
<1>4. CoreOf(p) = c
  <2> DEFINE holders == {d \in Cores : core[d].node = p}
  <2>1. CoreOf(p) = CHOOSE e \in holders : \A d \in holders : e <= d
    BY <1>1 DEF CoreOf
  <2> QED BY <1>2, <1>3, <2>1
<1> QED
  BY <1>1, <1>4

(* A process has one event in a time unit, or none before its start.       *)
LEMMA ProcessDrawn ==
  ASSUME TypeOK, Exclusive, RunningOnOccupiedCore, NEW p \in Procs
  PROVE  /\ ProcessEvents(p) \in Seq(Drawn)
         /\ \A k \in 1..Len(ProcessEvents(p)) : ProcessEvents(p)[k].time = time
         /\ IF proc[p].state = "READY" /\ workload[p].startTime > time
            THEN ProcessEvents(p) = <<>>
            ELSE /\ ProcessEvents(p) # <<>>
                 /\ ProcessEvents(p)[Len(ProcessEvents(p))].symbol = Shown(p)
<1>1. /\ proc[p].state \in {"READY", "RUNNING", "WAITING", "TERMINATED"} /\ time \in Nat
      /\ workload[p].startTime \in Nat
  BY DEF TypeOK, Process, ProcessStates, ProcessInput
<1>2. ASSUME NEW s \in Nat
      PROVE  /\ <<GraphEvent(s)>> \in Seq(Drawn) /\ <<GraphEvent(s)>> # <<>>
             /\ Len(<<GraphEvent(s)>>) = 1
             /\ <<GraphEvent(s)>>[1].time = time /\ <<GraphEvent(s)>>[1].symbol = s
  BY <1>1 DEF GraphEvent, Drawn
<1>3. proc[p].state = "RUNNING" => IdToSymbol(CoreOf(p)) \in Nat
  <2>1. proc[p].state = "RUNNING" => CoreOf(p) \in Nat
    BY CoreOfRunning DEF Cores
  <2> QED BY <2>1, SymbolOf
<1>4. /\ WAITING_SYMBOL \in Nat /\ SPACE \in Nat /\ READY_SYMBOL \in Nat
  BY DEF WAITING_SYMBOL, SPACE, READY_SYMBOL
<1>5. CASE proc[p].state = "READY" /\ workload[p].startTime > time
  <2>1. ProcessEvents(p) = <<>>
    BY <1>1, <1>5 DEF ProcessEvents
  <2> QED BY <1>5, <2>1
<1>6. CASE ~(proc[p].state = "READY" /\ workload[p].startTime > time)
  <2>1. /\ ProcessEvents(p) = <<GraphEvent(Shown(p))>>
        /\ Shown(p) \in Nat
    <3>1. CASE proc[p].state = "RUNNING"
      BY <1>3, <3>1 DEF ProcessEvents, Shown
    <3>2. CASE proc[p].state = "WAITING"
      BY <1>4, <3>2 DEF ProcessEvents, Shown
    <3>3. CASE proc[p].state = "TERMINATED"
      BY <1>4, <3>3 DEF ProcessEvents, Shown
    <3>4. CASE proc[p].state = "READY"
      BY <1>1, <1>4, <1>6, <3>4 DEF ProcessEvents, Shown
    <3> QED BY <1>1, <3>1, <3>2, <3>3, <3>4
  <2> QED BY <1>2, <1>6, <2>1
<1> QED
  BY <1>5, <1>6

(* The disk has one event in a time unit, or two when it idles that print  *)
(* alike.                                                                  *)
LEMMA DiskDrawn ==
  ASSUME TypeOK, DiskServes
  PROVE  /\ DiskEvents \in Seq(Drawn) /\ DiskEvents # <<>>
         /\ \A k \in 1..Len(DiskEvents) : DiskEvents[k].time = time
         /\ DiskEvents[Len(DiskEvents)].symbol = DiskShown
<1>1. disk.state \in {"DISK_RUNNING", "DISK_IDLE"} /\ time \in Nat
  BY DEF TypeOK, Disk, DiskStates
<1>2. ASSUME NEW s \in Nat
      PROVE  GraphEvent(s) \in Drawn /\ GraphEvent(s).time = time /\ GraphEvent(s).symbol = s
  BY <1>1 DEF GraphEvent, Drawn
<1>3. CASE disk.state = "DISK_RUNNING"
  <2>1. disk.node # NULL /\ proc[disk.node].state = "WAITING" /\ IdToSymbol(disk.node) \in Nat
    <3>1. disk.node \in Procs /\ disk.node \in Nat
      BY <1>3 DEF DiskServes, Procs
    <3> QED BY <1>3, <3>1, NullIsNoProcess, SymbolOf DEF DiskServes
  <2> DEFINE e == GraphEvent(IdToSymbol(disk.node))
  <2>2. DiskEvents = <<e>>
    BY <1>3, <2>1 DEF DiskEvents
  <2>3. e \in Drawn /\ e.time = time /\ e.symbol = DiskShown
    BY <1>2, <1>3, <2>1 DEF DiskShown
  <2> HIDE DEF e
  <2> QED BY <2>2, <2>3
<1>4. CASE disk.state = "DISK_IDLE"
  <2> DEFINE e == GraphEvent(SPACE)
  <2>1. e \in Drawn /\ e.time = time /\ e.symbol = DiskShown
    BY <1>2, <1>4 DEF DiskShown, SPACE
  <2>2. DiskEvents = <<e>> \o <<e>> \/ DiskEvents = <<>> \o <<e>>
    BY <1>4 DEF DiskEvents
  <2> HIDE DEF e
  <2>3. DiskEvents = <<e, e>> \/ DiskEvents = <<e>>
    BY <2>1, <2>2
  <2>4. /\ <<e, e>> \in Seq(Drawn) /\ Len(<<e, e>>) = 2
        /\ \A k \in 1..2 : <<e, e>>[k] = e
    BY <2>1
  <2>5. /\ <<e>> \in Seq(Drawn) /\ Len(<<e>>) = 1
        /\ \A k \in 1..1 : <<e>>[k] = e
    BY <2>1
  <2>6. CASE DiskEvents = <<e, e>>
    BY <2>1, <2>4, <2>6
  <2>7. CASE DiskEvents = <<e>>
    BY <2>1, <2>5, <2>7
  <2> QED BY <2>3, <2>6, <2>7
<1> QED
  BY <1>1, <1>3, <1>4

(* A process on the running disk waits until its operation is over.        *)
LEMMA DiskServesKept ==
  ASSUME Inv, Owned, Next, DiskServes
  PROVE  DiskServes'
<1>1. /\ TypeOK /\ Exclusive /\ Alive /\ proc \in [Procs -> Process]
      /\ disk \in Disk
  BY DEF Inv, Owned, TypeOK
<1>2. SUFFICES ASSUME disk'.state = "DISK_RUNNING"
      PROVE  disk'.node \in Procs /\ proc'[disk'.node].state = "WAITING"
  BY DEF DiskServes
<1>3. CASE PutProcessOnDisk
  <2> DEFINE p == TopNode(waitingQueue)
  <2>1. /\ disk' = [state |-> "DISK_RUNNING", node |-> p] /\ waitingQueue # <<>>
        /\ proc' = [proc EXCEPT ![p].state = "WAITING"]
    BY <1>3 DEF PutProcessOnDisk, DiskAvailable
  <2>2. p \in Procs
    BY <1>1, <2>1 DEF TypeOK, TopNode
  <2> HIDE DEF p
  <2> QED BY <1>1, <2>1, <2>2 DEF Process
<1>4. CASE Resume \/ NoInterruptTime \/ \E c \in Cores : InterruptCore(c)
  <2>1. CASE Resume
    <3>1. disk.state = "DISK_IDLE"
      <4>1. index \in Cores /\ core[index].state = "INTERRUPTED"
        BY <2>1 DEF Resume, InterruptOver, At, Inv, IndexOK
      <4> QED BY <4>1 DEF Inv, InterruptHoldsDisk, Interrupted
    <3>2. disk' = [disk EXCEPT !.node = NULL]
      BY <2>1 DEF Resume
    <3> QED BY <1>1, <1>2, <3>1, <3>2 DEF Disk
  <2>2. CASE NoInterruptTime
    BY <1>2, <2>2 DEF NoInterruptTime, DiskReleased
  <2>3. CASE \E c \in Cores : InterruptCore(c)
    <3>1. disk' = [disk EXCEPT !.state = "DISK_IDLE"]
      BY <2>3 DEF InterruptCore
    <3> QED BY <1>1, <1>2, <3>1 DEF Disk
  <2> QED BY <1>4, <2>1, <2>2, <2>3
<1>5. CASE ~PutProcessOnDisk /\ ~Resume /\ ~NoInterruptTime
           /\ ~ \E c \in Cores : InterruptCore(c)
  <2>1. disk' = disk
    BY <1>5, SystemUnchanged DEF Next, StartTick, EndOfWorkload, ProcessArrived, ArrivalsDone,
       AgingNextQueue, AgingDone, AgingKeep, AgingMove, NoProcess, SwitchInDone,
       SwitchOutDone, Terminate, StartIO, NoEvent, WithinLimit, Demote, Preempt, KeepRunning,
       NoResume, QueuesSizesBeforeRR, SliceContinues, SwitchOutAfterSlice, NewSlice,
       NoInterrupt, SkipCore, PutProcessOnCPU, SkipDisk, AdvanceProcessTime,
       AdvanceSchedulingTime, FreeComputer, Stop, vars
  <2> DEFINE d == disk.node
  <2>2. d \in Procs /\ proc[d].state = "WAITING" /\ d \in InIO
    BY <1>2, <2>1 DEF DiskServes, InIO
  <2>3. d \notin Ready /\ \A c \in Cores \ Leaving : core[c].node # d
    BY <1>1, <2>2 DEF Exclusive
  <2>4. Arrived(d)
    BY <1>1, <2>2 DEF Alive, Living
  <2>5. SUFFICES proc'[d].state = "WAITING"
    BY <2>1, <2>2
  <2>6. ASSUME NEW o, o # d, NEW x, NEW y,
               \/ proc' = [proc EXCEPT ![o].state = x]
               \/ proc' = [proc EXCEPT ![o].state = x, ![o].nextEvents = y]
        PROVE  proc'[d].state = "WAITING"
    BY <1>1, <2>2, <2>6
  <2> HIDE DEF d
  <2>7. CASE \E o \in Procs : ProcessArrived(o)
    <3>1. PICK o \in Procs : ProcessArrived(o)
      BY <2>7
    <3>2. ~Arrived(o)
      BY <1>1, <3>1 DEF ProcessArrived, ArrivesNow, At, Arrived, TypeOK, Procs
    <3>3. proc' = [proc EXCEPT ![o].state = "READY", ![o].nextEvents = Rest(@)]
      BY <3>1 DEF ProcessArrived
    <3>4. proc' = [proc EXCEPT ![o].state = "READY", ![o].nextEvents = Rest(proc[o].nextEvents)]
      BY <1>1, <3>3
    <3>5. o # d
      BY <2>4, <3>2
    <3> QED BY <2>6, <3>4, <3>5
  <2>8. CASE SwitchInDone \/ Terminate \/ Demote \/ Preempt \/ SwitchOutAfterSlice
    <3>1. index \in Cores
      BY <2>8, CurrentCore DEF SwitchInDone, Terminate, Demote, Preempt, SwitchOutAfterSlice, At
    <3>2. index \notin Leaving
      <4>1. CASE Terminate
        BY <4>1, TerminatedInTime
      <4>2. CASE ~Terminate
        <5>1. core[index].state \in {"OCCUPIED", "SWITCH_IN"}
          BY <2>8, <4>2 DEF SwitchInDone, SwitchedIn, Demote, Preempt, SwitchOutAfterSlice,
             SliceOver, At, Inv, IndexOK
        <5> QED BY <5>1 DEF Leaving, LeavesForIO
      <4> QED BY <4>1, <4>2
    <3>3. core[index].node # d
      BY <2>3, <3>1, <3>2
    <3>4. proc' = proc \/ \E x : proc' = [proc EXCEPT ![core[index].node].state = x]
      BY <2>8 DEF SwitchInDone, Terminate, Demote, Preempt, SwitchOutAfterSlice, SwitchOutReady
    <3> QED BY <2>2, <2>6, <3>3, <3>4
  <2>9. CASE StartIO
    <3>1. proc' = [proc EXCEPT ![core[index].node].state = "WAITING",
                               ![core[index].node].nextEvents = Rest(@)]
      BY <2>9 DEF StartIO
    <3>2. index \in Cores \ Leaving
      BY <2>9, StartIOInTime
    <3>3. core[index].node # d
      BY <2>3, <3>2
    <3> QED BY <1>1, <2>2, <3>1, <3>3
  <2>10. CASE \E q \in Queue : PutProcessOnCPU(q)
    <3>1. PICK q \in Queue : PutProcessOnCPU(q)
      BY <2>10
    <3>2. TopNode(readyQueues[q]) \in Ready
      <4>1. readyQueues[q] \in Seq(Procs) /\ readyQueues[q] # <<>>
        BY <1>1, <3>1 DEF PutProcessOnCPU, TypeOK
      <4>2. TopNode(readyQueues[q]) \in Procs /\ ProcessInQueue(readyQueues[q], TopNode(readyQueues[q]))
        BY <4>1 DEF TopNode, ProcessInQueue
      <4> QED BY <4>2 DEF Ready, InQueues
    <3>3. \E x : proc' = [proc EXCEPT ![TopNode(readyQueues[q])].state = x]
      BY <3>1 DEF PutProcessOnCPU
    <3>4. TopNode(readyQueues[q]) # d
      BY <2>3, <3>2
    <3> QED BY <2>6, <3>3, <3>4
  <2>11. CASE AdvanceProcessTime
    <3>1. proc'[d] = proc[d] \/ proc'[d] = [proc[d] EXCEPT !.advancementTime = @ + 1]
      BY <2>2, <2>11 DEF AdvanceProcessTime
    <3> QED BY <1>1, <2>2, <3>1 DEF Process
  <2>12. CASE ~ \/ \E o \in Procs : ProcessArrived(o)
                \/ SwitchInDone \/ Terminate \/ Demote \/ Preempt \/ SwitchOutAfterSlice
                \/ StartIO \/ (\E q \in Queue : PutProcessOnCPU(q)) \/ AdvanceProcessTime
    <3>1. proc' = proc
      BY <1>5, <2>12, SystemUnchanged DEF Next, StartTick, EndOfWorkload, ArrivalsDone,
         AgingNextQueue, AgingDone, AgingKeep, AgingMove, NoProcess, SwitchOutDone, NoEvent,
         WithinLimit, KeepRunning, NoResume, QueuesSizesBeforeRR, SliceContinues, NewSlice,
         NoInterrupt, SkipCore, SkipDisk, AdvanceSchedulingTime, FreeComputer, Stop, vars
    <3> QED BY <2>2, <3>1
  <2> QED BY <2>7, <2>8, <2>9, <2>10, <2>11, <2>12
<1> QED
  BY <1>3, <1>4, <1>5

-----------------------------------------------------------------------------
(* The graph, one time unit after the other *)

\* The time units drawn so far.
Units == time + (IF phase = "advanceScheduling" THEN 1 ELSE 0)

\* Events of the time units so far are in the rows, and the run is within the
\* columns of the graph.
GraphOK ==
  /\ graph \in [processes : [AddedProcesses -> Seq(Drawn)], disk : Seq(Drawn), nbTimeSlots : Nat]
  /\ graph.nbTimeSlots = Units
  /\ \A p \in AddedProcesses : \A k \in 1..Len(graph.processes[p]) :
       graph.processes[p][k].time < Units
  /\ \A k \in 1..Len(graph.disk) : graph.disk[k].time < Units
  /\ phase \notin {"free", "done"} => time <= MaxTime

LEMMA UnitsIsNat ==
  ASSUME TypeOK
  PROVE  Units \in Nat /\ time \in Nat
BY DEF TypeOK, Units

LEMMA AddedAreProcs ==
  AddedProcesses \subseteq Procs
BY SizeAssumption, GraphAssumption DEF AddedProcesses, Procs

(* advanceProcessTime adds one column and leaves the others as they are.   *)
LEMMA UnitDrawn ==
  ASSUME Inv, Owned, GraphOK, DiskServes, MaxTime < MaxTimeSlots, AdvanceProcessTime, AddEvents
  PROVE  /\ GraphOK' /\ Units = time /\ Units' = Units + 1
         /\ \A p \in AddedProcesses :
              /\ \A t \in 0..(Units - 1) : ProcessCell(p, t)' = ProcessCell(p, t)
              /\ IF proc[p].state = "READY" /\ workload[p].startTime > time
                 THEN graph'.processes[p] = graph.processes[p]
                 ELSE Printed(graph'.processes[p], Units) = Shown(p)
         /\ \A t \in 0..(Units - 1) : DiskCell(t)' = DiskCell(t)
         /\ Printed(graph'.disk, Units) = DiskShown
<1>1. /\ TypeOK /\ phase = "advanceProcesses" /\ phase' = "advanceScheduling"
      /\ time' = time /\ time \in Nat
  BY DEF Inv, TypeOK, AdvanceProcessTime, At, Goto
<1>2. Exclusive /\ RunningOnOccupiedCore
  BY DEF Owned, States
<1>3. Units = time /\ Units' = Units + 1
  BY <1>1 DEF Units
<1>4. ~(time >= MaxTimeSlots) /\ time <= MaxTime
  BY <1>1, SizeAssumption, GraphAssumption DEF GraphOK
<1>5. DiskEvents # <<>> /\ DiskEvents \in Seq(Drawn)
  BY <1>1, DiskDrawn
<1>6. graph' = [processes   |-> [p \in DOMAIN graph.processes |->
                                   graph.processes[p] \o ProcessEvents(p)],
                disk        |-> graph.disk \o DiskEvents,
                nbTimeSlots |-> time + 1]
  BY <1>4, <1>5 DEF AddEvents
<1>7. /\ graph.processes \in [AddedProcesses -> Seq(Drawn)] /\ graph.disk \in Seq(Drawn)
      /\ DOMAIN graph.processes = AddedProcesses
      /\ \A k \in 1..Len(graph.disk) : graph.disk[k].time < time
      /\ \A p \in AddedProcesses : \A k \in 1..Len(graph.processes[p]) :
           graph.processes[p][k].time < time
  BY <1>3 DEF GraphOK
<1>8. /\ graph'.processes = [p \in AddedProcesses |-> graph.processes[p] \o ProcessEvents(p)]
      /\ graph'.disk = graph.disk \o DiskEvents /\ graph'.nbTimeSlots = time + 1
  BY <1>6, <1>7
<1>9. ASSUME NEW p \in AddedProcesses
      PROVE  /\ graph'.processes[p] = graph.processes[p] \o ProcessEvents(p)
             /\ graph'.processes[p] \in Seq(Drawn)
             /\ \A k \in 1..Len(graph'.processes[p]) : graph'.processes[p][k].time < time + 1
             /\ \A t \in 0..(time - 1) :
                  Printed(graph'.processes[p], t) = Printed(graph.processes[p], t)
             /\ IF proc[p].state = "READY" /\ workload[p].startTime > time
                THEN graph'.processes[p] = graph.processes[p]
                ELSE Printed(graph'.processes[p], time) = Shown(p)
  <2>1. p \in Procs
    BY AddedAreProcs
  <2> DEFINE row == graph.processes[p]
             add == ProcessEvents(p)
  <2>2. /\ add \in Seq(Drawn) /\ \A k \in 1..Len(add) : add[k].time = time
        /\ IF proc[p].state = "READY" /\ workload[p].startTime > time
           THEN add = <<>>
           ELSE add # <<>> /\ add[Len(add)].symbol = Shown(p)
    BY <1>1, <1>2, <2>1, ProcessDrawn
  <2>3. row \in Seq(Drawn) /\ \A k \in 1..Len(row) : row[k].time < time
    BY <1>7
  <2>4. graph'.processes[p] = row \o add
    BY <1>8
  <2> HIDE DEF row, add
  <2>5. /\ row \o add \in Seq(Drawn)
        /\ \A k \in 1..Len(row \o add) : (row \o add)[k].time < time + 1
        /\ \A t \in 0..(time - 1) : Printed(row \o add, t) = Printed(row, t)
        /\ add # <<>> => Printed(row \o add, time) = add[Len(add)].symbol
    BY <1>1, <2>2, <2>3, RowGrows
  <2>6. add = <<>> => row \o add = row
    BY <2>3
  <2> QED BY <2>2, <2>4, <2>5, <2>6 DEF row, add
<1>10. /\ graph'.disk \in Seq(Drawn)
       /\ \A k \in 1..Len(graph'.disk) : graph'.disk[k].time < time + 1
       /\ \A t \in 0..(time - 1) : Printed(graph'.disk, t) = Printed(graph.disk, t)
       /\ Printed(graph'.disk, time) = DiskShown
  <2> DEFINE row == graph.disk
             add == DiskEvents
  <2>1. /\ add \in Seq(Drawn) /\ add # <<>> /\ \A k \in 1..Len(add) : add[k].time = time
        /\ add[Len(add)].symbol = DiskShown
    BY <1>1, DiskDrawn
  <2>2. row \in Seq(Drawn) /\ \A k \in 1..Len(row) : row[k].time < time
    BY <1>7
  <2>3. graph'.disk = row \o add
    BY <1>8
  <2> HIDE DEF row, add
  <2>4. /\ row \o add \in Seq(Drawn)
        /\ \A k \in 1..Len(row \o add) : (row \o add)[k].time < time + 1
        /\ \A t \in 0..(time - 1) : Printed(row \o add, t) = Printed(row, t)
        /\ add # <<>> => Printed(row \o add, time) = add[Len(add)].symbol
    BY <1>1, <2>1, <2>2, RowGrows
  <2> QED BY <2>1, <2>3, <2>4 DEF row, add
<1>11. GraphOK'
  <2>1. graph'.processes \in [AddedProcesses -> Seq(Drawn)]
    BY <1>8, <1>9
  <2>2. graph' \in [processes : [AddedProcesses -> Seq(Drawn)], disk : Seq(Drawn),
                    nbTimeSlots : Nat]
    BY <1>1, <1>6, <1>8, <1>10, <2>1
  <2> QED BY <1>1, <1>3, <1>4, <1>8, <1>9, <1>10, <2>2 DEF GraphOK
<1> QED
  BY <1>3, <1>9, <1>10, <1>11 DEF ProcessCell, DiskCell

(* No other handler draws.                                                 *)
LEMMA NothingDrawn ==
  ASSUME Inv, GraphOK, Next, ~AdvanceProcessTime, UNCHANGED graph
  PROVE  GraphOK' /\ Units' = Units /\ time <= Units /\ Units' \in Nat
<1>1. TypeOK /\ time \in Nat
  BY DEF Inv, TypeOK
<1>2. CASE AdvanceSchedulingTime
  <2>1. /\ phase = "advanceScheduling" /\ time' = time + 1
        /\ phase' = IF time + 1 > MaxTime THEN "free" ELSE "loop"
    BY <1>2 DEF AdvanceSchedulingTime, At, Goto
  <2>2. Units' = Units /\ time <= Units /\ Units \in Nat
    BY <1>1, <2>1 DEF Units
  <2>3. phase' \notin {"free", "done"} => time' <= MaxTime
    BY <1>1, <2>1, SizeAssumption
  <2> QED BY <2>2, <2>3 DEF GraphOK
<1>3. CASE ~AdvanceSchedulingTime
  <2>1. /\ time' = time
        /\ phase = "advanceScheduling" <=> phase' = "advanceScheduling"
        /\ phase \in {"free", "done"} => phase' \in {"free", "done"}
    BY <1>3 DEF Next, At, Goto, NextCore, PreviousCore, NextIdleCore, StartTick,
       EndOfWorkload, ProcessArrived, ArrivalsDone,
       AgingNextQueue, AgingDone, AgingKeep, AgingMove, NoProcess, SwitchInDone,
       SwitchOutDone, Terminate, StartIO, NoEvent, WithinLimit, Demote, Preempt,
       KeepRunning, Resume, NoResume, QueuesSizesBeforeRR, SliceContinues,
       SwitchOutAfterSlice, NewSlice, NoInterrupt, InterruptCore, NoInterruptTime,
       SkipCore, PutProcessOnCPU, SkipDisk, PutProcessOnDisk, FreeComputer, Stop, vars
  <2>2. Units' = Units /\ time <= Units /\ Units \in Nat
    BY <1>1, <2>1 DEF Units
  <2> QED BY <2>1, <2>2 DEF GraphOK
<1> QED
  BY <1>2, <1>3

-----------------------------------------------------------------------------
(* The rows and the statistics *)

\* Where p is not drawn: before its start, and from its end on.
Outside(p, t) ==
  \/ t < workload[p].startTime
  \/ proc[p].state = "TERMINATED" /\ t >= stats[p].finishTime

\* The columns drawn so far in which p executes, or is ready.
CoreColumns(p)  == {t \in 0..(Units - 1) : ProcessCell(p, t) \in CoreSymbols}
ReadyColumns(p) == {t \in 0..(Units - 1) : ProcessCell(p, t) \in {READY_SYMBOL}}

Agrees(p) ==
  /\ Units <= workload[p].startTime => graph.processes[p] = <<>>
  /\ proc[p].state = "TERMINATED" => stats[p].finishTime <= Units
  /\ Cardinality(CoreColumns(p)) = stats[p].cpuTime
  /\ Cardinality(ReadyColumns(p)) >= stats[p].waitingTime
  /\ \A t \in 0..(Units - 1) : ProcessCell(p, t) = SPACE <=> Outside(p, t)

\* No two processes have been drawn on one core.
Apart ==
  \A p, q \in AddedProcesses : \A t \in 0..(Units - 1) :
    p # q /\ ProcessCell(p, t) = ProcessCell(q, t) => ProcessCell(p, t) \notin CoreSymbols

\* The columns in which the disk serves p.
DiskColumns(p) == {t \in 0..(Units - 1) : DiskCell(t) \in {IdToSymbol(p)}}

DiskAgrees(p) ==
  /\ \A t \in DiskColumns(p) : ProcessCell(p, t) = WAITING_SYMBOL
  /\ Cardinality(DiskColumns(p)) =
       Cardinality({t \in 0..(proc[p].advancementTime - 1) : BurstAt(p, t) \in {"IO"}})

\* How many of the first n entries of a row are in S.
Count(row, S, n) == Cardinality({t \in 0..(n - 1) : row[t] \in S})

(* One more column counts if its symbol is one of those that are counted.  *)
LEMMA ColumnCounts ==
  ASSUME NEW n \in Nat, NEW old, NEW new, NEW S, \A t \in 0..(n - 1) : new[t] = old[t]
  PROVE  /\ Count(new, S, n + 1) = Count(old, S, n) + (IF new[n] \in S THEN 1 ELSE 0)
         /\ Count(old, S, n) \in Nat
<1> DEFINE A == {t \in 0..(n - 1) : old[t] \in S}
           B == {t \in 0..((n + 1) - 1) : new[t] \in S}
<1>1. A \in SUBSET (0..(n - 1))
  OBVIOUS
<1>2. B = IF new[n] \in S THEN A \cup {n} ELSE A
  OBVIOUS
<1> HIDE DEF A, B
<1>3. Cardinality(A) \in Nat /\ Cardinality(A \cup {n}) = Cardinality(A) + 1
  BY <1>1, OneMoreColumn
<1>4. Cardinality(B) = Cardinality(A) + (IF new[n] \in S THEN 1 ELSE 0)
  BY <1>2, <1>3
<1> QED
  BY <1>3, <1>4 DEF A, B, Count

(* A process is READY until it arrives.                                    *)
LEMMA NotYet ==
  ASSUME Inv, Owned, NEW p \in Procs, workload[p].startTime > time
  PROVE  proc[p].state = "READY"
<1>1. time \in Nat /\ workload[p].startTime \in Nat
  BY DEF Inv, TypeOK, ProcessInput
<1>2. ~Arrived(p)
  BY <1>1 DEF Arrived
<1>3. proc[p] = [state |-> "READY", nextEvents |-> workload[p].events, advancementTime |-> 0]
  BY <1>2 DEF Owned, Alive
<1> QED
  BY <1>3

(* What a symbol says of its process.                                      *)
LEMMA ShownIs ==
  ASSUME Inv, Owned, NEW p \in Procs
  PROVE  /\ Shown(p) \in CoreSymbols <=> proc[p].state = "RUNNING"
         /\ Shown(p) = READY_SYMBOL <=>
              proc[p].state = "READY" /\ workload[p].startTime <= time
         /\ Shown(p) = SPACE <=> \/ proc[p].state = "TERMINATED"
                                 \/ workload[p].startTime > time
         /\ proc[p].state = "WAITING" => Shown(p) = WAITING_SYMBOL
<1>1. /\ TypeOK /\ Exclusive /\ RunningOnOccupiedCore /\ Alive
      /\ proc[p].state \in {"READY", "RUNNING", "WAITING", "TERMINATED"}
      /\ time \in Nat /\ workload[p].startTime \in Nat
  BY DEF Inv, Owned, States, TypeOK, Process, ProcessStates, ProcessInput
<1>2. \A s \in CoreSymbols : s \in Nat /\ s >= 48
  BY SymbolOf DEF CoreSymbols, Cores
<1>3. workload[p].startTime > time => proc[p].state = "READY"
  BY NotYet
<1>4. CASE proc[p].state = "RUNNING"
  <2>1. Shown(p) = IdToSymbol(CoreOf(p)) /\ CoreOf(p) \in Cores
    BY <1>1, <1>4, CoreOfRunning DEF Shown
  <2>2. Shown(p) \in CoreSymbols
    BY <2>1 DEF CoreSymbols
  <2> QED BY <1>1, <1>2, <1>3, <1>4, <2>2 DEF READY_SYMBOL, SPACE
<1>5. CASE proc[p].state = "WAITING"
  <2>1. Shown(p) = WAITING_SYMBOL
    BY <1>5 DEF Shown
  <2> QED BY <1>1, <1>2, <1>3, <1>5, <2>1 DEF WAITING_SYMBOL, READY_SYMBOL, SPACE
<1>6. CASE proc[p].state = "TERMINATED"
  <2>1. Shown(p) = SPACE
    BY <1>6 DEF Shown
  <2> QED BY <1>2, <1>6, <2>1 DEF READY_SYMBOL, SPACE
<1>7. CASE proc[p].state = "READY"
  <2>1. Shown(p) = IF workload[p].startTime <= time THEN READY_SYMBOL ELSE SPACE
    BY <1>7 DEF Shown
  <2> QED BY <1>1, <1>2, <1>7, <2>1 DEF READY_SYMBOL, SPACE
<1> QED
  BY <1>1, <1>4, <1>5, <1>6, <1>7

(* The statistics of a time unit.                                          *)
LEMMA StatsOfUnit ==
  ASSUME Inv, AdvanceProcessTime, NEW p \in Procs
  PROVE  /\ stats'[p].cpuTime =
              stats[p].cpuTime + (IF proc[p].state = "RUNNING" THEN 1 ELSE 0)
         /\ \/ stats'[p].waitingTime = stats[p].waitingTime
            \/ /\ stats'[p].waitingTime = stats[p].waitingTime + 1
               /\ proc[p].state = "READY" /\ workload[p].startTime <= time
         /\ stats'[p].finishTime = stats[p].finishTime
         /\ proc'[p].state = proc[p].state
         /\ proc'[p].advancementTime =
              proc[p].advancementTime + (IF Progresses(p) THEN 1 ELSE 0)
         /\ stats[p].cpuTime \in Nat /\ stats[p].waitingTime \in Nat
         /\ proc[p].advancementTime \in Nat
<1>1. stats[p] \in ProcessStats /\ proc[p] \in Process
  BY DEF Inv, TypeOK
<1>2. stats'[p] =
        CASE proc[p].state = "READY" /\ workload[p].startTime <= time /\ InReadyQueues(p)
               -> [stats[p] EXCEPT !.waitingTime = @ + 1]
          [] proc[p].state = "RUNNING" -> [stats[p] EXCEPT !.cpuTime = @ + 1]
          [] OTHER -> stats[p]
  BY DEF AdvanceProcessTime
<1>3. proc'[p] = IF Progresses(p) THEN [proc[p] EXCEPT !.advancementTime = @ + 1] ELSE proc[p]
  BY DEF AdvanceProcessTime
<1>4. /\ proc'[p].state = proc[p].state /\ proc[p].advancementTime \in Nat
      /\ proc'[p].advancementTime =
              proc[p].advancementTime + (IF Progresses(p) THEN 1 ELSE 0)
  BY <1>1, <1>3 DEF Process
<1>5. /\ stats[p].cpuTime \in Nat /\ stats[p].waitingTime \in Nat
  BY <1>1 DEF ProcessStats
<1>6. CASE proc[p].state = "RUNNING"
  <2>1. stats'[p] = [stats[p] EXCEPT !.cpuTime = @ + 1]
    BY <1>2, <1>6
  <2> QED BY <1>1, <1>4, <1>5, <1>6, <2>1 DEF ProcessStats
<1>7. CASE proc[p].state = "READY" /\ workload[p].startTime <= time /\ InReadyQueues(p)
  <2>1. stats'[p] = [stats[p] EXCEPT !.waitingTime = @ + 1]
    BY <1>2, <1>7
  <2> QED BY <1>1, <1>4, <1>5, <1>7, <2>1 DEF ProcessStats
<1>8. CASE /\ proc[p].state # "RUNNING"
           /\ ~(proc[p].state = "READY" /\ workload[p].startTime <= time /\ InReadyQueues(p))
  <2>1. stats'[p] = stats[p]
    BY <1>2, <1>8
  <2> QED BY <1>4, <1>5, <1>8, <2>1
<1> QED
  BY <1>6, <1>7, <1>8

(* The new column of a row shows what its process does in this time unit.  *)
LEMMA NewColumn ==
  ASSUME Inv, Owned, GraphOK, DiskServes, MaxTime < MaxTimeSlots, AdvanceProcessTime, AddEvents,
         NEW p \in AddedProcesses, Agrees(p)
  PROVE  /\ \A t \in 0..(Units - 1) : ProcessCell(p, t)' = ProcessCell(p, t)
         /\ Printed(graph'.processes[p], Units) = Shown(p)
         /\ Units' <= workload[p].startTime => graph'.processes[p] = <<>>
<1>1. /\ p \in Procs /\ Units \in Nat /\ Units = time /\ Units' = Units + 1
      /\ workload[p].startTime \in Nat
  <2>1. TypeOK /\ p \in Procs
    BY AddedAreProcs DEF Inv
  <2> QED BY <2>1, UnitDrawn, UnitsIsNat DEF TypeOK, ProcessInput
<1>2. /\ \A t \in 0..(Units - 1) : ProcessCell(p, t)' = ProcessCell(p, t)
      /\ IF proc[p].state = "READY" /\ workload[p].startTime > time
         THEN graph'.processes[p] = graph.processes[p]
         ELSE Printed(graph'.processes[p], Units) = Shown(p)
  BY UnitDrawn
<1>3. workload[p].startTime > time =>
        /\ proc[p].state = "READY" /\ graph.processes[p] = <<>>
  <2>1. workload[p].startTime > time => proc[p].state = "READY"
    BY <1>1, NotYet
  <2> QED BY <1>1, <2>1 DEF Agrees
<1>4. Printed(<<>>, Units) = SPACE
  BY DEF Printed
<1> DEFINE row == graph'.processes[p]
<1>5. workload[p].startTime > time => Printed(row, Units) = SPACE /\ Shown(p) = SPACE
  <2>1. workload[p].startTime > time => ~(workload[p].startTime <= time)
    BY <1>1
  <2>2. workload[p].startTime > time => Shown(p) = SPACE
    BY <1>3, <2>1 DEF Shown
  <2> QED BY <1>2, <1>3, <1>4, <2>2
<1>6. Printed(row, Units) = Shown(p)
  BY <1>2, <1>5
<1>7. Units' <= workload[p].startTime => graph'.processes[p] = <<>>
  BY <1>1, <1>2, <1>3
<1> QED
  BY <1>2, <1>6, <1>7

(* A time unit adds to a row what it adds to the statistics.               *)
LEMMA UnitAgrees ==
  ASSUME Inv, Owned, GraphOK, DiskServes, MaxTime < MaxTimeSlots, AdvanceProcessTime, AddEvents,
         workload' = workload, NEW p \in AddedProcesses, Agrees(p)
  PROVE  Agrees(p)'
<1> DEFINE n == Units
           old == [t \in 0..n |-> ProcessCell(p, t)]
           new == [t \in 0..n |-> Printed(graph'.processes[p], t)]
<1>1. /\ p \in Procs /\ n \in Nat /\ n = time /\ Units' = n + 1
      /\ workload[p].startTime \in Nat
  <2>1. TypeOK /\ p \in Procs
    BY AddedAreProcs DEF Inv
  <2> QED BY <2>1, UnitDrawn, UnitsIsNat DEF TypeOK, ProcessInput
<1>2. /\ \A t \in 0..(n - 1) : ProcessCell(p, t)' = ProcessCell(p, t)
      /\ new[n] = Shown(p)
      /\ Units' <= workload[p].startTime => graph'.processes[p] = <<>>
  BY <1>1, NewColumn
<1>3. /\ \A t \in 0..(n - 1) : new[t] = old[t] /\ old[t] = ProcessCell(p, t)
      /\ \A t \in 0..((n + 1) - 1) : new[t] = ProcessCell(p, t)'
  BY <1>1, <1>2 DEF ProcessCell
<1>4. /\ stats'[p].cpuTime = stats[p].cpuTime + (IF proc[p].state = "RUNNING" THEN 1 ELSE 0)
      /\ \/ stats'[p].waitingTime = stats[p].waitingTime
         \/ /\ stats'[p].waitingTime = stats[p].waitingTime + 1
            /\ proc[p].state = "READY" /\ workload[p].startTime <= time
      /\ stats'[p].finishTime = stats[p].finishTime /\ proc'[p].state = proc[p].state
      /\ stats[p].cpuTime \in Nat /\ stats[p].waitingTime \in Nat
  BY <1>1, StatsOfUnit
<1>5. /\ Shown(p) \in CoreSymbols <=> proc[p].state = "RUNNING"
      /\ Shown(p) = READY_SYMBOL <=> proc[p].state = "READY" /\ workload[p].startTime <= time
      /\ Shown(p) = SPACE <=> proc[p].state = "TERMINATED" \/ workload[p].startTime > time
  BY <1>1, ShownIs
<1>6. ASSUME NEW S
      PROVE  /\ Count(new, S, n + 1) = Count(old, S, n) + (IF Shown(p) \in S THEN 1 ELSE 0)
             /\ Count(old, S, n) \in Nat
  <2>1. n \in Nat /\ new[n] = Shown(p) /\ \A t \in 0..(n - 1) : new[t] = old[t]
    BY <1>1, <1>2, <1>3
  <2> HIDE DEF old, new, n
  <2>2. /\ Count(new, S, n + 1) = Count(old, S, n) + (IF new[n] \in S THEN 1 ELSE 0)
        /\ Count(old, S, n) \in Nat
    BY <2>1, ColumnCounts
  <2> QED BY <2>1, <2>2
<1>7. ASSUME NEW S
      PROVE  /\ Cardinality({t \in 0..(n - 1) : ProcessCell(p, t) \in S}) = Count(old, S, n)
             /\ Cardinality({t \in 0..((n + 1) - 1) : ProcessCell(p, t)' \in S}) =
                  Count(new, S, n + 1)
  <2>1. /\ {t \in 0..(n - 1) : ProcessCell(p, t) \in S} = {t \in 0..(n - 1) : old[t] \in S}
        /\ {t \in 0..((n + 1) - 1) : ProcessCell(p, t)' \in S} =
             {t \in 0..((n + 1) - 1) : new[t] \in S}
    <3> HIDE DEF old, new
    <3> QED BY <1>3
  <2> HIDE DEF old, new
  <2> QED BY <2>1 DEF Count
<1>8. Cardinality(CoreColumns(p))' = stats'[p].cpuTime
  <2>1. /\ Cardinality(CoreColumns(p)) = Count(old, CoreSymbols, n)
        /\ Cardinality(CoreColumns(p)') = Count(new, CoreSymbols, n + 1)
    <3>1. /\ CoreColumns(p) = {t \in 0..(n - 1) : ProcessCell(p, t) \in CoreSymbols}
          /\ CoreColumns(p)' = {t \in 0..((n + 1) - 1) : ProcessCell(p, t)' \in CoreSymbols}
      BY <1>1 DEF CoreColumns
    <3>2. /\ Cardinality({t \in 0..(n - 1) : ProcessCell(p, t) \in CoreSymbols}) =
               Count(old, CoreSymbols, n)
          /\ Cardinality({t \in 0..((n + 1) - 1) : ProcessCell(p, t)' \in CoreSymbols}) =
               Count(new, CoreSymbols, n + 1)
      <4> HIDE DEF n, old, new
      <4> QED BY <1>7, Zenon
    <3> HIDE DEF n, old, new
    <3> QED BY <3>1, <3>2
  <2>2. Cardinality(CoreColumns(p)) = stats[p].cpuTime
    BY DEF Agrees
  <2> HIDE DEF n, old, new
  <2> QED BY <1>4, <1>5, <1>6, <2>1, <2>2
<1>9. Cardinality(ReadyColumns(p))' >= stats'[p].waitingTime
  <2> DEFINE S == {READY_SYMBOL}
  <2>1. /\ Cardinality(ReadyColumns(p)) = Count(old, S, n)
        /\ Cardinality(ReadyColumns(p)') = Count(new, S, n + 1)
    <3>1. /\ ReadyColumns(p) = {t \in 0..(n - 1) : ProcessCell(p, t) \in S}
          /\ ReadyColumns(p)' = {t \in 0..((n + 1) - 1) : ProcessCell(p, t)' \in S}
      BY <1>1 DEF ReadyColumns
    <3>2. /\ Cardinality({t \in 0..(n - 1) : ProcessCell(p, t) \in S}) = Count(old, S, n)
          /\ Cardinality({t \in 0..((n + 1) - 1) : ProcessCell(p, t)' \in S}) =
               Count(new, S, n + 1)
      <4> HIDE DEF n, old, new, S
      <4> QED BY <1>7, Zenon
    <3> HIDE DEF n, old, new, S
    <3> QED BY <3>1, <3>2
  <2>2. Cardinality(ReadyColumns(p)) >= stats[p].waitingTime
    BY DEF Agrees
  <2>3. Shown(p) \in S <=> Shown(p) = READY_SYMBOL
    OBVIOUS
  <2> HIDE DEF n, old, new, S
  <2> QED BY <1>4, <1>5, <1>6, <2>1, <2>2, <2>3
<1>10. proc'[p].state = "TERMINATED" => stats'[p].finishTime \in Nat /\ stats'[p].finishTime <= n
  <2>1. stats[p].finishTime \in Nat
    BY <1>1 DEF Inv, TypeOK, ProcessStats
  <2> QED BY <1>4, <2>1 DEF Agrees
<1>11. ASSUME NEW t \in 0..((n + 1) - 1)
       PROVE  ProcessCell(p, t)' = SPACE <=> Outside(p, t)'
  <2>1. Outside(p, t)' <=> \/ t < workload[p].startTime
                           \/ proc[p].state = "TERMINATED" /\ t >= stats[p].finishTime
    BY <1>4 DEF Outside
  <2>2. CASE t \in 0..(n - 1)
    BY <1>2, <2>1, <2>2 DEF Agrees, Outside
  <2>3. CASE t = n
    <3>1. ProcessCell(p, t)' = Shown(p)
      BY <1>1, <1>2, <1>3, <2>3
    <3>2. proc[p].state = "TERMINATED" => t >= stats[p].finishTime
      BY <1>1, <1>4, <1>10, <2>3
    <3> QED BY <1>1, <1>5, <2>1, <2>3, <3>1, <3>2
  <2> QED BY <1>1, <2>2, <2>3
<1>12. proc'[p].state = "TERMINATED" => stats'[p].finishTime <= Units'
  BY <1>1, <1>10
<1> QED
  BY <1>1, <1>2, <1>8, <1>9, <1>11, <1>12 DEF Agrees

(* The other handlers count nothing that is drawn, and end no process      *)
(* before the columns that are drawn.                                      *)
LEMMA OtherAgrees ==
  ASSUME Inv, Inv', Owned, GraphOK, Next, ~AdvanceProcessTime, UNCHANGED graph,
         NEW p \in AddedProcesses, Agrees(p)
  PROVE  Agrees(p)'
<1>1. /\ p \in Procs /\ Units \in Nat /\ Units' = Units /\ time <= Units
      /\ workload' = workload /\ workload[p].startTime \in Nat
  <2>1. TypeOK /\ p \in Procs
    BY AddedAreProcs DEF Inv
  <2> QED BY <2>1, NothingDrawn, UnitsIsNat, WorkloadKept DEF TypeOK, ProcessInput
<1>2. \A t : ProcessCell(p, t)' = ProcessCell(p, t)
  BY DEF ProcessCell
<1>3. CoreColumns(p)' = CoreColumns(p) /\ ReadyColumns(p)' = ReadyColumns(p)
  BY <1>1, <1>2 DEF CoreColumns, ReadyColumns
<1>4. stats'[p].cpuTime = stats[p].cpuTime /\ stats'[p].waitingTime = stats[p].waitingTime
  BY <1>1, OnlyServiceCounts, StatsKept
<1>5. CASE proc[p].state = "TERMINATED"
  <2>1. proc'[p] = proc[p] /\ stats'[p] = stats[p]
    BY <1>1, <1>5, TerminatedStays
  <2>2. \A t : Outside(p, t)' <=> Outside(p, t)
    BY <1>1, <2>1 DEF Outside
  <2> QED BY <1>1, <1>2, <1>3, <1>4, <2>1, <2>2 DEF Agrees
<1>6. CASE proc[p].state # "TERMINATED" /\ proc'[p].state # "TERMINATED"
  <2>1. \A t : Outside(p, t)' <=> Outside(p, t)
    BY <1>1, <1>6 DEF Outside
  <2> QED BY <1>1, <1>2, <1>3, <1>4, <1>6, <2>1 DEF Agrees
<1>7. CASE proc[p].state # "TERMINATED" /\ proc'[p].state = "TERMINATED"
  <2>1. Terminate
    BY <1>1, <1>7, OnlyTerminateTerminates
  <2>2. proc' = [proc EXCEPT ![core[index].node].state = "TERMINATED"]
    BY <2>1 DEF Terminate
  <2>3. p = core[index].node
    BY <1>1, <1>7, <2>2 DEF Inv, TypeOK
  <2>4. stats' = [stats EXCEPT ![p].finishTime = time,
                               ![p].turnaroundTime = time - stats[p].arrivalTime]
    BY <2>1, <2>3 DEF Terminate
  <2>5. stats'[p].finishTime = time /\ time \in Nat
    BY <1>1, <2>4 DEF Inv, TypeOK, ProcessStats
  <2>6. Units = time
    BY <2>1 DEF Terminate, At, Units, Inv, TypeOK
  <2>7. \A t \in 0..(Units - 1) : Outside(p, t)' <=> Outside(p, t)
    <3>1. \A t \in 0..(Units - 1) : ~(t >= time)
      BY <1>1, <2>5, <2>6
    <3> QED BY <1>1, <1>7, <2>5, <3>1 DEF Outside
  <2> QED BY <1>1, <1>2, <1>3, <1>4, <2>5, <2>7 DEF Agrees
<1> QED
  BY <1>5, <1>6, <1>7

(* In a time unit a core executes one process.                             *)
LEMMA UnitApart ==
  ASSUME Inv, Owned, GraphOK, DiskServes, MaxTime < MaxTimeSlots, CoreCount <= 62,
         AdvanceProcessTime, AddEvents, \A p \in AddedProcesses : Agrees(p), Apart
  PROVE  Apart'
<1>1. Units \in Nat /\ Units' = Units + 1
  BY UnitDrawn, UnitsIsNat DEF Inv
<1>2. SUFFICES ASSUME NEW p \in AddedProcesses, NEW q \in AddedProcesses,
                      NEW t \in 0..((Units + 1) - 1), p # q,
                      ProcessCell(p, t)' = ProcessCell(q, t)',
                      ProcessCell(p, t)' \in CoreSymbols
               PROVE  FALSE
  BY <1>1 DEF Apart
<1>3. CASE t \in 0..(Units - 1)
  <2>1. ProcessCell(p, t)' = ProcessCell(p, t) /\ ProcessCell(q, t)' = ProcessCell(q, t)
    BY <1>3, NewColumn
  <2> QED BY <1>2, <1>3, <2>1 DEF Apart
<1>4. CASE t = Units
  <2>1. ProcessCell(p, t)' = Shown(p) /\ ProcessCell(q, t)' = Shown(q)
    <3>1. Printed(graph'.processes[p], Units) = Shown(p)
      BY NewColumn
    <3>2. Printed(graph'.processes[q], Units) = Shown(q)
      BY NewColumn
    <3> QED BY <1>4, <3>1, <3>2 DEF ProcessCell
  <2>2. p \in Procs /\ q \in Procs
    BY AddedAreProcs
  <2>3. proc[p].state = "RUNNING" /\ proc[q].state = "RUNNING"
    BY <1>2, <2>1, <2>2, ShownIs
  <2>4. /\ Shown(p) = IdToSymbol(CoreOf(p)) /\ Shown(q) = IdToSymbol(CoreOf(q))
    BY <2>3 DEF Shown
  <2>5. /\ CoreOf(p) \in Cores /\ core[CoreOf(p)].node = p
        /\ CoreOf(q) \in Cores /\ core[CoreOf(q)].node = q
    BY <2>2, <2>3, CoreOfRunning DEF Inv, Owned, States
  <2>6. CoreOf(p) \in 0..61 /\ CoreOf(q) \in 0..61
    BY <2>5, SizeAssumption DEF Cores
  <2>7. CoreOf(p) = CoreOf(q)
    <3> DEFINE i == CoreOf(p)
               j == CoreOf(q)
    <3>1. i \in 0..61 /\ j \in 0..61 /\ IdToSymbol(i) = IdToSymbol(j)
      BY <1>2, <2>1, <2>4, <2>6
    <3> HIDE DEF i, j
    <3>2. i \in 0..62 /\ j \in 0..62
      BY <3>1
    <3>3. i = j \/ {i, j} = {0, 62}
      BY <3>1, <3>2, SymbolsDiffer
    <3>4. i = j
      BY <3>1, <3>3
    <3> QED BY <3>4 DEF i, j
  <2> QED BY <1>2, <2>5, <2>7
<1> QED
  BY <1>1, <1>3, <1>4

(* The disk is drawn with the symbol of the process it serves.             *)
LEMMA DiskShows ==
  ASSUME Inv, Owned, DiskServes, NbProcesses <= 62, NEW p \in Procs
  PROVE  DiskShown = IdToSymbol(p) <=> disk.state = "DISK_RUNNING" /\ disk.node = p
<1>1. p \in 0..62 /\ p # 0 /\ p \in Nat
  BY SizeAssumption DEF Procs
<1>2. CASE disk.state = "DISK_RUNNING"
  <2> DEFINE o == disk.node
  <2>1. DiskShown = IdToSymbol(o)
    BY <1>2 DEF DiskShown
  <2>2. o \in 0..62 /\ o # 0
    BY <1>2, SizeAssumption DEF DiskServes, Procs
  <2> HIDE DEF o
  <2>3. IdToSymbol(o) = IdToSymbol(p) => o = p \/ {o, p} = {0, 62}
    BY <1>1, <2>2, SymbolsDiffer
  <2>4. IdToSymbol(o) = IdToSymbol(p) => o = p
    BY <1>1, <2>2, <2>3
  <2> QED BY <1>2, <2>1, <2>4 DEF o
<1>3. CASE disk.state # "DISK_RUNNING"
  <2>1. IdToSymbol(p) >= 48 /\ IdToSymbol(p) \in Nat
    BY <1>1, SymbolOf
  <2> QED BY <1>3, <2>1 DEF DiskShown, SPACE
<1> QED
  BY <1>2, <1>3

(* A time unit of I/O is drawn in the disk's row.                          *)
LEMMA UnitDiskAgrees ==
  ASSUME GoodInputs, workload \in Workloads, workload' = workload,
         Inv, Owned, InLine, GraphOK, DiskServes, MaxTime < MaxTimeSlots, NbProcesses <= 62,
         AdvanceProcessTime, AddEvents, NEW p \in AddedProcesses, Agrees(p), DiskAgrees(p)
  PROVE  DiskAgrees(p)'
<1> DEFINE n == Units
           a == proc[p].advancementTime
           old == [t \in 0..n |-> DiskCell(t)]
           new == [t \in 0..n |-> Printed(graph'.disk, t)]
           burst == [t \in 0..a |-> BurstAt(p, t)]
           served == disk.state = "DISK_RUNNING" /\ disk.node = p
           S == {IdToSymbol(p)}
<1>1. /\ p \in Procs /\ n \in Nat /\ n = time /\ Units' = n + 1
      /\ a \in Nat /\ phase = "advanceProcesses"
  <2>1. TypeOK /\ p \in Procs
    BY AddedAreProcs DEF Inv
  <2> QED BY <2>1, UnitDrawn, UnitsIsNat DEF TypeOK, Process, AdvanceProcessTime, At
<1>2. /\ \A t \in 0..(n - 1) : DiskCell(t)' = DiskCell(t) /\ new[t] = old[t]
                               /\ old[t] = DiskCell(t)
      /\ \A t \in 0..((n + 1) - 1) : new[t] = DiskCell(t)'
      /\ new[n] \in S <=> served
  <2>1. /\ \A t \in 0..(n - 1) : DiskCell(t)' = DiskCell(t)
        /\ Printed(graph'.disk, n) = DiskShown
    BY UnitDrawn
  <2>2. DiskShown \in S <=> served
    BY <1>1, DiskShows
  <2> HIDE DEF S, served
  <2> QED BY <1>1, <2>1, <2>2 DEF DiskCell
<1>3. proc'[p].advancementTime = a + (IF Progresses(p) THEN 1 ELSE 0)
  BY <1>1, StatsOfUnit
<1>4. served => proc[p].state = "WAITING"
  BY DEF DiskServes
<1>5. Progresses(p) => burst[a] = IF served THEN "IO" ELSE "CPU"
  <2>1. BurstAt(p, a) = Life!Burst(p)
    BY <1>1 DEF BurstAt, Life!Burst
  <2>2. burst[a] = BurstAt(p, a)
    BY <1>1
  <2>3. /\ proc[p].state = "RUNNING" => Life!Burst(p) = "CPU"
        /\ proc[p].state = "WAITING" /\ served => Life!Burst(p) = "IO"
    BY <1>1, InBurst
  <2> QED BY <1>4, <2>1, <2>2, <2>3 DEF Progresses
<1>6. served => Progresses(p)
  BY <1>4 DEF Progresses
<1>7. /\ DiskColumns(p) = {t \in 0..(n - 1) : old[t] \in S}
      /\ DiskColumns(p)' = {t \in 0..((n + 1) - 1) : new[t] \in S}
  <2>1. /\ DiskColumns(p) = {t \in 0..(n - 1) : DiskCell(t) \in S}
        /\ DiskColumns(p)' = {t \in 0..((n + 1) - 1) : DiskCell(t)' \in S}
    BY <1>1 DEF DiskColumns
  <2> HIDE DEF S, old, new
  <2> QED BY <1>2, <2>1
<1>8. /\ Cardinality(DiskColumns(p)') = Cardinality(DiskColumns(p)) + (IF served THEN 1 ELSE 0)
      /\ Cardinality(DiskColumns(p)) \in Nat
  <2>1. n \in Nat /\ \A t \in 0..(n - 1) : new[t] = old[t]
    BY <1>1, <1>2
  <2> HIDE DEF old, new, n, S, served
  <2>2. /\ Count(new, S, n + 1) = Count(old, S, n) + (IF new[n] \in S THEN 1 ELSE 0)
        /\ Count(old, S, n) \in Nat
    BY <2>1, ColumnCounts
  <2>3. /\ Cardinality(DiskColumns(p)) = Count(old, S, n)
        /\ Cardinality(DiskColumns(p)') = Count(new, S, n + 1)
    BY <1>7 DEF Count
  <2> QED BY <1>2, <2>2, <2>3
<1> DEFINE T == {"IO"}
           Units1(m) == Cardinality({t \in 0..(m - 1) : BurstAt(p, t) \in T})
<1>9. Units1(a + 1) = Units1(a) + (IF burst[a] = "IO" THEN 1 ELSE 0) /\ Units1(a) \in Nat
  <2>1. /\ {t \in 0..((a + 1) - 1) : BurstAt(p, t) \in T} =
             {t \in 0..((a + 1) - 1) : burst[t] \in T}
        /\ {t \in 0..(a - 1) : BurstAt(p, t) \in T} = {t \in 0..(a - 1) : burst[t] \in T}
    BY <1>1
  <2>2. (burst[a] \in T <=> burst[a] = "IO") /\ a \in Nat
    BY <1>1
  <2>3. Units1(a + 1) = Count(burst, T, a + 1) /\ Units1(a) = Count(burst, T, a)
    <3> HIDE DEF burst, a, T
    <3> QED BY <2>1 DEF Count
  <2> HIDE DEF burst, a, T, Units1
  <2>4. /\ Count(burst, T, a + 1) = Count(burst, T, a) + (IF burst[a] \in T THEN 1 ELSE 0)
        /\ Count(burst, T, a) \in Nat
    BY <2>2, ColumnCounts
  <2> QED BY <2>2, <2>3, <2>4
<1>10. Cardinality(DiskColumns(p)') = Units1(proc'[p].advancementTime)
  <2>1. Cardinality(DiskColumns(p)) = Units1(a)
    BY DEF DiskAgrees
  <2> HIDE DEF Units1, burst, a, served
  <2> QED BY <1>1, <1>3, <1>5, <1>6, <1>8, <1>9, <2>1
<1>11. \A t : BurstAt(p, t)' = BurstAt(p, t)
  BY DEF BurstAt
<1>12. Cardinality(DiskColumns(p))' =
         Cardinality({t \in 0..(proc'[p].advancementTime - 1) : BurstAt(p, t)' \in {"IO"}})
  BY <1>10, <1>11
<1>13. ASSUME NEW t \in DiskColumns(p)'
       PROVE  ProcessCell(p, t)' = WAITING_SYMBOL
  <2>1. t \in 0..((n + 1) - 1) /\ new[t] \in S
    <3> HIDE DEF old, new, n, S
    <3> QED BY <1>7
  <2>2. CASE t \in 0..(n - 1)
    <3>1. t \in DiskColumns(p)
      <4>1. old[t] \in S
        <5> HIDE DEF old, new, n, S
        <5> QED BY <1>2, <2>1, <2>2
      <4> HIDE DEF old, new, n, S
      <4> QED BY <1>7, <2>2, <4>1
    <3>2. ProcessCell(p, t)' = ProcessCell(p, t)
      BY <2>2, NewColumn
    <3> QED BY <3>1, <3>2 DEF DiskAgrees
  <2>3. CASE t = n
    <3>1. served
      <4> HIDE DEF old, new, n, S, served
      <4> QED BY <1>2, <2>1, <2>3
    <3>2. Shown(p) = WAITING_SYMBOL
      BY <1>1, <1>4, <3>1, ShownIs
    <3>3. Printed(graph'.processes[p], Units) = Shown(p)
      BY NewColumn
    <3> QED BY <2>3, <3>2, <3>3 DEF ProcessCell
  <2> QED BY <1>1, <2>1, <2>2, <2>3
<1> QED
  BY <1>12, <1>13 DEF DiskAgrees

-----------------------------------------------------------------------------
(* The graph of a whole run *)

(* The graph listens: without it, its steps are steps of the simulator.    *)
LEMMA GraphListens ==
  GraphSpec => StepSpec
<1>1. GraphInit => Init
  BY DEF GraphInit
<1>2. [GraphNext]_graphVars => [Next]_vars
  BY DEF GraphNext, graphVars, Next
<1> QED
  BY <1>1, <1>2, PTL DEF GraphSpec, StepSpec

\* What the simulator's invariants say of every state.
Simulator == Inv /\ Context /\ Kept /\ InLine

LEMMA SimulatorInvariance ==
  ASSUME GoodInputs
  PROVE  GraphSpec => []Simulator
BY GraphListens, StepInvariance, StepContext, StepOwnership, StepInLine, PTL DEF Simulator

(* A step draws a time unit, or draws nothing, or is none.                 *)
LEMMA GraphSteps ==
  ASSUME Simulator, [GraphNext]_graphVars
  PROVE  /\ workload' = workload
         /\ \/ UNCHANGED graphVars
            \/ Owned /\ Next /\ AdvanceProcessTime /\ AddEvents
            \/ Owned /\ Next /\ ~AdvanceProcessTime /\ UNCHANGED graph
<1>1. CASE UNCHANGED graphVars
  BY <1>1 DEF graphVars, vars, system, inputs
<1>2. CASE AdvanceProcessTime /\ AddEvents
  <2>1. Next /\ ~Stop
    <3>1. Next /\ phase = "advanceProcesses" /\ fault = "none"
      BY <1>2 DEF Next, AdvanceProcessTime, At
    <3> QED BY <3>1 DEF Stop
  <2> QED BY <1>2, <2>1, RunningIsOwned, WorkloadKept DEF Simulator
<1>3. CASE Next /\ ~At("advanceProcesses") /\ UNCHANGED graph
  <2>1. CASE Stop
    BY <1>3, <2>1 DEF Stop, graphVars, vars, system, inputs
  <2>2. CASE ~Stop
    <3>1. ~AdvanceProcessTime
      BY <1>3 DEF AdvanceProcessTime
    <3> QED BY <1>3, <2>2, <3>1, RunningIsOwned, WorkloadKept DEF Simulator
  <2> QED BY <2>1, <2>2
<1> QED
  BY <1>1, <1>2, <1>3 DEF GraphNext

\* The inductive invariant of the graph.
GraphInv == GraphOK /\ DiskServes /\ \A p \in AddedProcesses : Agrees(p)

LEMMA GraphAtStart ==
  ASSUME GraphInit
  PROVE  /\ GraphInv /\ Units = 0 /\ Apart
         /\ \A p \in AddedProcesses : DiskAgrees(p)
<1>1. /\ time = 0 /\ phase = "loop" /\ graph = InitGraph
      /\ disk.state = "DISK_IDLE"
      /\ \A p \in Procs : /\ proc[p].state = "READY" /\ proc[p].advancementTime = 0
                          /\ stats[p].cpuTime = 0 /\ stats[p].waitingTime = 0
  BY DEF GraphInit, Init, initStats
<1>2. Units = 0 /\ 0..(Units - 1) = {} /\ 0..(0 - 1) = {}
  BY <1>1 DEF Units
<1>3. /\ graph.processes = [p \in AddedProcesses |-> <<>>] /\ graph.disk = <<>>
      /\ graph.nbTimeSlots = 0
      /\ graph = [processes |-> [p \in AddedProcesses |-> <<>>], disk |-> <<>>,
                  nbTimeSlots |-> 0]
  BY <1>1 DEF InitGraph
<1>4. GraphOK
  <2>1. graph.processes \in [AddedProcesses -> Seq(Drawn)] /\ graph.disk \in Seq(Drawn)
    BY <1>3
  <2>2. graph \in [processes : [AddedProcesses -> Seq(Drawn)], disk : Seq(Drawn),
                   nbTimeSlots : Nat]
    BY <1>3, <2>1
  <2>3. /\ \A p \in AddedProcesses : 1..Len(graph.processes[p]) = {}
        /\ 1..Len(graph.disk) = {}
    BY <1>3
  <2> QED BY <1>1, <1>2, <1>3, <2>2, <2>3, SizeAssumption DEF GraphOK
<1>5. DiskServes
  BY <1>1 DEF DiskServes
<1>6. ASSUME NEW p \in AddedProcesses PROVE Agrees(p) /\ DiskAgrees(p)
  <2>1. /\ proc[p].state = "READY" /\ proc[p].advancementTime = 0
        /\ stats[p].cpuTime = 0 /\ stats[p].waitingTime = 0 /\ graph.processes[p] = <<>>
    BY <1>1, <1>3, AddedAreProcs
  <2>2. CoreColumns(p) = {} /\ ReadyColumns(p) = {} /\ DiskColumns(p) = {}
    BY <1>2 DEF CoreColumns, ReadyColumns, DiskColumns
  <2>3. Cardinality({}) = 0
    BY FS_EmptySet
  <2>4. {t \in 0..(proc[p].advancementTime - 1) : BurstAt(p, t) \in {"IO"}} = {}
    BY <1>2, <2>1
  <2>5. Agrees(p)
    BY <1>2, <2>1, <2>2, <2>3 DEF Agrees
  <2> QED BY <2>2, <2>3, <2>4, <2>5 DEF DiskAgrees
<1>7. Apart
  BY <1>2 DEF Apart
<1> QED
  BY <1>2, <1>4, <1>5, <1>6, <1>7 DEF GraphInv

(* What was drawn stays as it is when nothing changes.                     *)
LEMMA GraphStays ==
  ASSUME UNCHANGED graphVars
  PROVE  /\ GraphInv => GraphInv'
         /\ Apart => Apart'
         /\ (\A p \in AddedProcesses : DiskAgrees(p)) => \A p \in AddedProcesses : DiskAgrees(p)'
<1>1. UNCHANGED <<time, phase, workload, proc, stats, core, disk, graph>>
  BY DEF graphVars, vars, system, inputs
<1>2. /\ Units' = Units
      /\ \A p, t : ProcessCell(p, t)' = ProcessCell(p, t)
      /\ \A t : DiskCell(t)' = DiskCell(t)
      /\ \A p, t : BurstAt(p, t)' = BurstAt(p, t)
      /\ \A p, t : Outside(p, t)' <=> Outside(p, t)
  BY <1>1 DEF Units, ProcessCell, DiskCell, BurstAt, Outside
<1>3. \A p : /\ CoreColumns(p)' = CoreColumns(p) /\ ReadyColumns(p)' = ReadyColumns(p)
             /\ DiskColumns(p)' = DiskColumns(p)
  BY <1>2 DEF CoreColumns, ReadyColumns, DiskColumns
<1>4. GraphOK => GraphOK'
  BY <1>1, <1>2 DEF GraphOK
<1>5. DiskServes => DiskServes'
  BY <1>1 DEF DiskServes
<1>6. ASSUME NEW p PROVE Agrees(p) => Agrees(p)'
  BY <1>1, <1>2, <1>3 DEF Agrees
<1>7. ASSUME NEW p PROVE DiskAgrees(p) => DiskAgrees(p)'
  <2>1. {t \in 0..(proc[p].advancementTime - 1) : BurstAt(p, t) \in {"IO"}}' =
          {t \in 0..(proc[p].advancementTime - 1) : BurstAt(p, t) \in {"IO"}}
    BY <1>1, <1>2
  <2> QED BY <1>2, <1>3, <2>1 DEF DiskAgrees
<1>8. Apart => Apart'
  BY <1>2 DEF Apart
<1> QED
  BY <1>4, <1>5, <1>6, <1>7, <1>8 DEF GraphInv

LEMMA GraphInvariance ==
  ASSUME GoodInputs, MaxTime < MaxTimeSlots
  PROVE  GraphSpec => []GraphInv
<1>1. GraphInit => GraphInv
  BY GraphAtStart
<1>2. Simulator /\ Simulator' /\ GraphInv /\ [GraphNext]_graphVars => GraphInv'
  <2>1. SUFFICES ASSUME Simulator, Simulator', GraphInv, [GraphNext]_graphVars PROVE GraphInv'
    OBVIOUS
  <2>2. Inv /\ Inv' /\ GraphOK /\ DiskServes /\ \A p \in AddedProcesses : Agrees(p)
    BY <2>1 DEF Simulator, GraphInv
  <2>3. workload' = workload
    BY <2>1, GraphSteps
  <2>4. CASE UNCHANGED graphVars
    BY <2>1, <2>4, GraphStays
  <2>5. CASE Owned /\ Next /\ AdvanceProcessTime /\ AddEvents
    <3>1. GraphOK'
      BY <2>2, <2>5, UnitDrawn
    <3>2. DiskServes'
      BY <2>2, <2>5, DiskServesKept
    <3>3. \A p \in AddedProcesses : Agrees(p)'
      BY <2>2, <2>3, <2>5, UnitAgrees
    <3> QED BY <3>1, <3>2, <3>3 DEF GraphInv
  <2>6. CASE Owned /\ Next /\ ~AdvanceProcessTime /\ UNCHANGED graph
    <3>1. GraphOK'
      BY <2>2, <2>6, NothingDrawn
    <3>2. DiskServes'
      BY <2>2, <2>6, DiskServesKept
    <3>3. \A p \in AddedProcesses : Agrees(p)'
      BY <2>2, <2>6, OtherAgrees
    <3> QED BY <3>1, <3>2, <3>3 DEF GraphInv
  <2> QED BY <2>1, <2>4, <2>5, <2>6, GraphSteps
<1> QED
  BY <1>1, <1>2, SimulatorInvariance, PTL DEF GraphSpec

(* The columns printGraph prints are those of the time units drawn.        *)
LEMMA PrintedColumns ==
  ASSUME GraphOK
  PROVE  Columns = 0..(Units - 1) /\ DOMAIN graph.processes = AddedProcesses
BY DEF GraphOK, Columns

(* The rows and the statistics agree, whenever the graph is printed.       *)
THEOREM RowsMatchStatistics ==
  ASSUME GoodInputs, MaxTime < MaxTimeSlots
  PROVE  GraphSpec => []GraphAgreesWithStats
<1>1. GraphInv => GraphAgreesWithStats
  <2>1. SUFFICES ASSUME GraphInv, NEW p \in AddedProcesses
        PROVE  /\ Cardinality(ColumnsOf(p, CoreSymbols)) = stats[p].cpuTime
               /\ Cardinality(ColumnsOf(p, {READY_SYMBOL})) >= stats[p].waitingTime
               /\ \A t \in Columns :
                    ProcessCell(p, t) = SPACE <=>
                      \/ t < workload[p].startTime
                      \/ proc[p].state = "TERMINATED" /\ t >= stats[p].finishTime
    BY PrintedColumns DEF GraphAgreesWithStats, GraphInv
  <2>2. Agrees(p) /\ Columns = 0..(Units - 1)
    BY <2>1, PrintedColumns DEF GraphInv
  <2>3. /\ ColumnsOf(p, CoreSymbols) = CoreColumns(p)
        /\ ColumnsOf(p, {READY_SYMBOL}) = ReadyColumns(p)
    BY <2>2 DEF ColumnsOf, CoreColumns, ReadyColumns
  <2> QED BY <2>2, <2>3 DEF Agrees, Outside
<1> QED
  BY <1>1, GraphInvariance, PTL

(* No two processes are drawn on one core in a time unit: the symbols of   *)
(* up to 62 cores differ.                                                  *)
THEOREM CoresAreNotShared ==
  ASSUME GoodInputs, MaxTime < MaxTimeSlots, CoreCount <= 62
  PROVE  GraphSpec => []OneProcessPerCore
<1>1. GraphInit => Apart
  BY GraphAtStart
<1>2. Simulator /\ GraphInv /\ Apart /\ [GraphNext]_graphVars => Apart'
  <2>1. SUFFICES ASSUME Simulator, GraphInv, Apart, [GraphNext]_graphVars PROVE Apart'
    OBVIOUS
  <2>2. Inv /\ GraphOK /\ DiskServes /\ \A p \in AddedProcesses : Agrees(p)
    BY <2>1 DEF Simulator, GraphInv
  <2>3. CASE UNCHANGED graphVars
    BY <2>1, <2>3, GraphStays
  <2>4. CASE Owned /\ Next /\ AdvanceProcessTime /\ AddEvents
    BY <2>1, <2>2, <2>4, UnitApart
  <2>5. CASE Owned /\ Next /\ ~AdvanceProcessTime /\ UNCHANGED graph
    <3>1. Units' = Units
      BY <2>2, <2>5, NothingDrawn
    <3>2. \A p, t : ProcessCell(p, t)' = ProcessCell(p, t)
      BY <2>5 DEF ProcessCell
    <3> QED BY <2>1, <3>1, <3>2 DEF Apart
  <2> QED BY <2>1, <2>3, <2>4, <2>5, GraphSteps
<1>3. GraphInv /\ Apart => OneProcessPerCore
  BY PrintedColumns DEF GraphInv, Apart, OneProcessPerCore
<1> QED
  BY <1>1, <1>2, <1>3, SimulatorInvariance, GraphInvariance, PTL DEF GraphSpec

(* The disk's row shows the I/O of every process, one column for a time    *)
(* unit: the symbols of up to 62 processes differ.                         *)
THEOREM DiskRowIsIO ==
  ASSUME GoodInputs, MaxTime < MaxTimeSlots, NbProcesses <= 62
  PROVE  GraphSpec => []DiskRowShowsIO
<1> DEFINE Shows == \A p \in AddedProcesses : DiskAgrees(p)
<1>1. GraphInit => Shows
  BY GraphAtStart
<1>2. Simulator /\ GraphInv /\ Shows /\ [GraphNext]_graphVars => Shows'
  <2>1. SUFFICES ASSUME Simulator, GraphInv, Shows, [GraphNext]_graphVars,
                        NEW p \in AddedProcesses
                 PROVE  DiskAgrees(p)'
    OBVIOUS
  <2>2. /\ Inv /\ InLine /\ workload \in Workloads /\ workload' = workload
        /\ GraphOK /\ DiskServes /\ Agrees(p) /\ DiskAgrees(p) /\ p \in Procs
    BY <2>1, GraphSteps, AddedAreProcs DEF Simulator, Context, GraphInv
  <2>3. CASE UNCHANGED graphVars
    BY <2>1, <2>3, GraphStays
  <2>4. CASE Owned /\ Next /\ AdvanceProcessTime /\ AddEvents
    BY <2>2, <2>4, UnitDiskAgrees
  <2>5. CASE Owned /\ Next /\ ~AdvanceProcessTime /\ UNCHANGED graph
    <3>1. Units' = Units /\ proc'[p].advancementTime = proc[p].advancementTime
      BY <2>2, <2>5, NothingDrawn, OnlyStateChanges
    <3>2. /\ \A t : ProcessCell(p, t)' = ProcessCell(p, t)
          /\ \A t : DiskCell(t)' = DiskCell(t)
          /\ \A t : BurstAt(p, t)' = BurstAt(p, t)
      BY <2>2, <2>5 DEF ProcessCell, DiskCell, BurstAt
    <3>3. DiskColumns(p)' = DiskColumns(p)
      BY <3>1, <3>2 DEF DiskColumns
    <3>4. {t \in 0..(proc[p].advancementTime - 1) : BurstAt(p, t) \in {"IO"}}' =
            {t \in 0..(proc[p].advancementTime - 1) : BurstAt(p, t) \in {"IO"}}
      BY <3>1, <3>2
    <3> QED BY <2>2, <3>2, <3>3, <3>4 DEF DiskAgrees
  <2> QED BY <2>1, <2>3, <2>4, <2>5, GraphSteps
<1>3. GraphInv /\ Shows => DiskRowShowsIO
  <2>1. SUFFICES ASSUME GraphInv, NEW p \in AddedProcesses, DiskAgrees(p)
        PROVE  LET shown == {t \in Columns : DiskCell(t) = IdToSymbol(p)}
               IN /\ shown \subseteq ColumnsOf(p, {WAITING_SYMBOL})
                  /\ Cardinality(shown) =
                       Cardinality({t \in 0..(proc[p].advancementTime - 1) :
                                      BurstAt(p, t) = "IO"})
    BY PrintedColumns DEF DiskRowShowsIO, GraphInv
  <2>2. Columns = 0..(Units - 1)
    BY <2>1, PrintedColumns DEF GraphInv
  <2>3. {t \in Columns : DiskCell(t) = IdToSymbol(p)} = DiskColumns(p)
    BY <2>2 DEF DiskColumns
  <2>4. DiskColumns(p) \subseteq ColumnsOf(p, {WAITING_SYMBOL})
    BY <2>1, <2>2 DEF DiskColumns, ColumnsOf, DiskAgrees
  <2>5. {t \in 0..(proc[p].advancementTime - 1) : BurstAt(p, t) = "IO"} =
          {t \in 0..(proc[p].advancementTime - 1) : BurstAt(p, t) \in {"IO"}}
    OBVIOUS
  <2> QED BY <2>1, <2>3, <2>4, <2>5 DEF DiskAgrees
<1> HIDE DEF Shows
<1> QED
  BY <1>1, <1>2, <1>3, SimulatorInvariance, GraphInvariance, PTL DEF GraphSpec
=============================================================================
