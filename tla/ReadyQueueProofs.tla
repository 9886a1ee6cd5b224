-------------------------- MODULE ReadyQueueProofs --------------------------
(***************************************************************************)
(* The ready queues and their options, for any number of processes, cores  *)
(* and queues, and all input files like those of test_files.               *)
(*                                                                         *)
(* 1. The queues are in the order of their algorithms, by keys that are    *)
(*    not out of date.  Two things have to be true: linking and unlinking  *)
(*    a node keep a list in order (queues.c), and nobody writes the sort   *)
(*    keys of a linked node, although four handlers write nodes and PCBs   *)
(*    of processes that are not in a ready queue.  The second comes from   *)
(*    Owned (OwnershipProofs).                                             *)
(*                                                                         *)
(* 2. Which options keep a run from the two list faults that               *)
(*    OwnershipProofs leaves: without --age no node is ever unlinked from  *)
(*    the middle of a list, so no prev pointer gets stale (queues.c:207),  *)
(*    and without --limit on the last queue no process is moved to a queue *)
(*    that does not exist (schedulingLogic.c:335).  With these options the *)
(*    simulator implements ProcessLife without further conditions.         *)
(*                                                                         *)
(* 3. With which options slices and execution limits are kept, although    *)
(*    both are tested with == once per time unit: a counter that passes    *)
(*    its limit unseen is never caught again (schedulingLogic.c:328, :435).*)
(*    The invariants say, for every core, whether the loop has tested it   *)
(*    since its process executed last, and that it is below its limit then.*)
(*                                                                         *)
(* 4. A run in which every process terminates frees every node once.       *)
(*                                                                         *)
(* 5. At the ends of slices no more cores are switched out than there are  *)
(*    processes waiting for one: the cores that are being switched out and *)
(*    the sizes that queuesSizesBeforeRR still holds are together no more  *)
(*    than the processes in the ready queues, unless all sizes are 0.      *)
(***************************************************************************)
EXTENDS ProcessLifeProofs

\* Queue q, with the processes s in it, is in the order of its algorithm.
InOrder(q, s, type, nodes, left, input) ==
  \A k \in 1..Len(s) :
    /\ nodes[s[k]].queueNbr = q
    /\ type = "SJF" =>
         /\ nodes[s[k]].executionTime = left[s[k]]
         /\ \A j \in 1..k : nodes[s[j]].executionTime <= nodes[s[k]].executionTime
    /\ type = "PRIORITY" =>
         \A j \in 1..k : input[s[j]].priority <= input[s[k]].priority

AllInOrder ==
  \A q \in Queue : InOrder(q, readyQueues[q], algorithms[q].type, node, Left, workload)

Sorted(s, key) == \A k \in 1..Len(s) : \A j \in 1..k : key[s[j]] <= key[s[k]]

-----------------------------------------------------------------------------
(* Lists *)

(* enqueueNodePriority and enqueueNodeSJF put a node behind those with a   *)
(* smaller or an equal key, and before those with a larger one.            *)
LEMMA SortedPositionSplits ==
  ASSUME NEW S, NEW s \in Seq(S), NEW p \in S, NEW key \in [S -> Int], Sorted(s, key)
  PROVE  \A j \in 1..Len(s) :
           IF j < SortedPosition(s, p, key) THEN key[s[j]] <= key[p] ELSE key[p] < key[s[j]]
<1>1. Len(s) \in Nat /\ (s # <<>> => Len(s) # 0) /\ key[p] \in Int
  BY EmptySeq, LenProperties
<1>2. \A k \in 1..Len(s) : key[s[k]] \in Int
  BY ElementOfSeq
<1>3. CASE s = <<>>
  BY <1>3
<1>4. CASE s # <<>> /\ key[p] < key[s[1]]
  <2>1. SortedPosition(s, p, key) = 1
    BY <1>4 DEF SortedPosition
  <2>2. ASSUME NEW j \in 1..Len(s) PROVE key[p] < key[s[j]]
    <3>1. key[s[1]] <= key[s[j]] /\ key[s[1]] \in Int /\ key[s[j]] \in Int
      BY <1>1, <1>2 DEF Sorted
    <3> QED BY <1>1, <1>4, <3>1
  <2> QED BY <1>1, <2>1, <2>2
<1>5. CASE s # <<>> /\ key[p] >= key[s[1]] /\ key[p] >= key[s[Len(s)]]
  <2>1. SortedPosition(s, p, key) = Len(s) + 1
    BY <1>5, SortedPositionCases
  <2>2. ASSUME NEW j \in 1..Len(s) PROVE key[s[j]] <= key[p]
    <3>1. /\ key[s[j]] <= key[s[Len(s)]] /\ key[s[Len(s)]] \in Int /\ key[s[j]] \in Int
      BY <1>1, <1>2 DEF Sorted
    <3> QED BY <1>1, <1>5, <3>1
  <2> QED BY <1>1, <2>1, <2>2
<1>6. CASE s # <<>> /\ key[p] >= key[s[1]] /\ key[p] < key[s[Len(s)]]
  <2> DEFINE T == {k \in 2..Len(s) : key[p] < key[s[k]]}
  <2>1. Len(s) \in T
    <3>1. Len(s) # 1
      BY <1>1, <1>2, <1>6
    <3> QED BY <1>1, <1>6, <3>1
  <2>2. PICK k \in T : \A j \in T : k <= j
    <3>1. T \in SUBSET Nat /\ T # {}
      BY <2>1
    <3> HIDE DEF T
    <3> QED BY <3>1, LeastElement
  <2>3. ASSUME NEW j \in 2..(k - 1) PROVE key[p] >= key[s[j]]
    <3>1. j \in 2..Len(s) /\ ~(k <= j) /\ key[s[j]] \in Int
      BY <1>1, <1>2, <2>2
    <3>2. j \notin T
      BY <2>2, <3>1
    <3> QED BY <1>1, <3>1, <3>2
  <2>4. SortedPosition(s, p, key) = k
    BY <1>6, <2>2, <2>3, SortedPositionCases
  <2>5. ASSUME NEW j \in 1..Len(s), j < k PROVE key[s[j]] <= key[p]
    <3>1. CASE j = 1
      BY <1>1, <1>2, <1>6, <3>1
    <3>2. CASE j # 1
      <4>1. j \in 2..(k - 1)
        BY <1>1, <2>2, <2>5, <3>2
      <4>2. key[p] >= key[s[j]] /\ key[s[j]] \in Int
        BY <1>2, <2>3, <4>1
      <4> QED BY <1>1, <4>2
    <3> QED BY <3>1, <3>2
  <2>6. ASSUME NEW j \in 1..Len(s), ~(j < k) PROVE key[p] < key[s[j]]
    <3>1. key[s[k]] <= key[s[j]] /\ key[s[k]] \in Int /\ key[s[j]] \in Int /\ key[p] < key[s[k]]
      BY <1>1, <1>2, <2>2, <2>6 DEF Sorted
    <3> QED BY <1>1, <3>1
  <2> QED BY <2>4, <2>5, <2>6
<1> QED
  BY <1>1, <1>2, <1>3, <1>4, <1>5, <1>6

(* A sorted list stays sorted.                                             *)
LEMMA SortedAfterInsert ==
  ASSUME NEW S, NEW s \in Seq(S), NEW p \in S, NEW key \in [S -> Int], Sorted(s, key)
  PROVE  Sorted(InsertAt(s, SortedPosition(s, p, key), p), key)
<1> DEFINE k == SortedPosition(s, p, key)
           t == InsertAt(s, k, p)
<1>1. Len(s) \in Nat /\ k \in 1..(Len(s) + 1)
  BY LenProperties, SortedPositionInRange
<1>2. \A j \in 1..Len(s) : IF j < k THEN key[s[j]] <= key[p] ELSE key[p] < key[s[j]]
  BY SortedPositionSplits
<1> HIDE DEF k
<1>3. /\ Len(t) = Len(s) + 1
      /\ \A j \in 1..(Len(s) + 1) : t[j] = IF j < k THEN s[j] ELSE IF j = k THEN p ELSE s[j - 1]
  <2>1. Len(t) = Len(s) + 1
    BY <1>1, InsertAtIsSeq
  <2>2. \A j \in 1..(Len(s) + 1) :
          t[j] = IF j < k THEN s[j] ELSE IF j = k THEN p ELSE s[j - 1]
    BY <1>1, InsertAtElements
  <2> QED BY <2>1, <2>2
<1>4. (\A j \in 1..Len(s) : key[s[j]] \in Int) /\ key[p] \in Int
  BY ElementOfSeq
<1> HIDE DEF t
<1>5. ASSUME NEW j \in 1..Len(t), NEW i \in 1..j PROVE key[t[i]] <= key[t[j]]
  <2>1. /\ t[i] = IF i < k THEN s[i] ELSE IF i = k THEN p ELSE s[i - 1]
        /\ t[j] = IF j < k THEN s[j] ELSE IF j = k THEN p ELSE s[j - 1]
    BY SMTT(30), <1>1, <1>3
  <2>2. CASE j < k
    BY <1>1, <1>3, <2>1, <2>2 DEF Sorted
  <2>3. CASE j = k
    <3>1. CASE i = k
      BY <1>4, <2>1, <2>3, <3>1
    <3>2. CASE i < k
      <4>1. i \in 1..Len(s)
        BY <1>1, <3>2
      <4> QED BY <1>2, <2>1, <2>3, <3>2, <4>1
    <3> QED BY <1>1, <2>3, <3>1, <3>2
  <2>4. CASE j > k
    <3>1. j - 1 \in 1..Len(s) /\ ~(j - 1 < k) /\ t[j] = s[j - 1]
      BY <1>1, <1>3, <2>1, <2>4
    <3>2. key[p] < key[s[j - 1]] /\ key[s[j - 1]] \in Int
      BY <1>2, <1>4, <3>1
    <3>3. CASE i < k
      <4>1. i \in 1..Len(s)
        BY <1>1, <3>3
      <4>2. key[s[i]] <= key[p] /\ key[s[i]] \in Int /\ t[i] = s[i]
        BY <1>2, <1>4, <2>1, <3>3, <4>1
      <4> QED BY <1>4, <3>1, <3>2, <4>2
    <3>4. CASE i = k
      <4>1. t[i] = p
        BY <1>1, <2>1, <3>4
      <4> QED BY <1>4, <3>1, <3>2, <4>1
    <3>5. CASE i > k
      <4>1. i - 1 \in 1..(j - 1) /\ t[i] = s[i - 1]
        BY <1>1, <2>1, <3>5
      <4> QED BY <3>1, <4>1 DEF Sorted
    <3> QED BY <1>1, <3>3, <3>4, <3>5
  <2> QED BY <1>1, <1>3, <2>2, <2>3, <2>4
<1> QED
  BY <1>5 DEF Sorted, t, k

(* A queue keeps its order if its nodes keep their keys.                   *)
LEMMA OrderTransfers ==
  ASSUME NEW q, NEW s, NEW type, NEW nodes, NEW left, NEW nodes2, NEW left2, NEW input,
         InOrder(q, s, type, nodes, left, input), Len(s) \in Nat,
         \A k \in 1..Len(s) : /\ nodes2[s[k]].queueNbr = nodes[s[k]].queueNbr
                              /\ nodes2[s[k]].executionTime = nodes[s[k]].executionTime
                              /\ left2[s[k]] = left[s[k]]
  PROVE  InOrder(q, s, type, nodes2, left2, input)
<1>1. SUFFICES ASSUME NEW k \in 1..Len(s)
      PROVE  /\ nodes2[s[k]].queueNbr = q
             /\ type = "SJF" =>
                  /\ nodes2[s[k]].executionTime = left2[s[k]]
                  /\ \A j \in 1..k : nodes2[s[j]].executionTime <= nodes2[s[k]].executionTime
             /\ type = "PRIORITY" =>
                  \A j \in 1..k : input[s[j]].priority <= input[s[k]].priority
  BY DEF InOrder
<1>2. \A j \in 1..k : j \in 1..Len(s)
  OBVIOUS
<1> QED
  BY <1>2 DEF InOrder

(* The same for a step of the simulator.                                   *)
LEMMA StaysInOrder ==
  ASSUME NEW q, NEW s, NEW type,
         InOrder(q, s, type, node, Left, workload), Len(s) \in Nat,
         \A k \in 1..Len(s) : /\ node'[s[k]].queueNbr = node[s[k]].queueNbr
                              /\ node'[s[k]].executionTime = node[s[k]].executionTime
                              /\ Left'[s[k]] = Left[s[k]]
  PROVE  InOrder(q, s, type, node', Left', workload)
<1> HIDE DEF Left
<1> QED
  BY OrderTransfers

(* Nodes that are taken out leave the others in order.                     *)
LEMMA PartInOrder ==
  ASSUME NEW q, NEW s, NEW t, NEW type, NEW nodes, NEW left, NEW input,
         InOrder(q, s, type, nodes, left, input), Len(s) \in Nat, Len(t) = Len(s) - 1,
         NEW k \in 1..Len(s),
         \A j \in 1..Len(t) : t[j] = IF j < k THEN s[j] ELSE s[j + 1]
  PROVE  InOrder(q, t, type, nodes, left, input)
<1>1. SUFFICES ASSUME NEW i \in 1..Len(t)
      PROVE  /\ nodes[t[i]].queueNbr = q
             /\ type = "SJF" =>
                  /\ nodes[t[i]].executionTime = left[t[i]]
                  /\ \A j \in 1..i : nodes[t[j]].executionTime <= nodes[t[i]].executionTime
             /\ type = "PRIORITY" =>
                  \A j \in 1..i : input[t[j]].priority <= input[t[i]].priority
  BY DEF InOrder
<1>2. PICK m \in 1..Len(s) : t[i] = s[m] /\ m = IF i < k THEN i ELSE i + 1
  OBVIOUS
<1>3. ASSUME NEW j \in 1..i PROVE \E n \in 1..m : t[j] = s[n]
  BY <1>2
<1>4. /\ nodes[s[m]].queueNbr = q
      /\ type = "SJF" =>
           /\ nodes[s[m]].executionTime = left[s[m]]
           /\ \A n \in 1..m : nodes[s[n]].executionTime <= nodes[s[m]].executionTime
      /\ type = "PRIORITY" => \A n \in 1..m : input[s[n]].priority <= input[s[m]].priority
  BY DEF InOrder
<1>5. ASSUME type = "SJF", NEW j \in 1..i
      PROVE  nodes[t[j]].executionTime <= nodes[t[i]].executionTime
  BY <1>2, <1>3, <1>4, <1>5
<1>6. ASSUME type = "PRIORITY", NEW j \in 1..i
      PROVE  input[t[j]].priority <= input[t[i]].priority
  BY <1>2, <1>3, <1>4, <1>6
<1> QED
  BY <1>2, <1>4, <1>5, <1>6

(* putprocessInQueue links a node where the algorithm of the queue wants   *)
(* it.                                                                     *)
LEMMA InsertInOrder ==
  ASSUME NEW q, NEW s \in Seq(Procs), NEW p \in Procs, NEW type \in AlgorithmTypes,
         NEW nodes \in [Procs -> Node], NEW left, NEW input \in [Procs -> ProcessInput],
         InOrder(q, s, type, nodes, left, input),
         nodes[p].queueNbr = q, type = "SJF" => nodes[p].executionTime = left[p]
  PROVE  InOrder(q, InsertAt(s, InsertPosition(type, s, p, [x \in Procs |-> input[x].priority],
                                               [x \in Procs |-> nodes[x].executionTime]), p),
                 type, nodes, left, input)
<1> DEFINE priority  == [x \in Procs |-> input[x].priority]
           execution == [x \in Procs |-> nodes[x].executionTime]
           k == InsertPosition(type, s, p, priority, execution)
           t == InsertAt(s, k, p)
<1>1. /\ priority \in [Procs -> Int] /\ execution \in [Procs -> Int]
      /\ \A x \in Procs : priority[x] = input[x].priority /\ execution[x] = nodes[x].executionTime
  BY DEF ProcessInput, Node
<1> HIDE DEF priority, execution
<1>2. Len(s) \in Nat /\ (\A j \in 1..Len(s) : s[j] \in Procs) /\ k \in 1..(Len(s) + 1)
  BY <1>1, LenProperties, ElementOfSeq, InsertPositionInRange DEF AlgorithmTypes
<1>3. /\ Len(t) = Len(s) + 1
      /\ \A j \in 1..(Len(s) + 1) : t[j] = IF j < k THEN s[j] ELSE IF j = k THEN p ELSE s[j - 1]
  BY SMTT(30), <1>2, InsertAtIsSeq, InsertAtElements
<1>4. ASSUME type = "SJF" PROVE Sorted(t, execution)
  <2>1. Sorted(s, execution)
    <3>1. SUFFICES ASSUME NEW i \in 1..Len(s), NEW j \in 1..i
          PROVE  execution[s[j]] <= execution[s[i]]
      BY DEF Sorted
    <3>2. nodes[s[j]].executionTime <= nodes[s[i]].executionTime
      BY <1>4 DEF InOrder
    <3>3. s[i] \in Procs /\ s[j] \in Procs
      BY <1>2
    <3> QED BY <1>1, <3>2, <3>3
  <2>2. k = SortedPosition(s, p, execution)
    BY <1>4 DEF InsertPosition
  <2> QED BY <1>1, <2>1, <2>2, SortedAfterInsert
<1>5. ASSUME type = "PRIORITY" PROVE Sorted(t, priority)
  <2>1. Sorted(s, priority)
    <3>1. SUFFICES ASSUME NEW i \in 1..Len(s), NEW j \in 1..i
          PROVE  priority[s[j]] <= priority[s[i]]
      BY DEF Sorted
    <3>2. input[s[j]].priority <= input[s[i]].priority
      BY <1>5 DEF InOrder
    <3>3. s[i] \in Procs /\ s[j] \in Procs
      BY <1>2
    <3> QED BY <1>1, <3>2, <3>3
  <2>2. k = SortedPosition(s, p, priority)
    BY <1>5 DEF InsertPosition
  <2> QED BY <1>1, <2>1, <2>2, SortedAfterInsert
<1> HIDE DEF k, t
<1>6. ASSUME NEW j \in 1..Len(t) PROVE t[j] = p \/ \E i \in 1..Len(s) : t[j] = s[i]
  <2>1. CASE j < k
    BY <1>2, <1>3, <2>1
  <2>2. CASE j = k
    BY <1>2, <1>3, <2>2
  <2>3. CASE j > k
    BY <1>2, <1>3, <2>3
  <2> QED BY <1>2, <1>3, <2>1, <2>2, <2>3
<1>7. ASSUME NEW j \in 1..Len(t)
      PROVE  /\ t[j] \in Procs /\ nodes[t[j]].queueNbr = q
             /\ type = "SJF" => nodes[t[j]].executionTime = left[t[j]]
  <2>1. CASE t[j] = p
    BY <2>1
  <2>2. CASE \E i \in 1..Len(s) : t[j] = s[i]
    BY <1>2, <2>2 DEF InOrder
  <2> QED BY <1>6, <2>1, <2>2
<1>8. InOrder(q, t, type, nodes, left, input)
  <2>1. \A i \in 1..Len(t) : \A j \in 1..i : j \in 1..Len(t)
    BY <1>2, <1>3
  <2> QED BY <1>1, <1>4, <1>5, <1>7, <2>1 DEF InOrder, Sorted
<1> QED
  BY <1>8 DEF t, k, priority, execution

-----------------------------------------------------------------------------
(* Handlers *)

(* Nobody who waits in a ready queue gets closer to the end of its burst.  *)
LEMMA ReadyWaits ==
  ASSUME Inv, Owned, Next, NEW p \in Ready
  PROVE  Left'[p] = Left[p]
<1>1. TypeOK /\ Exclusive /\ Alive /\ States /\ p \in Procs
  BY DEF Inv, Owned, Ready, InQueues
<1>2. disk.node # p /\ p \notin Waiting /\ p \notin InIO /\ \A c \in Cores : core[c].node # p
  BY <1>1 DEF Exclusive, InIO
<1>3. proc'[p].advancementTime = proc[p].advancementTime
  <2>1. CASE AdvanceProcessTime
    <3>1. ~Progresses(p)
      BY <1>1, <1>2 DEF Progresses, States, RunningOnOccupiedCore
    <3> QED BY <1>1, <2>1, <3>1 DEF AdvanceProcessTime
  <2> QED BY <1>1, <2>1, OnlyStateChanges
<1>4. proc'[p].nextEvents = proc[p].nextEvents
  <2>1. ~ProcessArrived(p)
    <3>1. Living(p)
      BY <1>1 DEF Alive, InCPU
    <3>2. ASSUME ProcessArrived(p)
          PROVE  phase = "arrival" /\ workload[p].startTime = time /\ p >= index
      BY <3>2 DEF ProcessArrived, At, ArrivesNow
    <3> QED BY <1>1, <3>1, <3>2 DEF Arrived, Living, TypeOK, Procs, ProcessInput
  <2>2. StartIO => core[index].node # p
    <3>1. StartIO => index \in Cores
      BY CurrentCore DEF StartIO, At
    <3> QED BY <1>2, <3>1
  <2> QED BY <1>1, <1>2, <2>1, <2>2, OnlyStateChanges
<1>5. workload' = workload
  BY WorkloadKept
<1> QED
  BY <1>1, <1>3, <1>4, <1>5 DEF Left, CurEventTimeLeft, TimeLeft

(* The options are read once.                                              *)
LEMMA OptionsKept ==
  ASSUME Next
  PROVE  algorithms' = algorithms
BY SystemUnchanged DEF vars, inputs, Next, StartTick, EndOfWorkload, ProcessArrived,
   ArrivalsDone, AgingNextQueue, AgingDone, AgingKeep, AgingMove, NoProcess, SwitchInDone,
   SwitchOutDone, Terminate, StartIO, NoEvent, WithinLimit, Demote, Preempt, KeepRunning,
   Resume, NoResume, QueuesSizesBeforeRR, SliceContinues, SwitchOutAfterSlice, NewSlice,
   NoInterrupt, InterruptCore, NoInterruptTime, SkipCore, PutProcessOnCPU, SkipDisk,
   PutProcessOnDisk, AdvanceProcessTime, AdvanceSchedulingTime, FreeComputer, Stop

(* handleProcessForCPU stores the time that is left and then links.        *)
LEMMA EnqueuedInOrder ==
  ASSUME TypeOK, NEW rq \in [Queue -> Seq(Procs)], NEW stale, NEW p \in Procs,
         NEW nd \in Node, NEW timeLeft \in Int,
         HandleProcessForCPU(rq, stale, p, nd, timeLeft), fault' = "none",
         UNCHANGED <<workload, algorithms>>,
         Left'[p] = timeLeft, \A o \in InQueues(rq) : Left'[o] = Left[o],
         \A q \in Queue : InOrder(q, rq[q], algorithms[q].type, node, Left, workload)
  PROVE  AllInOrder'
<1> DEFINE q   == nd.queueNbr
           put == IF q \in Queue /\ algorithms[q].type = "SJF"
                  THEN [nd EXCEPT !.executionTime = timeLeft] ELSE nd
           keys == [x \in Procs |-> IF x = p THEN put.executionTime ELSE node[x].executionTime]
           k   == InsertPosition(algorithms[q].type, rq[q], p,
                                 [x \in Procs |-> workload[x].priority], keys)
           wrong == IF q \notin Queue THEN "queueIndex"
                    ELSE IF \/ \E r \in Queue : ProcessInQueue(rq[r], p)
                            \/ ProcessInQueue(waitingQueue, p) THEN "relinked"
                    ELSE IF ~InsertIsSound(rq[q], k, stale) THEN "stalePrev"
                    ELSE "none"
<1>1. /\ fault' = wrong /\ node' = [node EXCEPT ![p] = put]
      /\ readyQueues' = IF wrong = "none" THEN [rq EXCEPT ![q] = InsertAt(@, k, p)] ELSE rq
  BY DEF HandleProcessForCPU
<1>2. /\ q \in Queue /\ readyQueues' = [rq EXCEPT ![q] = InsertAt(rq[q], k, p)]
      /\ \A r \in Queue : ~ProcessInQueue(rq[r], p)
  BY <1>1
<1>3. /\ node' \in [Procs -> Node] /\ node'[p].queueNbr = q
      /\ algorithms[q].type = "SJF" => node'[p].executionTime = Left'[p]
      /\ \A o \in Procs : o # p => node'[o] = node[o]
  <2>1. put \in Node /\ put.queueNbr = q
        /\ (algorithms[q].type = "SJF" => put.executionTime = timeLeft)
    BY <1>2 DEF Node
  <2> HIDE DEF put, q
  <2> QED BY <1>1, <2>1 DEF TypeOK
<1>4. keys = [x \in Procs |-> node'[x].executionTime]
  <2> HIDE DEF put
  <2> QED BY <1>1, <1>3 DEF TypeOK
<1> HIDE DEF wrong, put, keys
<1>5. ASSUME NEW r \in Queue PROVE InOrder(r, rq[r], algorithms[r].type, node', Left', workload)
  <2>1. Len(rq[r]) \in Nat /\ \A j \in 1..Len(rq[r]) : rq[r][j] \in Procs
    BY LenProperties, ElementOfSeq
  <2>2. ASSUME NEW j \in 1..Len(rq[r])
        PROVE  node'[rq[r][j]] = node[rq[r][j]] /\ Left'[rq[r][j]] = Left[rq[r][j]]
    <3>1. j \in DOMAIN rq[r]
      BY LenProperties
    <3>2. rq[r][j] \in InQueues(rq) /\ rq[r][j] # p
      BY <1>2, <2>1, <3>1 DEF InQueues, ProcessInQueue
    <3> QED BY <1>3, <2>1, <3>2
  <2> QED BY <2>1, <2>2, OrderTransfers
<1>6. InOrder(q, InsertAt(rq[q], k, p), algorithms[q].type, node', Left', workload)
  <2>1. algorithms[q].type \in AlgorithmTypes /\ workload \in [Procs -> ProcessInput]
    BY <1>2 DEF TypeOK, SchedulingAlgorithm
  <2>2. InOrder(q, rq[q], algorithms[q].type, node', Left', workload)
    BY <1>2, <1>5
  <2> HIDE DEF q
  <2> QED BY SMTT(30), <1>2, <1>3, <1>4, <2>1, <2>2, InsertInOrder
<1> HIDE DEF k, q
<1>7. ASSUME NEW r \in Queue
      PROVE  InOrder(r, readyQueues'[r], algorithms[r].type, node', Left', workload)
  BY <1>2, <1>5, <1>6
<1> QED
  BY <1>7 DEF AllInOrder

(* Every handler keeps the ready queues in order.                          *)
LEMMA OrderKept ==
  ASSUME Inv, Owned, Next, AllInOrder, fault' = "none"
  PROVE  AllInOrder'
<1>1. /\ TypeOK /\ Exclusive /\ readyQueues \in [Queue -> Seq(Procs)]
      /\ UNCHANGED <<workload, algorithms>> /\ \A p \in Ready : p \in Procs /\ Left'[p] = Left[p]
      /\ Ready = InQueues(readyQueues)
  BY ReadyWaits, WorkloadKept, OptionsKept DEF Inv, Owned, TypeOK, Ready, InQueues
<1>2. ASSUME NEW q \in Queue, NEW k \in 1..Len(readyQueues[q])
      PROVE  readyQueues[q][k] \in Ready
  <2>1. k \in DOMAIN readyQueues[q] /\ readyQueues[q][k] \in Procs
    BY <1>1, LenProperties, ElementOfSeq
  <2> QED BY <1>1, <2>1 DEF InQueues, ProcessInQueue
<1>3. ASSUME UNCHANGED readyQueues,
             \A p \in Ready : /\ node'[p].queueNbr = node[p].queueNbr
                              /\ node'[p].executionTime = node[p].executionTime
      PROVE  AllInOrder'
  <2>1. SUFFICES ASSUME NEW q \in Queue
        PROVE  InOrder(q, readyQueues[q], algorithms[q].type, node', Left', workload)
    BY <1>1, <1>3 DEF AllInOrder
  <2>2. /\ InOrder(q, readyQueues[q], algorithms[q].type, node, Left, workload)
        /\ Len(readyQueues[q]) \in Nat
    BY <1>1, LenProperties DEF AllInOrder
  <2> QED BY <1>1, <1>2, <1>3, <2>2, StaysInOrder
<1>4. ASSUME NEW stale, NEW p \in Procs, NEW nd \in Node, NEW timeLeft \in Int,
             HandleProcessForCPU(readyQueues, stale, p, nd, timeLeft), Left'[p] = timeLeft
      PROVE  AllInOrder'
  BY <1>1, <1>4, EnqueuedInOrder DEF AllInOrder
<1>5. ASSUME NEW p \in Procs, NEW nd \in Node, SwitchOutReady(index, nd), p = core[index].node,
             index \in Cores
      PROVE  AllInOrder'
  <2>1. p \notin Ready
    BY <1>1, <1>5 DEF Exclusive
  <2>2. CASE SwitchOutDuration > 0
    <3>1. UNCHANGED readyQueues /\ node' = [node EXCEPT ![p] = nd]
      BY <1>5, <2>2 DEF SwitchOutReady
    <3> QED BY <1>1, <1>3, <2>1, <3>1 DEF TypeOK
  <2>3. CASE ~(SwitchOutDuration > 0)
    <3>1. /\ HandleProcessForCPU(readyQueues, stalePrev, p, nd, CurEventTimeLeft(p))
          /\ proc' = [proc EXCEPT ![p].state = "READY"]
      BY <1>5, <2>3 DEF SwitchOutReady
    <3>2. Left'[p] = CurEventTimeLeft(p) /\ CurEventTimeLeft(p) \in Int
      BY <1>1, <3>1, LeftIsInt, LeftOf DEF Left, CurEventTimeLeft, TimeLeft, TypeOK, Process
    <3> QED BY <1>4, <3>1, <3>2
  <2> QED BY <2>2, <2>3
<1>6. CASE \E p \in Procs : ProcessArrived(p)
  <2>1. PICK p \in Procs : ProcessArrived(p)
    BY <1>6
  <2>2. /\ HandleProcessForCPU(readyQueues, stalePrev, p, initNode,
                               TimeLeft(p, Rest(proc[p].nextEvents)))
        /\ proc' = [proc EXCEPT ![p].state = "READY", ![p].nextEvents = Rest(@)]
    BY <2>1 DEF ProcessArrived
  <2>3. /\ proc[p] \in Process /\ proc'[p].nextEvents = Rest(proc[p].nextEvents)
        /\ proc'[p].advancementTime = proc[p].advancementTime
    BY <1>1, <2>2 DEF TypeOK, Process
  <2>4. Left'[p] = TimeLeft(p, Rest(proc[p].nextEvents))
    BY <1>1, <2>3, LeftAfter
  <2>5. TimeLeft(p, Rest(proc[p].nextEvents)) \in Int
    BY <1>1, <2>3, RestIsSeq, TimeLeftIsInt DEF Process
  <2>6. initNode \in Node
    BY DEF initNode, Node
  <2> QED BY <1>4, <2>2, <2>4, <2>5, <2>6
<1>7. CASE AgingMove
  <2> DEFINE p  == cursor
             q  == node[p].queueNbr
             t  == RemoveNode(readyQueues[q], p)
             rq == [readyQueues EXCEPT ![q] = RemoveNode(@, p)]
  <2>1. /\ q \in Queue /\ ProcessInQueue(readyQueues[q], p) /\ p \in Procs
        /\ HandleProcessForCPU(rq, StaleAfterRemove(readyQueues[q], p, stalePrev), p,
                               MovedTo(p, q - 1), CurEventTimeLeft(p))
        /\ UNCHANGED proc
    BY <1>1, <1>7 DEF AgingMove, RemoveIsSound, TypeOK
  <2>2. rq = [readyQueues EXCEPT ![q] = t]
    OBVIOUS
  <2>3. /\ MovedTo(p, q - 1) \in Node /\ CurEventTimeLeft(p) \in Int
        /\ Left'[p] = CurEventTimeLeft(p)
    <3>1. q \in Int
      BY <2>1 DEF Queue
    <3> QED BY <1>1, <2>1, <3>1, MovedToIsNode, LeftIsInt, LeftOf
  <2> HIDE DEF p, q, rq
  <2>4. /\ readyQueues[q] \in Seq(Procs) /\ Len(readyQueues[q]) \in Nat
        /\ PositionOf(readyQueues[q], p) \in 1..Len(readyQueues[q])
        /\ t \in Seq(Procs) /\ Len(t) = Len(readyQueues[q]) - 1
        /\ \A j \in 1..(Len(readyQueues[q]) - 1) :
             t[j] = IF j < PositionOf(readyQueues[q], p) THEN readyQueues[q][j]
                    ELSE readyQueues[q][j + 1]
    <3>1. readyQueues[q] \in Seq(Procs) /\ Len(readyQueues[q]) \in Nat
      BY <1>1, <2>1, LenProperties
    <3>2. PositionOf(readyQueues[q], p) \in 1..Len(readyQueues[q])
      BY <2>1, <3>1, PositionInQueue
    <3>3. t \in Seq(Procs) /\ Len(t) = Len(readyQueues[q]) - 1
      BY <2>1, <3>1, RemoveNodeIsSeq
    <3>4. \A j \in 1..(Len(readyQueues[q]) - 1) :
             t[j] = IF j < PositionOf(readyQueues[q], p) THEN readyQueues[q][j]
                    ELSE readyQueues[q][j + 1]
      BY <2>1, <3>1, RemoveNodeElements
    <3> QED BY <3>1, <3>2, <3>3, <3>4
  <2> HIDE DEF t
  <2>5. InOrder(q, t, algorithms[q].type, node, Left, workload)
    <3>1. InOrder(q, readyQueues[q], algorithms[q].type, node, Left, workload)
      BY <2>1 DEF AllInOrder
    <3> QED BY <2>4, <3>1, PartInOrder
  <2>6. /\ rq \in [Queue -> Seq(Procs)]
        /\ \A r \in Queue : InOrder(r, rq[r], algorithms[r].type, node, Left, workload)
    BY <1>1, <2>1, <2>2, <2>4, <2>5 DEF AllInOrder
  <2>7. \A o \in InQueues(rq) : Left'[o] = Left[o]
    BY <1>1, <2>1, LeftOf DEF InQueues
  <2> QED BY <1>1, <2>1, <2>3, <2>6, <2>7, EnqueuedInOrder
<1>8. CASE SwitchOutDone
  <2> DEFINE p == core[index].node
  <2>1. p \in Procs /\ node[p] \in Node /\ UNCHANGED proc
    BY <1>8, CurrentCore DEF SwitchOutDone, At
  <2>2. \/ UNCHANGED <<node, readyQueues>>
        \/ HandleProcessForCPU(readyQueues, stalePrev, p, node[p], CurEventTimeLeft(p))
    BY <1>8 DEF SwitchOutDone
  <2>3. CurEventTimeLeft(p) \in Int /\ Left'[p] = CurEventTimeLeft(p)
    BY <1>1, <2>1, LeftIsInt, LeftOf
  <2> QED BY <1>3, <1>4, <2>1, <2>2, <2>3
<1>9. CASE Demote \/ Preempt \/ SwitchOutAfterSlice
  <2> DEFINE p == core[index].node
             q == node[p].queueNbr + 1
  <2>1. index \in Cores /\ p \in Procs /\ node[p] \in Node
    <3>1. /\ phase \in {"limit", "preempt", "slice"}
          /\ core[index].state = "OCCUPIED"
      BY <1>9 DEF Demote, Preempt, SwitchOutAfterSlice, SliceOver, At, Inv, IndexOK
    <3>2. index \in Cores
      BY <3>1, CurrentCore
    <3>3. core[index].node # NULL
      BY <3>1, <3>2 DEF Inv, CoreOK
    <3> QED BY <3>1, <3>3, CurrentCore
  <2>2. MovedTo(p, q) \in Node
    <3>1. q \in Int
      BY <2>1 DEF Node
    <3> HIDE DEF q
    <3> QED BY <1>1, <2>1, <3>1, MovedToIsNode
  <2>3. \/ SwitchOutReady(index, node[p]) \/ SwitchOutReady(index, MovedTo(p, q))
        \/ UNCHANGED readyQueues /\ node' = [node EXCEPT ![p] = MovedTo(p, q)]
    BY <1>9 DEF Demote, Preempt, SwitchOutAfterSlice
  <2>4. CASE UNCHANGED readyQueues /\ node' = [node EXCEPT ![p] = MovedTo(p, q)]
    <3>1. p \notin Ready
      BY <1>1, <2>1 DEF Exclusive
    <3> QED BY <1>1, <1>3, <2>4, <3>1 DEF TypeOK
  <2> QED BY <1>5, <2>1, <2>2, <2>3, <2>4
<1>10. CASE Resume \/ NoInterruptTime
  <2> DEFINE p == disk.node
  <2>1. p \in Procs /\ proc[p].nextEvents # <<>> /\ proc[p] \in Process /\ node[p] \in Node
    BY <1>1, <1>10, EndIOInTime DEF TypeOK
  <2>2. PICK running : EndIO(p, running)
    BY <1>10 DEF Resume, NoInterruptTime
  <2>3. HandleProcessForCPU(readyQueues, stalePrev, p, node[p],
                            TimeLeft(p, Rest(proc[p].nextEvents)))
    BY <2>1, <2>2 DEF EndIO
  <2>4. /\ proc'[p].nextEvents = Rest(proc[p].nextEvents)
        /\ proc'[p].advancementTime = proc[p].advancementTime
    BY <1>1, <2>1, <2>2 DEF EndIO, Process
  <2>5. Left'[p] = TimeLeft(p, Rest(proc[p].nextEvents))
    BY <1>1, <2>1, <2>4, LeftAfter
  <2>6. TimeLeft(p, Rest(proc[p].nextEvents)) \in Int
    BY <1>1, <2>1, RestIsSeq, TimeLeftIsInt DEF Process
  <2> QED BY <1>4, <2>1, <2>3, <2>5, <2>6
<1>11. CASE \E q \in Queue : PutProcessOnCPU(q)
  <2>1. PICK q \in Queue : PutProcessOnCPU(q)
    BY <1>11
  <2> DEFINE s == readyQueues[q]
  <2>2. /\ readyQueues' = [readyQueues EXCEPT ![q] = Tail(s)] /\ s # <<>> /\ UNCHANGED node
        /\ s \in Seq(Procs)
    BY <1>1, <2>1 DEF PutProcessOnCPU, DequeueTopNode
  <2>3. /\ Len(s) \in Nat /\ 1 \in 1..Len(s) /\ Len(Tail(s)) = Len(s) - 1
        /\ \A j \in 1..Len(Tail(s)) : Tail(s)[j] = IF j < 1 THEN s[j] ELSE s[j + 1]
    BY <2>2, EmptySeq, LenProperties, HeadTailProperties
  <2>4. InOrder(q, Tail(s), algorithms[q].type, node, Left, workload)
    <3>1. InOrder(q, s, algorithms[q].type, node, Left, workload)
      BY DEF AllInOrder
    <3> HIDE DEF s
    <3> QED BY <2>3, <3>1, PartInOrder
  <2>5. InOrder(q, Tail(s), algorithms[q].type, node', Left', workload)
    <3>1. \A j \in 1..Len(Tail(s)) : Tail(s)[j] \in Ready
      BY <1>2, <2>3
    <3>2. Len(Tail(s)) \in Nat
      BY <2>3
    <3> HIDE DEF s
    <3>3. \A j \in 1..Len(Tail(s)) :
            node'[Tail(s)[j]] = node[Tail(s)[j]] /\ Left'[Tail(s)[j]] = Left[Tail(s)[j]]
      BY <1>1, <2>2, <3>1
    <3> QED BY <2>4, <3>2, <3>3, StaysInOrder
  <2>6. ASSUME NEW r \in Queue, r # q
        PROVE  InOrder(r, readyQueues[r], algorithms[r].type, node', Left', workload)
    <3>1. /\ InOrder(r, readyQueues[r], algorithms[r].type, node, Left, workload)
          /\ Len(readyQueues[r]) \in Nat
      BY <1>1, LenProperties DEF AllInOrder
    <3> QED BY <1>1, <1>2, <2>2, <3>1, StaysInOrder
  <2> HIDE DEF s
  <2> QED BY <1>1, <2>2, <2>5, <2>6 DEF AllInOrder
<1>12. CASE AdvanceSchedulingTime
  <2>1. /\ UNCHANGED readyQueues
        /\ node' = [p \in Procs |->
             [node[p] EXCEPT
                !.currentQueueWaitingTime = IF InReadyQueues(p) THEN @ + 1 ELSE @,
                !.currentQueueExecutionTime = IF Executes(p) THEN @ + 1 ELSE @]]
    BY <1>12 DEF AdvanceSchedulingTime, lists
  <2>2. \A p \in Procs : /\ node'[p].queueNbr = node[p].queueNbr
                         /\ node'[p].executionTime = node[p].executionTime
    BY ZenonT(40), <1>1, <2>1 DEF TypeOK, Node
  <2> QED BY <1>1, <1>3, <2>1, <2>2
<1>13. CASE ~ \/ \E p \in Procs : ProcessArrived(p)
              \/ AgingMove \/ SwitchOutDone \/ Demote \/ Preempt \/ SwitchOutAfterSlice
              \/ Resume \/ NoInterruptTime \/ (\E q \in Queue : PutProcessOnCPU(q))
              \/ AdvanceSchedulingTime
  <2>1. UNCHANGED <<node, readyQueues>>
    BY <1>13, SystemUnchanged DEF lists, Next, StartTick, EndOfWorkload, ArrivalsDone,
       AgingNextQueue, AgingDone, AgingKeep, NoProcess, SwitchInDone, Terminate, StartIO,
       NoEvent, WithinLimit, KeepRunning, NoResume, QueuesSizesBeforeRR, SliceContinues,
       NewSlice, NoInterrupt, InterruptCore, SkipCore, SkipDisk, PutProcessOnDisk,
       AdvanceProcessTime, FreeComputer, Stop, vars
  <2> QED BY <1>3, <2>1
<1> QED
  BY <1>6, <1>7, <1>8, <1>9, <1>10, <1>11, <1>12, <1>13

LEMMA OrderInvariance ==
  ASSUME GoodInputs
  PROVE  Spec => [](fault = "none" => AllInOrder)
<1> DEFINE Order == fault = "none" => AllInOrder
<1>1. Init => Order
  <2>1. SUFFICES ASSUME Init PROVE \A q \in Queue : readyQueues[q] = <<>>
    BY DEF AllInOrder, InOrder
  <2> QED BY <2>1 DEF Init
<1>2. Inv /\ Kept /\ Order /\ [Next]_vars => Order'
  <2>1. SUFFICES ASSUME Inv, Kept, Order, [Next]_vars PROVE Order'
    OBVIOUS
  <2>2. CASE UNCHANGED vars \/ Stop
    <3>1. UNCHANGED <<workload, algorithms, proc, node, readyQueues, fault>>
      BY <2>2 DEF Stop, vars, system, inputs, lists
    <3>2. UNCHANGED Left
      BY <3>1, ViewsUnchanged
    <3> QED BY <2>1, <3>1, <3>2 DEF AllInOrder
  <2>3. CASE Next /\ ~Stop
    <3>1. fault = "none" /\ Owned
      BY <2>1, <2>3, RunningIsOwned
    <3> QED BY <2>1, <2>3, <3>1, OrderKept
  <2> QED BY <2>1, <2>2, <2>3
<1> HIDE DEF Order
<1>3. Spec => []Order
  BY <1>1, <1>2, Invariance, Ownership, PTL DEF Spec
<1> QED
  BY <1>3 DEF Order

(* dequeueTopReadyQueue and the preemption test may look at the head of a  *)
(* queue only: nobody behind it goes first.                                *)
THEOREM QueuesStayOrdered ==
  ASSUME GoodInputs
  PROVE  Spec => []QueuesAreOrdered
<1>1. Inv /\ (fault = "none" => AllInOrder) => QueuesAreOrdered
  <2>1. SUFFICES ASSUME Inv, AllInOrder, fault = "none", NEW q \in Queue,
                        NEW k \in DOMAIN readyQueues[q]
        PROVE  LET p == readyQueues[q][k]
               IN /\ node[p].queueNbr = q
                  /\ algorithms[q].type = "SJF" =>
                       /\ node[p].executionTime = CurEventTimeLeft(p)
                       /\ \A j \in 1..k : node[readyQueues[q][j]].executionTime
                                             <= node[p].executionTime
                  /\ algorithms[q].type = "PRIORITY" =>
                       \A j \in 1..k : workload[readyQueues[q][j]].priority
                                          <= workload[p].priority
    BY DEF QueuesAreOrdered
  <2>2. k \in 1..Len(readyQueues[q]) /\ readyQueues[q][k] \in Procs
    BY <2>1, LenProperties, ElementOfSeq DEF Inv, TypeOK
  <2>3. Left[readyQueues[q][k]] = CurEventTimeLeft(readyQueues[q][k])
    BY <2>2, LeftOf
  <2> QED BY <2>1, <2>2, <2>3 DEF AllInOrder, InOrder
<1> QED
  BY <1>1, Invariance, OrderInvariance, PTL

-----------------------------------------------------------------------------
(* Safe options *)

ListFaults == {"queueIndex", "stalePrev"}

\* What these options guarantee: every node names a queue that exists, and
\* every prev pointer is right.
ListsOK ==
  /\ algorithms \in Configurations
  /\ stalePrev = {}
  /\ \A p \in Procs : node[p].queueNbr \in Queue
  /\ phase = "aging" => cursor = NULL
  /\ fault \notin ListFaults

\* A run may still end with a node that freeComputer frees twice (cut_off).
SafeUntilTheEnd == phase # "done" => fault = "none"

-----------------------------------------------------------------------------
(* Linking a node is safe when every prev pointer is right and the queue   *)
(* exists.                                                                 *)
LEMMA SafeEnqueue ==
  ASSUME TypeOK, NEW rq, NEW p \in Procs, NEW nd \in Node, NEW timeLeft \in Int,
         nd.queueNbr \in Queue, \A o \in Procs : node[o].queueNbr \in Queue,
         HandleProcessForCPU(rq, {}, p, nd, timeLeft)
  PROVE  /\ fault' \notin ListFaults /\ stalePrev' = {}
         /\ \A o \in Procs : node'[o].queueNbr \in Queue
<1> DEFINE q   == nd.queueNbr
           put == IF q \in Queue /\ algorithms[q].type = "SJF"
                  THEN [nd EXCEPT !.executionTime = timeLeft] ELSE nd
           k   == InsertPosition(algorithms[q].type, rq[q], p,
                                 [x \in Procs |-> workload[x].priority],
                                 [x \in Procs |-> IF x = p THEN put.executionTime
                                                  ELSE node[x].executionTime])
           wrong == IF q \notin Queue THEN "queueIndex"
                    ELSE IF \/ \E r \in Queue : ProcessInQueue(rq[r], p)
                            \/ ProcessInQueue(waitingQueue, p) THEN "relinked"
                    ELSE IF ~InsertIsSound(rq[q], k, {}) THEN "stalePrev"
                    ELSE "none"
<1>1. /\ fault' = wrong /\ node' = [node EXCEPT ![p] = put]
      /\ stalePrev' = IF wrong = "none" THEN StaleAfterInsert(rq[q], k, p, {}) ELSE {}
  BY DEF HandleProcessForCPU
<1>2. put.queueNbr \in Queue
  BY DEF Node
<1>3. wrong \notin ListFaults
  <2> HIDE DEF k
  <2> QED BY DEF ListFaults, InsertIsSound
<1>4. stalePrev' = {}
  <2> HIDE DEF k, wrong
  <2> QED BY <1>1 DEF StaleAfterInsert
<1> HIDE DEF put, wrong
<1>5. ASSUME NEW o \in Procs PROVE node'[o].queueNbr \in Queue
  BY <1>1, <1>2 DEF TypeOK
<1> QED
  BY <1>1, <1>3, <1>4, <1>5

(* Every handler leaves the lists in this condition.                       *)
LEMMA ListsKept ==
  ASSUME SafeOptions, Inv, Owned, Next, ~Stop, ListsOK
  PROVE  ListsOK'
<1>1. /\ TypeOK /\ stalePrev = {} /\ (\A p \in Procs : node[p].queueNbr \in Queue)
      /\ algorithms \in Configurations /\ (phase = "aging" => cursor = NULL)
      /\ \A q \in Queue : algorithms[q].ageLimit = NO_LIMIT
      /\ algorithms[QueueCount - 1].executiontTimeLimit = NO_LIMIT
  BY DEF Inv, ListsOK, SafeOptions
<1>2. algorithms' = algorithms
  BY SystemUnchanged DEF vars, inputs, Next, StartTick, EndOfWorkload, ProcessArrived,
   ArrivalsDone, AgingNextQueue, AgingDone, AgingKeep, AgingMove, NoProcess, SwitchInDone,
   SwitchOutDone, Terminate, StartIO, NoEvent, WithinLimit, Demote, Preempt, KeepRunning,
   Resume, NoResume, QueuesSizesBeforeRR, SliceContinues, SwitchOutAfterSlice, NewSlice,
   NoInterrupt, InterruptCore, NoInterruptTime, SkipCore, PutProcessOnCPU, SkipDisk,
   PutProcessOnDisk, AdvanceProcessTime, AdvanceSchedulingTime, FreeComputer
<1>3. phase' = "aging" => cursor' = NULL
  <2>1. CASE ArrivalsDone
    <3>1. cursor' = AgingHead(0)
      BY <2>1 DEF ArrivalsDone
    <3> QED BY <1>1, <3>1, FirstCoreAndQueue DEF AgingHead
  <2>2. CASE AgingNextQueue
    <3>1. cursor' = AgingHead(index + 1) /\ index < QueueCount - 1 /\ index \in Nat
      BY <1>1, <2>2 DEF AgingNextQueue, TypeOK
    <3>2. index + 1 \in Queue
      BY <3>1, SizeAssumption DEF Queue
    <3> QED BY <1>1, <3>1, <3>2 DEF AgingHead
  <2>3. CASE ~(ArrivalsDone \/ AgingNextQueue)
    <3>1. phase' # "aging"
      BY <1>1, <2>3 DEF Next, At, Goto, NextCore, PreviousCore, NextIdleCore, StartTick,
         EndOfWorkload, ProcessArrived, AgingDone, AgingKeep, AgingMove, NoProcess,
         SwitchInDone, SwitchOutDone, Terminate, StartIO, NoEvent, WithinLimit, Demote,
         Preempt, KeepRunning, Resume, NoResume, QueuesSizesBeforeRR, SliceContinues,
         SwitchOutAfterSlice, NewSlice, NoInterrupt, InterruptCore, NoInterruptTime, SkipCore,
         PutProcessOnCPU, SkipDisk, PutProcessOnDisk, AdvanceProcessTime,
         AdvanceSchedulingTime, FreeComputer
    <3> QED BY <3>1
  <2> QED BY <2>1, <2>2, <2>3
<1> DEFINE Good == /\ fault' \notin ListFaults /\ stalePrev' = {}
                   /\ \A p \in Procs : node'[p].queueNbr \in Queue
<1>4. SUFFICES Good
  BY <1>1, <1>2, <1>3 DEF ListsOK
<1>5. ASSUME NEW p \in Procs, NEW nd \in Node, nd.queueNbr \in Queue, SwitchOutReady(index, nd),
             p = core[index].node, fault = "none"
      PROVE  Good
  <2>1. CASE SwitchOutDuration > 0
    <3>1. UNCHANGED <<stalePrev, fault>> /\ node' = [node EXCEPT ![p] = nd]
      BY <1>5, <2>1 DEF SwitchOutReady
    <3> QED BY <1>1, <1>5, <3>1 DEF ListFaults, TypeOK
  <2>2. CASE ~(SwitchOutDuration > 0)
    <3>1. HandleProcessForCPU(readyQueues, {}, p, nd, CurEventTimeLeft(p))
      BY <1>1, <1>5, <2>2 DEF SwitchOutReady
    <3>2. CurEventTimeLeft(p) \in Int
      BY <1>1, LeftIsInt, LeftOf
    <3> QED BY <1>1, <1>5, <3>1, <3>2, SafeEnqueue
  <2> QED BY <2>1, <2>2
<1>6. CASE \E p \in Procs : ProcessArrived(p)
  <2>1. PICK p \in Procs : ProcessArrived(p)
    BY <1>6
  <2>2. HandleProcessForCPU(readyQueues, {}, p, initNode,
                            TimeLeft(p, Rest(proc[p].nextEvents)))
    BY <1>1, <2>1 DEF ProcessArrived
  <2>3. initNode \in Node /\ initNode.queueNbr \in Queue
    BY FirstCoreAndQueue DEF initNode, Node
  <2>4. TimeLeft(p, Rest(proc[p].nextEvents)) \in Int
    BY <1>1, RestIsSeq, TimeLeftIsInt DEF TypeOK, Process
  <2> QED BY <1>1, <2>2, <2>3, <2>4, SafeEnqueue
<1>7. CASE AgingMove
  BY <1>1, <1>7 DEF AgingMove, At
<1>8. CASE SwitchOutDone
  <2> DEFINE p == core[index].node
  <2>1. p \in Procs /\ node[p] \in Node
    BY <1>8, CurrentCore DEF SwitchOutDone, At
  <2>2. \/ UNCHANGED <<node, stalePrev, fault>>
        \/ HandleProcessForCPU(readyQueues, {}, p, node[p], CurEventTimeLeft(p))
    BY <1>1, <1>8 DEF SwitchOutDone
  <2>3. CurEventTimeLeft(p) \in Int /\ node[p].queueNbr \in Queue /\ fault \notin ListFaults
    BY <1>1, <2>1, LeftIsInt, LeftOf DEF ListsOK
  <2> QED BY <1>1, <2>1, <2>2, <2>3, SafeEnqueue
<1>9. CASE Demote \/ Preempt \/ SwitchOutAfterSlice
  <2> DEFINE p == core[index].node
             q == node[p].queueNbr + 1
  <2>1. index \in Cores /\ p \in Procs /\ node[p] \in Node /\ fault = "none"
    <3>1. /\ phase \in {"limit", "preempt", "slice"} /\ fault = "none"
          /\ core[index].state = "OCCUPIED"
      BY <1>9 DEF Demote, Preempt, SwitchOutAfterSlice, SliceOver, At, Inv, IndexOK
    <3>2. index \in Cores
      BY <3>1, CurrentCore
    <3>3. core[index].node # NULL
      BY <3>1, <3>2 DEF Inv, CoreOK
    <3> QED BY <3>1, <3>3, CurrentCore
  <2>2. CASE Demote
    <3>1. LimitReached(p)
      BY <2>2 DEF Demote
    <3>2. node[p].queueNbr \in Queue /\ node[p].queueNbr # QueueCount - 1
      BY <1>1, <2>1, <3>1 DEF LimitReached
    <3>3. q \in Queue /\ q \in Int
      <4> DEFINE n == node[p].queueNbr
      <4>1. n \in Queue /\ n # QueueCount - 1 /\ q = n + 1
        BY <3>2
      <4> HIDE DEF n, q
      <4> QED BY <4>1, SizeAssumption DEF Queue
    <3>4. MovedTo(p, q) \in Node /\ MovedTo(p, q).queueNbr = q
      <4> HIDE DEF q
      <4>1. MovedTo(p, q) \in Node
        BY <1>1, <2>1, <3>3, MovedToIsNode
      <4> QED BY <2>1, <4>1 DEF MovedTo, Node
    <3>5. \/ SwitchOutReady(index, MovedTo(p, q))
          \/ /\ node' = [node EXCEPT ![p] = MovedTo(p, q)]
             /\ fault' = IF q \in Queue THEN "none" ELSE "queueIndex"
             /\ UNCHANGED stalePrev
      BY <2>2 DEF Demote
    <3> HIDE DEF q
    <3>6. CASE SwitchOutReady(index, MovedTo(p, q))
      BY <1>5, <2>1, <3>3, <3>4, <3>6
    <3>7. CASE /\ node' = [node EXCEPT ![p] = MovedTo(p, q)]
               /\ fault' = IF q \in Queue THEN "none" ELSE "queueIndex"
               /\ UNCHANGED stalePrev
      BY <1>1, <3>3, <3>4, <3>7 DEF ListFaults, TypeOK
    <3> QED BY <3>5, <3>6, <3>7
  <2>3. CASE Preempt \/ SwitchOutAfterSlice
    <3>1. SwitchOutReady(index, node[p]) /\ node[p].queueNbr \in Queue
      BY <1>1, <2>1, <2>3 DEF Preempt, SwitchOutAfterSlice
    <3> QED BY <1>5, <2>1, <3>1
  <2> QED BY <1>9, <2>2, <2>3
<1>10. CASE Resume \/ NoInterruptTime
  <2> DEFINE p == disk.node
  <2>1. p \in Procs /\ proc[p].nextEvents # <<>> /\ proc[p] \in Process /\ node[p] \in Node
    BY <1>1, <1>10, EndIOInTime DEF TypeOK
  <2>2. PICK running : EndIO(p, running)
    BY <1>10 DEF Resume, NoInterruptTime
  <2>3. HandleProcessForCPU(readyQueues, {}, p, node[p],
                            TimeLeft(p, Rest(proc[p].nextEvents)))
    BY <1>1, <2>1, <2>2 DEF EndIO
  <2>4. TimeLeft(p, Rest(proc[p].nextEvents)) \in Int /\ node[p].queueNbr \in Queue
    BY <1>1, <2>1, RestIsSeq, TimeLeftIsInt DEF Process
  <2> QED BY <1>1, <2>1, <2>3, <2>4, SafeEnqueue
<1>11. CASE \E q \in Queue : PutProcessOnCPU(q)
  <2>1. /\ UNCHANGED <<node, fault>>
        /\ \E s : stalePrev' = StaleAfterDequeue(s, stalePrev)
    BY <1>11 DEF PutProcessOnCPU
  <2> QED BY <1>1, <2>1 DEF StaleAfterDequeue, ListsOK
<1>12. CASE AdvanceSchedulingTime
  <2>1. /\ UNCHANGED <<stalePrev, fault>>
        /\ node' = [p \in Procs |->
             [node[p] EXCEPT
                !.currentQueueWaitingTime = IF InReadyQueues(p) THEN @ + 1 ELSE @,
                !.currentQueueExecutionTime = IF Executes(p) THEN @ + 1 ELSE @]]
    BY <1>12 DEF AdvanceSchedulingTime, lists
  <2>2. \A p \in Procs : node'[p].queueNbr = node[p].queueNbr
    BY <1>1, <2>1 DEF TypeOK, Node
  <2> QED BY <1>1, <2>1, <2>2 DEF ListsOK
<1>13. CASE Terminate \/ StartIO \/ AdvanceProcessTime \/ FreeComputer
  <2>1. UNCHANGED <<node, stalePrev>>
    BY <1>13 DEF Terminate, StartIO, AdvanceProcessTime, FreeComputer, lists
  <2>2. fault' \in {"none", "freed", "relinked", "nullDisk"}
    BY <1>13 DEF Terminate, StartIO, BurstOver, AdvanceProcessTime, FreeComputer, At
  <2> QED BY <1>1, <2>1, <2>2 DEF ListFaults
<1>14. CASE ~ \/ \E p \in Procs : ProcessArrived(p)
              \/ AgingMove \/ SwitchOutDone \/ Demote \/ Preempt \/ SwitchOutAfterSlice
              \/ Resume \/ NoInterruptTime \/ (\E q \in Queue : PutProcessOnCPU(q))
              \/ AdvanceSchedulingTime
              \/ Terminate \/ StartIO \/ AdvanceProcessTime \/ FreeComputer
  <2>1. UNCHANGED <<node, stalePrev, fault>>
    BY <1>14, SystemUnchanged DEF lists, Next, StartTick, EndOfWorkload, ArrivalsDone,
       AgingNextQueue, AgingDone, AgingKeep, NoProcess, SwitchInDone, NoEvent, WithinLimit,
       KeepRunning, NoResume, QueuesSizesBeforeRR, SliceContinues, NewSlice, NoInterrupt,
       InterruptCore, SkipCore, SkipDisk, PutProcessOnDisk, vars
  <2> QED BY <1>1, <2>1 DEF ListsOK
<1> QED
  BY <1>6, <1>7, <1>8, <1>9, <1>10, <1>11, <1>12, <1>13, <1>14

LEMMA ListsInvariance ==
  ASSUME GoodInputs, SafeOptions
  PROVE  Spec => []ListsOK
<1>1. Init => ListsOK
  BY FirstCoreAndQueue DEF Init, ListsOK, ListFaults, initNode
<1>2. Inv /\ Kept /\ ListsOK /\ [Next]_vars => ListsOK'
  <2>1. SUFFICES ASSUME Inv, Kept, ListsOK, [Next]_vars PROVE ListsOK'
    OBVIOUS
  <2>2. CASE UNCHANGED vars \/ Stop
    <3>1. UNCHANGED <<algorithms, stalePrev, node, phase, cursor, fault>>
      BY <2>2 DEF Stop, vars, system, inputs, lists
    <3> QED BY <2>1, <3>1 DEF ListsOK
  <2>3. CASE Next /\ ~Stop
    BY <2>1, <2>3, RunningIsOwned, ListsKept
  <2> QED BY <2>1, <2>2, <2>3
<1> QED
  BY <1>1, <1>2, Invariance, Ownership, PTL DEF Spec

-----------------------------------------------------------------------------
(* The results *)

(* Without --age, and without --limit on the last queue, no handler of the *)
(* simulation follows a NULL, dangling or out-of-range pointer: before     *)
(* freeComputer nothing goes wrong.                                        *)
THEOREM SafeOptionsAreSafe ==
  ASSUME GoodInputs, SafeOptions
  PROVE  Spec => []SafeUntilTheEnd
<1>1. Kept /\ ListsOK => SafeUntilTheEnd
  BY DEF Kept, OkFaults, ListsOK, ListFaults, SafeUntilTheEnd
<1> QED
  BY <1>1, Ownership, ListsInvariance, PTL

(* freeComputer is not seen by the processes, whatever it frees twice.     *)
LEMMA FreeingIsQuiet ==
  ASSUME Inv, Owned, FreeComputer
  PROVE  UNCHANGED Life!life
<1>1. Next /\ ~AdvanceProcessTime /\ ~Terminate /\ \A o \in Procs : ~ProcessArrived(o)
  BY DEF Next, FreeComputer, AdvanceProcessTime, Terminate, ProcessArrived, At
<1>2. UNCHANGED <<readyQueues, waitingQueue, disk>>
  BY DEF FreeComputer, lists
<1> QED
  BY <1>1, <1>2, ViewsUnchanged, Stays

(* With these options the simulator implements ProcessLife in every run.   *)
THEOREM LifeIsAlwaysImplemented ==
  ASSUME GoodInputs, SafeOptions
  PROVE  Spec => ImplementsProcessLife
<1>1. Init => Life!Init
  BY LifeAtStart
<1> DEFINE Known == Inv /\ Context /\ Kept /\ InLine /\ SafeUntilTheEnd
<1>2. Known /\ Known' /\ [Next]_vars => [Life!Next]_Life!life
  <2>1. SUFFICES ASSUME Known, Known', [Next]_vars PROVE [Life!Next]_Life!life
    OBVIOUS
  <2>2. Inv /\ AssigningOK /\ workload \in Workloads
    BY <2>1 DEF Context
  <2>3. CASE UNCHANGED vars \/ Stop
    <3>1. UNCHANGED vars
      BY <2>3 DEF Stop
    <3> QED BY <3>1, StutterIsStutter
  <2>4. CASE Next /\ ~Stop
    <3>1. Owned
      BY <2>1, <2>4, RunningIsOwned
    <3>2. CASE FreeComputer
      BY <2>1, <3>1, <3>2, FreeingIsQuiet
    <3>3. CASE ~FreeComputer
      <4>1. phase' # "done"
        BY <2>4, <3>3 DEF Next, At, Goto, NextCore, PreviousCore, NextIdleCore, StartTick,
           EndOfWorkload, ProcessArrived, ArrivalsDone, AgingNextQueue, AgingDone, AgingKeep,
           AgingMove, NoProcess, SwitchInDone, SwitchOutDone, Terminate, StartIO, NoEvent,
           WithinLimit, Demote, Preempt, KeepRunning, Resume, NoResume, QueuesSizesBeforeRR,
           SliceContinues, SwitchOutAfterSlice, NewSlice, NoInterrupt, InterruptCore,
           NoInterruptTime, SkipCore, PutProcessOnCPU, SkipDisk, PutProcessOnDisk,
           AdvanceProcessTime, AdvanceSchedulingTime
      <4>2. fault' = "none" /\ Owned'
        BY <2>1, <4>1 DEF SafeUntilTheEnd, Kept
      <4> QED BY <2>1, <2>2, <3>1, <4>2, NextIsStep
    <3> QED BY <3>2, <3>3
  <2> QED BY <2>1, <2>3, <2>4
<1>3. Spec => []Known
  BY Invariance, ContextInvariance, Ownership, InLineInvariance, SafeOptionsAreSafe, PTL
<1> HIDE DEF Known
<1> QED
  BY <1>1, <1>2, <1>3, PTL DEF Spec, ImplementsProcessLife, Life!Spec
-----------------------------------------------------------------------------
(* Slices and execution limits *)

\* Core c executes its process, or will when its interrupt is over.
Executing(c) ==
  \/ core[c].state = "OCCUPIED"
  \/ core[c].state = "INTERRUPTED" /\ StateBeforeInterrupt(c) = "OCCUPIED"

\* Core c has passed the test of the slice, and the test of the execution limit,
\* since its process executed last.
SliceTested(c) ==
  \/ core[c].state = "INTERRUPTED"
  \/ phase = "slice" /\ c > index
  \/ phase \in {"interrupt", "assignCores", "assignDisk", "advanceProcesses",
                "advanceScheduling"}

LimitTested(c) ==
  \/ core[c].state = "INTERRUPTED"
  \/ phase \in {"event", "limit"} /\ c < index
  \/ phase \in {"preempt", "resume"} /\ c <= index
  \/ phase \in {"sizes", "slice", "interrupt", "assignCores", "assignDisk",
                "advanceProcesses", "advanceScheduling"}

\* A process that is not switched out is in a queue that exists.
QueuesExist ==
  \A c \in Cores : core[c].node # NULL /\ core[c].state # "SWITCH_OUT"
                     /\ core[c].switchOutTimer = 0
    => node[core[c].node].queueNbr \in Queue

WithinSlice(c) ==
  LET algorithm == algorithms[node[core[c].node].queueNbr]
  IN algorithm.type = "RR" =>
       /\ core[c].quantumTime <= algorithm.RRSliceLimit
       /\ SliceTested(c) => core[c].quantumTime < algorithm.RRSliceLimit

SlicesKept == \A c \in Cores : Executing(c) => WithinSlice(c)

\* The execution limit of the queue that p is in, if there is one.
LimitOf(p) == algorithms[node[p].queueNbr].executiontTimeLimit

LimitsKept ==
  /\ \A p \in Procs : node[p].queueNbr \in Queue /\ LimitOf(p) # NO_LIMIT =>
       node[p].currentQueueExecutionTime <= LimitOf(p)
  /\ \A c \in Cores : Executing(c) /\ LimitTested(c) /\ LimitOf(core[c].node) # NO_LIMIT =>
       node[core[c].node].currentQueueExecutionTime < LimitOf(core[c].node)

-----------------------------------------------------------------------------
(* What handleProcessForCPU does to the queue numbers and execution times. *)
LEMMA NodeEnqueued ==
  ASSUME TypeOK, NEW rq, NEW stale, NEW o \in Procs, NEW nd \in Node, NEW timeLeft \in Int,
         HandleProcessForCPU(rq, stale, o, nd, timeLeft), fault' = "none"
  PROVE  /\ nd.queueNbr \in Queue
         /\ node'[o].queueNbr = nd.queueNbr
         /\ node'[o].currentQueueExecutionTime = nd.currentQueueExecutionTime
         /\ \A p \in Procs : p # o => node'[p] = node[p]
<1> DEFINE q   == nd.queueNbr
           put == IF q \in Queue /\ algorithms[q].type = "SJF"
                  THEN [nd EXCEPT !.executionTime = timeLeft] ELSE nd
           k   == InsertPosition(algorithms[q].type, rq[q], o,
                                 [x \in Procs |-> workload[x].priority],
                                 [x \in Procs |-> IF x = o THEN put.executionTime
                                                  ELSE node[x].executionTime])
           wrong == IF q \notin Queue THEN "queueIndex"
                    ELSE IF \/ \E r \in Queue : ProcessInQueue(rq[r], o)
                            \/ ProcessInQueue(waitingQueue, o) THEN "relinked"
                    ELSE IF ~InsertIsSound(rq[q], k, stale) THEN "stalePrev"
                    ELSE "none"
<1>1. fault' = wrong /\ node' = [node EXCEPT ![o] = put]
  BY DEF HandleProcessForCPU
<1>2. q \in Queue
  BY <1>1
<1>3. put.queueNbr = q /\ put.currentQueueExecutionTime = nd.currentQueueExecutionTime
  BY DEF Node
<1> HIDE DEF put, q, wrong
<1>4. node'[o] = put /\ \A p \in Procs : p # o => node'[p] = node[p]
  BY <1>1 DEF TypeOK
<1> QED
  BY <1>2, <1>3, <1>4 DEF q

(* The same for a node that keeps its fields.                              *)
LEMMA NodeEnqueuedAgain ==
  ASSUME TypeOK, NEW rq, NEW stale, NEW o \in Procs, NEW timeLeft \in Int,
         HandleProcessForCPU(rq, stale, o, node[o], timeLeft), fault' = "none"
  PROVE  \A p \in Procs :
           /\ node'[p].queueNbr = node[p].queueNbr
           /\ node'[p].currentQueueExecutionTime = node[p].currentQueueExecutionTime
<1>1. node[o] \in Node
  BY DEF TypeOK
<1> DEFINE nd == node[o]
<1> HIDE DEF nd
<1>2. HandleProcessForCPU(rq, stale, o, nd, timeLeft) /\ nd \in Node
  BY <1>1 DEF nd
<1>3. /\ node'[o].queueNbr = nd.queueNbr
      /\ node'[o].currentQueueExecutionTime = nd.currentQueueExecutionTime
      /\ \A p \in Procs : p # o => node'[p] = node[p]
  BY <1>2, NodeEnqueued
<1> QED
  BY <1>3 DEF nd

\* The step leaves queue number and execution time of p alone.
SameInQueue(p) ==
  /\ node'[p].queueNbr = node[p].queueNbr
  /\ node'[p].currentQueueExecutionTime = node[p].currentQueueExecutionTime

(* A process that is switched out keeps its queue, but for a demotion.     *)
LEMMA NodeSwitchedOut ==
  ASSUME Inv, index \in Cores, core[index].node \in Procs, NEW nd \in Node,
         SwitchOutReady(index, nd), fault' = "none"
  PROVE  /\ node'[core[index].node].queueNbr = nd.queueNbr
         /\ node'[core[index].node].currentQueueExecutionTime = nd.currentQueueExecutionTime
         /\ \A p \in Procs : p # core[index].node => node'[p] = node[p]
<1> DEFINE o == core[index].node
<1>1. TypeOK
  BY DEF Inv
<1>2. CASE SwitchOutDuration > 0
  <2>1. node' = [node EXCEPT ![o] = nd]
    BY <1>2 DEF SwitchOutReady
  <2> HIDE DEF o
  <2> QED BY <1>1, <2>1 DEF TypeOK, o
<1>3. CASE ~(SwitchOutDuration > 0)
  <2>1. HandleProcessForCPU(readyQueues, stalePrev, o, nd, CurEventTimeLeft(o))
    BY <1>3 DEF SwitchOutReady
  <2>2. CurEventTimeLeft(o) \in Int
    BY <1>1, LeftIsInt, LeftOf
  <2> QED BY <1>1, <2>1, <2>2, NodeEnqueued
<1> QED
  BY <1>2, <1>3

(* Queue numbers and execution times change when a process arrives, is     *)
(* moved up by its age, is demoted, or executes.                           *)
LEMMA NodeSteps ==
  ASSUME Inv, Owned, Next, fault' = "none", NEW p \in Procs
  PROVE  \/ /\ SameInQueue(p)
            /\ Executes(p) => ~AdvanceSchedulingTime
            /\ Demote => p # core[index].node
         \/ /\ AdvanceSchedulingTime /\ Executes(p)
            /\ node'[p].queueNbr = node[p].queueNbr
            /\ node'[p].currentQueueExecutionTime = node[p].currentQueueExecutionTime + 1
         \/ /\ Demote /\ p = core[index].node
            /\ node'[p].queueNbr = node[p].queueNbr + 1
            /\ node'[p].currentQueueExecutionTime = 0
         \/ /\ \A c \in Cores : core[c].node # p /\ core'[c] = core[c]
            /\ node'[p].currentQueueExecutionTime = 0
<1>1. TypeOK /\ Exclusive /\ Alive /\ node[p] \in Node
  BY DEF Inv, Owned, TypeOK
<1>2. CASE \E o \in Procs : ProcessArrived(o)
  <2>1. PICK o \in Procs : ProcessArrived(o)
    BY <1>2
  <2>2. /\ HandleProcessForCPU(readyQueues, stalePrev, o, initNode,
                               TimeLeft(o, Rest(proc[o].nextEvents)))
        /\ core' = core
    BY <2>1 DEF ProcessArrived
  <2>3. TimeLeft(o, Rest(proc[o].nextEvents)) \in Int
    BY <1>1, RestIsSeq, TimeLeftIsInt DEF TypeOK, Process
  <2>4. initNode \in Node /\ initNode.currentQueueExecutionTime = 0
    BY DEF initNode, Node
  <2>5. /\ node'[o].currentQueueExecutionTime = 0
        /\ p # o => node'[p] = node[p]
    BY <1>1, <2>2, <2>3, <2>4, NodeEnqueued
  <2>6. ~Living(o)
    <3>1. phase = "arrival" /\ workload[o].startTime = time /\ o >= index
      BY <2>1 DEF ProcessArrived, At, ArrivesNow
    <3> QED BY <1>1, <3>1 DEF Arrived, Living, TypeOK, Procs, ProcessInput
  <2>7. \A c \in Cores : core[c].node # o
    BY <1>1, <2>6, OwnedByNobody DEF Alive
  <2>8. phase \notin {"advanceScheduling", "limit"}
    BY <2>1 DEF ProcessArrived, At
  <2> QED BY <2>2, <2>5, <2>7, <2>8 DEF SameInQueue, AdvanceSchedulingTime, Demote, At
<1>3. CASE AgingMove
  <2> DEFINE o == cursor
             q == node[o].queueNbr
  <2>1. /\ q \in Queue /\ ProcessInQueue(readyQueues[q], o) /\ o \in Procs
        /\ HandleProcessForCPU([readyQueues EXCEPT ![q] = RemoveNode(@, o)],
                               StaleAfterRemove(readyQueues[q], o, stalePrev), o,
                               MovedTo(o, q - 1), CurEventTimeLeft(o))
        /\ core' = core /\ phase \notin {"advanceScheduling", "limit"}
    BY <1>1, <1>3 DEF AgingMove, RemoveIsSound, TypeOK, At
  <2>2. MovedTo(o, q - 1) \in Node /\ CurEventTimeLeft(o) \in Int
    <3>1. q \in Int
      BY <2>1 DEF Queue
    <3> QED BY <1>1, <2>1, <3>1, MovedToIsNode, LeftIsInt, LeftOf
  <2>3. MovedTo(o, q - 1).currentQueueExecutionTime = 0
    BY <1>1, <2>1 DEF MovedTo, TypeOK, Node
  <2>4. \A c \in Cores : core[c].node # o
    BY <1>1, <2>1 DEF Exclusive, Ready, InQueues
  <2> HIDE DEF o, q
  <2>5. /\ node'[o].currentQueueExecutionTime = 0
        /\ p # o => node'[p] = node[p]
    BY <1>1, <2>1, <2>2, <2>3, NodeEnqueued
  <2> QED BY <2>1, <2>4, <2>5 DEF SameInQueue, AdvanceSchedulingTime, Demote, At
<1>4. CASE SwitchOutDone
  <2> DEFINE o == core[index].node
  <2>1. o \in Procs /\ CurEventTimeLeft(o) \in Int /\ phase = "event"
    BY <1>4, CurrentCore DEF SwitchOutDone, At
  <2>2. \/ node' = node
        \/ HandleProcessForCPU(readyQueues, stalePrev, o, node[o], CurEventTimeLeft(o))
    BY <1>4 DEF SwitchOutDone
  <2>3. SameInQueue(p)
    BY <1>1, <2>1, <2>2, NodeEnqueuedAgain DEF SameInQueue
  <2> QED BY <2>1, <2>3 DEF AdvanceSchedulingTime, Demote, At
<1>5. CASE Demote \/ Preempt \/ SwitchOutAfterSlice
  <2> DEFINE o == core[index].node
             q == node[o].queueNbr + 1
  <2>1. index \in Cores /\ o \in Procs /\ node[o] \in Node /\ phase # "advanceScheduling"
    <3>1. /\ phase \in {"limit", "preempt", "slice"}
          /\ core[index].state = "OCCUPIED"
      BY <1>5 DEF Demote, Preempt, SwitchOutAfterSlice, SliceOver, At, Inv, IndexOK
    <3>2. index \in Cores
      BY <3>1, CurrentCore
    <3>3. core[index].node # NULL
      BY <3>1, <3>2 DEF Inv, CoreOK
    <3> QED BY <3>1, <3>3, CurrentCore
  <2>2. /\ MovedTo(o, q) \in Node /\ MovedTo(o, q).queueNbr = q
        /\ MovedTo(o, q).currentQueueExecutionTime = 0
    <3>1. q \in Int
      BY <2>1 DEF Node
    <3> HIDE DEF q
    <3>2. MovedTo(o, q) \in Node
      BY <1>1, <2>1, <3>1, MovedToIsNode
    <3> QED BY <2>1, <3>2 DEF MovedTo, Node
  <2>3. CASE Demote
    <3>1. \/ SwitchOutReady(index, MovedTo(o, q)) \/ node' = [node EXCEPT ![o] = MovedTo(o, q)]
      BY <2>3 DEF Demote
    <3> HIDE DEF q, o
    <3>2. /\ node'[o].queueNbr = q /\ node'[o].currentQueueExecutionTime = 0
          /\ p # o => node'[p] = node[p]
      <4>1. CASE SwitchOutReady(index, MovedTo(o, q))
        BY <2>1, <2>2, <4>1, NodeSwitchedOut DEF o
      <4>2. CASE node' = [node EXCEPT ![o] = MovedTo(o, q)]
        BY <1>1, <2>1, <2>2, <4>2 DEF TypeOK
      <4> QED BY <3>1, <4>1, <4>2
    <3> QED BY <2>1, <2>3, <3>2 DEF SameInQueue, AdvanceSchedulingTime, At, o, q
  <2>4. CASE Preempt \/ SwitchOutAfterSlice
    <3>1. SwitchOutReady(index, node[o])
      BY <2>4 DEF Preempt, SwitchOutAfterSlice
    <3>2. SameInQueue(p)
      BY <2>1, <3>1, NodeSwitchedOut DEF SameInQueue
    <3>3. phase \in {"preempt", "slice"}
      BY <2>4 DEF Preempt, SwitchOutAfterSlice, At
    <3> QED BY <3>2, <3>3 DEF AdvanceSchedulingTime, Demote, At
  <2> QED BY <1>5, <2>3, <2>4
<1>6. CASE Resume \/ NoInterruptTime
  <2> DEFINE o == disk.node
  <2>1. o \in Procs /\ proc[o].nextEvents # <<>> /\ proc[o] \in Process
    BY <1>1, <1>6, EndIOInTime DEF TypeOK
  <2>2. PICK running : EndIO(o, running)
    BY <1>6 DEF Resume, NoInterruptTime
  <2>3. HandleProcessForCPU(readyQueues, stalePrev, o, node[o],
                            TimeLeft(o, Rest(proc[o].nextEvents)))
    BY <2>1, <2>2 DEF EndIO
  <2>4. TimeLeft(o, Rest(proc[o].nextEvents)) \in Int
    BY <1>1, <2>1, RestIsSeq, TimeLeftIsInt DEF Process
  <2>5. SameInQueue(p)
    BY <1>1, <2>1, <2>3, <2>4, NodeEnqueuedAgain DEF SameInQueue
  <2>6. phase \in {"resume", "interrupt"}
    BY <1>6 DEF Resume, NoInterruptTime, At
  <2> QED BY <2>5, <2>6 DEF AdvanceSchedulingTime, Demote, At
<1>7. CASE AdvanceSchedulingTime
  <2>1. node' = [o \in Procs |->
             [node[o] EXCEPT
                !.currentQueueWaitingTime = IF InReadyQueues(o) THEN @ + 1 ELSE @,
                !.currentQueueExecutionTime = IF Executes(o) THEN @ + 1 ELSE @]]
    BY <1>7 DEF AdvanceSchedulingTime
  <2>2. /\ node'[p].queueNbr = node[p].queueNbr
        /\ node'[p].currentQueueExecutionTime =
             IF Executes(p) THEN node[p].currentQueueExecutionTime + 1
             ELSE node[p].currentQueueExecutionTime
    BY ZenonT(40), <1>1, <2>1 DEF TypeOK, Node
  <2>3. ~Demote
    BY <1>7 DEF AdvanceSchedulingTime, Demote, At
  <2> QED BY <1>7, <2>2, <2>3 DEF SameInQueue
<1>8. CASE ~ \/ \E o \in Procs : ProcessArrived(o)
             \/ AgingMove \/ SwitchOutDone \/ Demote \/ Preempt \/ SwitchOutAfterSlice
             \/ Resume \/ NoInterruptTime \/ AdvanceSchedulingTime
  <2>1. UNCHANGED node
    BY <1>8, SystemUnchanged DEF lists, Next, StartTick, EndOfWorkload, ArrivalsDone,
       AgingNextQueue, AgingDone, AgingKeep, NoProcess, SwitchInDone, Terminate, StartIO,
       NoEvent, WithinLimit, KeepRunning, NoResume, QueuesSizesBeforeRR, SliceContinues,
       NewSlice, NoInterrupt, InterruptCore, SkipCore, PutProcessOnCPU, SkipDisk,
       PutProcessOnDisk, AdvanceProcessTime, FreeComputer, Stop, vars
  <2> QED BY <1>8, <2>1 DEF SameInQueue
<1> QED
  BY <1>2, <1>3, <1>4, <1>5, <1>6, <1>7, <1>8

(* How a core comes to execute, and how its slice counter goes on.         *)
LEMMA ExecutingSteps ==
  ASSUME Inv, Owned, Next, NEW c \in Cores, Executing(c)'
  PROVE  \/ /\ c = index /\ core'[c].quantumTime = 0 /\ core'[c].state = "OCCUPIED"
            /\ SwitchInDone \/ (SwitchInDuration = 0 /\ \E q \in Queue : PutProcessOnCPU(q))
         \/ /\ Executing(c) /\ core'[c].node = core[c].node
            /\ \/ /\ core'[c].quantumTime = core[c].quantumTime
                  /\ core[c].state = "OCCUPIED" => ~AdvanceSchedulingTime
               \/ NewSlice /\ c = index /\ core'[c].quantumTime = 0
               \/ /\ AdvanceSchedulingTime /\ core[c].state = "OCCUPIED"
                  /\ core'[c].state = "OCCUPIED"
                  /\ core'[c].quantumTime = core[c].quantumTime + 1
<1>1. core[c] \in Core /\ core'[c].state \in {"OCCUPIED", "INTERRUPTED"}
  BY DEF Inv, TypeOK, Executing
<1>2. CASE core'[c] = core[c] /\ ~AdvanceSchedulingTime
  BY <1>2 DEF Executing, StateBeforeInterrupt
<1>3. CASE /\ c = index /\ SwitchInDone
           /\ core'[c] = [core[c] EXCEPT !.state = "OCCUPIED", !.quantumTime = 0]
  BY <1>1, <1>3 DEF Core
<1>4. CASE LetsGo(c)
  <2>1. core'[c].state \in {"IDLE", "SWITCH_OUT"}
    BY <1>1, <1>4 DEF LetsGo, Core
  <2> QED BY <1>1, <2>1
<1>5. CASE c = index /\ Resume /\ core'[c] = [core[c] EXCEPT !.state = StateBeforeInterrupt(c)]
  <2>1. core[c].state = "INTERRUPTED" /\ phase = "resume"
    BY <1>5 DEF Resume, InterruptOver, At
  <2>2. /\ core'[c].state = StateBeforeInterrupt(c) /\ core'[c].node = core[c].node
        /\ core'[c].quantumTime = core[c].quantumTime
    BY <1>1, <1>5 DEF Core
  <2>3. StateBeforeInterrupt(c) # "INTERRUPTED"
    BY DEF StateBeforeInterrupt
  <2> QED BY <1>1, <2>1, <2>2, <2>3 DEF Executing
<1>6. CASE c = index /\ NewSlice /\ core'[c] = [core[c] EXCEPT !.quantumTime = 0]
  <2>1. core'[c].node = core[c].node /\ core'[c].quantumTime = 0
    BY <1>1, <1>6 DEF Core
  <2>2. core[c].state = "OCCUPIED"
    BY <1>6 DEF NewSlice, SliceOver
  <2> QED BY <1>6, <2>1, <2>2 DEF Executing
<1>7. CASE /\ InterruptCore(c)
           /\ core'[c] = [core[c] EXCEPT !.state = "INTERRUPTED",
                                         !.interruptTimer = InterruptTime]
  <2>1. /\ core'[c].node = core[c].node /\ core'[c].quantumTime = core[c].quantumTime
        /\ core'[c].state = "INTERRUPTED"
    BY <1>1, <1>7 DEF Core
  <2>2. core[c].state = "OCCUPIED"
    BY <1>7, <2>1, InterruptCanBeUndone DEF Executing
  <2>3. phase # "advanceScheduling"
    BY <1>7 DEF InterruptCore, At
  <2> QED BY <2>1, <2>2, <2>3 DEF Executing, AdvanceSchedulingTime, At
<1>8. CASE /\ c = index /\ \E q \in Queue : /\ PutProcessOnCPU(q)
                                            /\ Gets(c, TopNode(readyQueues[q]))
  <2>1. PICK q \in Queue : PutProcessOnCPU(q) /\ Gets(c, TopNode(readyQueues[q]))
    BY <1>8
  <2> DEFINE p == TopNode(readyQueues[q])
  <2>2. Gets(c, p)
    BY <2>1
  <2> HIDE DEF p
  <2>3. SwitchInDuration = 0 /\ core'[c].state = "OCCUPIED" /\ core'[c].quantumTime = 0
    BY <1>1, <2>2 DEF Gets, Core
  <2> QED BY <1>8, <2>1, <2>3
<1>9. CASE AdvanceSchedulingTime
  <2>1. core'[c] = AdvanceTimers(c)
    BY <1>9 DEF AdvanceSchedulingTime
  <2>2. core[c].state \in {"OCCUPIED", "INTERRUPTED"}
    BY <1>1, <2>1 DEF AdvanceTimers, Core, CoreStates
  <2>3. CASE core[c].state = "OCCUPIED"
    <3>1. core'[c] = [core[c] EXCEPT !.quantumTime = @ + 1]
      BY <2>1, <2>3 DEF AdvanceTimers
    <3>2. /\ core'[c].node = core[c].node /\ core'[c].state = "OCCUPIED"
          /\ core'[c].quantumTime = core[c].quantumTime + 1
      BY <1>1, <2>3, <3>1 DEF Core
    <3> QED BY <1>9, <2>3, <3>2 DEF Executing
  <2>4. CASE core[c].state = "INTERRUPTED"
    <3>1. core'[c] = [core[c] EXCEPT !.interruptTimer = @ - 1]
      BY <2>1, <2>4 DEF AdvanceTimers
    <3>2. /\ core'[c].node = core[c].node /\ core'[c].state = "INTERRUPTED"
          /\ core'[c].quantumTime = core[c].quantumTime
          /\ core'[c].switchInTimer = core[c].switchInTimer
          /\ core'[c].switchOutTimer = core[c].switchOutTimer
      BY <1>1, <2>4, <3>1 DEF Core
    <3> QED BY <2>4, <3>2 DEF Executing, StateBeforeInterrupt
  <2> QED BY <2>2, <2>3, <2>4
<1> QED
  BY <1>2, <1>3, <1>4, <1>5, <1>6, <1>7, <1>8, <1>9, CoreSteps

\* The phases of a time unit behind the loop of the slices.
BehindSlices == {"interrupt", "assignCores", "assignDisk", "advanceProcesses",
                 "advanceScheduling"}

(* The loop of the slices is reached behind `sizes` only.                  *)
LEMMA SlicesReached ==
  ASSUME Next, ~Stop, phase' \in BehindSlices \cup {"slice"}
  PROVE  \/ phase \in BehindSlices
         \/ QueuesSizesBeforeRR
         \/ phase = "slice" /\ PreviousCore
<1>1. CASE SliceContinues \/ SwitchOutAfterSlice \/ NewSlice \/ QueuesSizesBeforeRR
  BY <1>1 DEF SliceContinues, SwitchOutAfterSlice, NewSlice, At
<1>2. CASE ~(SliceContinues \/ SwitchOutAfterSlice \/ NewSlice \/ QueuesSizesBeforeRR)
  BY <1>2 DEF BehindSlices, Next, At, Goto, StartTick, EndOfWorkload,
     ProcessArrived, ArrivalsDone, AgingNextQueue, AgingDone, AgingKeep, AgingMove,
     NoProcess, SwitchInDone, SwitchOutDone, Terminate, StartIO, NoEvent, WithinLimit,
     Demote, Preempt, KeepRunning, Resume, NoResume, NextCore,
     NoInterrupt, InterruptCore, NextIdleCore,
     NoInterruptTime, SkipCore, PutProcessOnCPU, SkipDisk, PutProcessOnDisk,
     AdvanceProcessTime, AdvanceSchedulingTime, FreeComputer
<1> QED
  BY <1>1, <1>2

(* A core passes the test of its slice when the loop looks at it.          *)
LEMMA SliceTestedSteps ==
  ASSUME Inv, Next, ~Stop, NEW c \in Cores, SliceTested(c)', ~SliceTested(c)
  PROVE  c = index /\ phase = "slice"
<1>1. TypeOK /\ index \in Nat /\ c \in Int /\ c >= 0 /\ c <= CoreCount - 1
  BY SizeAssumption DEF Inv, TypeOK, Cores
<1>2. CASE core'[c].state = "INTERRUPTED"
  <2>1. core[c].state # "INTERRUPTED"
    BY DEF SliceTested
  <2>2. phase = "interrupt"
    BY <1>2, <2>1, OnlyInterruptInterrupts DEF InterruptCore, At
  <2> QED BY <2>2 DEF SliceTested
<1>3. CASE ~(core'[c].state = "INTERRUPTED")
  <2>1. phase' \in BehindSlices \/ (phase' = "slice" /\ c > index')
    BY <1>3 DEF SliceTested, BehindSlices
  <2>2. phase \notin BehindSlices /\ ~(phase = "slice" /\ c > index)
    BY DEF SliceTested, BehindSlices
  <2>3. QueuesSizesBeforeRR \/ (phase = "slice" /\ PreviousCore)
    BY <2>1, <2>2, SlicesReached
  <2>4. CASE QueuesSizesBeforeRR
    <3>1. phase' = "slice" /\ index' = CoreCount - 1
      BY <2>4 DEF QueuesSizesBeforeRR, Goto
    <3> QED BY <1>1, <2>1, <3>1, SizeAssumption DEF BehindSlices
  <2>5. CASE phase = "slice" /\ PreviousCore
    BY <1>1, <2>1, <2>2, <2>5 DEF PreviousCore, Goto, BehindSlices
  <2> QED BY <2>3, <2>4, <2>5
<1> QED
  BY <1>2, <1>3

\* The phases of a time unit behind the loop over the cores.
BehindLimits == BehindSlices \cup {"sizes", "slice"}

(* The loop over the cores takes them one after the other.                 *)
LEMMA CoreLoop ==
  ASSUME Next, ~Stop, phase' \in BehindLimits \cup {"event", "limit", "preempt", "resume"}
  PROVE  \/ phase \in BehindLimits
         \/ phase' = "event" /\ index' = 0
         \/ phase = "resume" /\ NextCore
         \/ phase = "event" /\ phase' \in {"limit", "resume"} /\ index' = index
         \/ phase = "limit" /\ phase' \in {"preempt", "resume"} /\ index' = index
         \/ phase = "preempt" /\ phase' = "resume" /\ index' = index
<1>1. CASE \/ NoProcess \/ SwitchInDone \/ SwitchOutDone \/ Terminate \/ StartIO \/ NoEvent
           \/ WithinLimit \/ Demote \/ Preempt \/ KeepRunning \/ Resume \/ NoResume \/ AgingDone
  <2>1. CASE NoProcess \/ SwitchInDone \/ SwitchOutDone \/ Terminate \/ StartIO \/ NoEvent
    BY <2>1 DEF NoProcess, SwitchInDone, SwitchOutDone, Terminate, StartIO, NoEvent, At, Goto
  <2>2. CASE WithinLimit \/ Demote \/ Preempt \/ KeepRunning
    BY <2>2 DEF WithinLimit, Demote, Preempt, KeepRunning, At, Goto
  <2>3. CASE Resume \/ NoResume \/ AgingDone
    BY <2>3 DEF Resume, NoResume, AgingDone, At, Goto
  <2> QED BY <1>1, <2>1, <2>2, <2>3
<1>2. CASE ~ \/ NoProcess \/ SwitchInDone \/ SwitchOutDone \/ Terminate \/ StartIO \/ NoEvent
             \/ WithinLimit \/ Demote \/ Preempt \/ KeepRunning \/ Resume \/ NoResume \/ AgingDone
  BY <1>2 DEF BehindLimits, BehindSlices, Next, At, Goto, StartTick, EndOfWorkload,
     ProcessArrived, ArrivalsDone, AgingNextQueue, AgingKeep, AgingMove, QueuesSizesBeforeRR,
     SliceContinues, SwitchOutAfterSlice, NewSlice, NoInterrupt, InterruptCore, NextIdleCore,
     NoInterruptTime, SkipCore, PutProcessOnCPU, SkipDisk, PutProcessOnDisk,
     AdvanceProcessTime, AdvanceSchedulingTime, FreeComputer
<1> QED
  BY <1>1, <1>2

(* A core passes the test of the execution limit when the loop looks at it.*)
LEMMA LimitTestedSteps ==
  ASSUME Inv, Next, ~Stop, NEW c \in Cores, LimitTested(c)', ~LimitTested(c)
  PROVE  c = index /\ (phase = "limit" \/ (phase = "event" /\ phase' = "resume"))
<1>1. TypeOK /\ index \in Nat /\ c \in Int /\ c >= 0 /\ c <= CoreCount - 1
  BY SizeAssumption DEF Inv, TypeOK, Cores
<1>2. CASE core'[c].state = "INTERRUPTED"
  <2>1. core[c].state # "INTERRUPTED"
    BY DEF LimitTested
  <2>2. phase = "interrupt"
    BY <1>2, <2>1, OnlyInterruptInterrupts DEF InterruptCore, At
  <2> QED BY <2>2 DEF LimitTested
<1>3. CASE ~(core'[c].state = "INTERRUPTED")
  <2>1. \/ phase' \in BehindLimits
        \/ phase' \in {"event", "limit"} /\ c < index'
        \/ phase' \in {"preempt", "resume"} /\ c <= index'
    BY <1>3 DEF LimitTested, BehindLimits, BehindSlices
  <2>2. /\ phase \notin BehindLimits
        /\ phase \in {"event", "limit"} => ~(c < index)
        /\ phase \in {"preempt", "resume"} => ~(c <= index)
    BY DEF LimitTested, BehindLimits, BehindSlices
  <2>3. \/ phase' = "event" /\ index' = 0
        \/ phase = "resume" /\ NextCore
        \/ phase = "event" /\ phase' \in {"limit", "resume"} /\ index' = index
        \/ phase = "limit" /\ phase' \in {"preempt", "resume"} /\ index' = index
        \/ phase = "preempt" /\ phase' = "resume" /\ index' = index
    BY <2>1, <2>2, CoreLoop
  <2>4. CASE phase = "resume" /\ NextCore
    <3>1. \/ phase' = "event" /\ index' = index + 1
          \/ phase' = "sizes" /\ CoreCount - 1 <= index
      BY <1>1, <2>4, SizeAssumption DEF NextCore, Goto
    <3> QED BY <1>1, <2>1, <2>2, <2>4, <3>1, SizeAssumption DEF BehindLimits, BehindSlices
  <2>5. CASE ~(phase = "resume" /\ NextCore)
    BY <1>1, <2>1, <2>2, <2>3, <2>5 DEF BehindLimits, BehindSlices
  <2> QED BY <2>4, <2>5
<1> QED
  BY <1>2, <1>3

-----------------------------------------------------------------------------
(* The queue of a process on a core exists *)

LEMMA QueuesExistKept ==
  ASSUME Inv, Owned, AllInOrder, Next, QueuesExist, fault' = "none"
  PROVE  QueuesExist'
<1>1. TypeOK /\ Exclusive /\ Timers /\ HandledInTime
  BY DEF Inv, Owned
<1>2. SUFFICES ASSUME NEW c \in Cores, core'[c].node # NULL, core'[c].state # "SWITCH_OUT",
                      core'[c].switchOutTimer = 0
      PROVE  node'[core'[c].node].queueNbr \in Queue
  BY DEF QueuesExist
<1>3. core[c] \in Core
  BY <1>1 DEF TypeOK
<1>4. ASSUME NEW p, p = core[c].node, core[c].node # NULL, core[c].state # "SWITCH_OUT",
             core[c].switchOutTimer = 0, core'[c].node = p,
             Demote => core'[c] = core[c]
      PROVE  node'[p].queueNbr \in Queue
  <2>1. p \in Procs /\ node[p].queueNbr \in Queue
    BY <1>3, <1>4 DEF QueuesExist, Core
  <2>2. CASE node'[p].queueNbr = node[p].queueNbr
    BY <2>1, <2>2
  <2>3. CASE Demote /\ p = core[index].node
    <3>1. index \in Cores /\ core[index] \in Core /\ core[index].state = "OCCUPIED"
      BY <1>1, <2>3, CurrentCore DEF Demote, At, Inv, IndexOK
    <3>2. c = index
      BY <1>1, <1>4, <2>3, <3>1 DEF Exclusive
    <3>3. CASE SwitchOutReady(index, MovedTo(p, node[p].queueNbr + 1))
      <4>1. \/ core' = [core EXCEPT ![index].state = "SWITCH_OUT",
                                    ![index].switchOutTimer = SwitchOutDuration,
                                    ![index].continueOnCPU = TRUE]
            \/ core' = [core EXCEPT ![index].state = "IDLE", ![index].node = NULL]
        BY <3>3 DEF SwitchOutReady
      <4>2. core'[index].state \in {"SWITCH_OUT", "IDLE"}
        BY <1>1, <3>1, <4>1 DEF TypeOK, Core
      <4> QED BY <1>4, <2>3, <3>1, <3>2, <4>2
    <3>4. CASE /\ node' = [node EXCEPT ![p] = MovedTo(p, node[p].queueNbr + 1)]
               /\ node[p].queueNbr + 1 \in Queue
      <4> DEFINE q == node[p].queueNbr + 1
      <4>1. MovedTo(p, q).queueNbr = q
        BY <1>1, <2>1 DEF MovedTo, TypeOK, Node
      <4> HIDE DEF q
      <4>2. node'[p] = MovedTo(p, q)
        BY <1>1, <2>1, <3>4 DEF TypeOK, q
      <4> QED BY <3>4, <4>1, <4>2 DEF q
    <3> QED BY <2>3, <3>3, <3>4 DEF Demote
  <2> QED BY <1>4, <2>1, <2>2, <2>3, NodeSteps DEF SameInQueue
<1>5. CASE core'[c] = core[c]
  BY <1>2, <1>4, <1>5
<1>6. CASE /\ c = index /\ SwitchInDone
           /\ core'[c] = [core[c] EXCEPT !.state = "OCCUPIED", !.quantumTime = 0]
  <2>1. core[c].state = "SWITCH_IN" /\ core[c].node # NULL /\ phase = "event"
    BY <1>6 DEF SwitchInDone, SwitchedIn, At
  <2>2. core'[c].node = core[c].node /\ core[c].switchOutTimer = 0
    BY <1>1, <1>3, <1>6, <2>1 DEF Core, Timers
  <2> QED BY <1>4, <2>1, <2>2 DEF Demote, At
<1>7. CASE LetsGo(c)
  <2>1. core'[c].state = "SWITCH_OUT" \/ core'[c].node = NULL
    BY <1>3, <1>7 DEF LetsGo, Core
  <2> QED BY <1>2, <2>1
<1>8. CASE c = index /\ Resume /\ core'[c] = [core[c] EXCEPT !.state = StateBeforeInterrupt(c)]
  <2>1. core[c].state = "INTERRUPTED" /\ phase = "resume"
    BY <1>8 DEF Resume, InterruptOver, At
  <2>2. core'[c].node = core[c].node /\ core'[c].switchOutTimer = core[c].switchOutTimer
    BY <1>3, <1>8 DEF Core
  <2> QED BY <1>2, <1>4, <2>1, <2>2 DEF Demote, At
<1>9. CASE c = index /\ NewSlice /\ core'[c] = [core[c] EXCEPT !.quantumTime = 0]
  <2>1. core'[c].node = core[c].node /\ core'[c].switchOutTimer = core[c].switchOutTimer
    BY <1>3, <1>9 DEF Core
  <2>2. core[c].state = "OCCUPIED" /\ phase = "slice"
    BY <1>9 DEF NewSlice, SliceOver, At
  <2> QED BY <1>2, <1>4, <2>1, <2>2 DEF Demote, At
<1>10. CASE /\ InterruptCore(c)
            /\ core'[c] = [core[c] EXCEPT !.state = "INTERRUPTED",
                                          !.interruptTimer = InterruptTime]
  <2>1. core'[c].node = core[c].node /\ core'[c].switchOutTimer = core[c].switchOutTimer
    BY <1>3, <1>10 DEF Core
  <2>2. phase = "interrupt"
    BY <1>10 DEF InterruptCore, At
  <2>3. core[c].state # "SWITCH_OUT"
    BY <1>1, <1>2, <2>1, <2>2 DEF HandledInTime, Handled
  <2> QED BY <1>2, <1>4, <2>1, <2>2, <2>3 DEF Demote, At
<1>11. CASE /\ c = index /\ \E q \in Queue : /\ PutProcessOnCPU(q)
                                             /\ Gets(c, TopNode(readyQueues[q]))
  <2>1. PICK q \in Queue : PutProcessOnCPU(q) /\ Gets(c, TopNode(readyQueues[q]))
    BY <1>11
  <2> DEFINE p == TopNode(readyQueues[q])
  <2>2. /\ p = readyQueues[q][1] /\ readyQueues[q] # <<>> /\ node' = node
        /\ readyQueues[q] \in Seq(Procs)
    BY <1>1, <2>1 DEF PutProcessOnCPU, TopNode, TypeOK
  <2>3. 1 \in 1..Len(readyQueues[q])
    BY <2>2, EmptySeq, LenProperties
  <2>4. node[p].queueNbr = q
    BY <2>2, <2>3 DEF AllInOrder, InOrder
  <2>5. Gets(c, p)
    BY <2>1
  <2> HIDE DEF p
  <2>6. core'[c].node = p
    BY <1>3, <2>5 DEF Gets, Core
  <2> QED BY <2>2, <2>4, <2>6
<1>12. CASE AdvanceSchedulingTime
  <2>1. core'[c] = AdvanceTimers(c) /\ phase = "advanceScheduling"
    BY <1>12 DEF AdvanceSchedulingTime, At
  <2>2. /\ core'[c].node = core[c].node /\ core'[c].state = core[c].state
        /\ core[c].state # "SWITCH_OUT" => core'[c].switchOutTimer = core[c].switchOutTimer
    BY <1>3, <2>1 DEF AdvanceTimers, Core, CoreStates
  <2> QED BY <1>2, <1>4, <2>1, <2>2 DEF Demote, At
<1> QED
  BY <1>5, <1>6, <1>7, <1>8, <1>9, <1>10, <1>11, <1>12, CoreSteps

(* A core that starts to switch its process out does not execute it.       *)
LEMMA SwitchedOutStates ==
  ASSUME TypeOK, index \in Cores, NEW nd, SwitchOutReady(index, nd)
  PROVE  core'[index].state \in {"SWITCH_OUT", "IDLE"}
<1>1. \/ core' = [core EXCEPT ![index].state = "SWITCH_OUT",
                              ![index].switchOutTimer = SwitchOutDuration,
                              ![index].continueOnCPU = TRUE]
      \/ core' = [core EXCEPT ![index].state = "IDLE", ![index].node = NULL]
  BY DEF SwitchOutReady
<1>2. core[index] \in Core
  BY DEF TypeOK
<1> QED
  BY <1>1, <1>2 DEF TypeOK, Core

\* A core that executes has a process, and that is in a queue that exists.
ExecutingExist ==
  \A c \in Cores : Executing(c) =>
    core[c].node \in Procs /\ node[core[c].node].queueNbr \in Queue

LEMMA ExecutingNodes ==
  ASSUME Inv, Owned, QueuesExist
  PROVE  ExecutingExist
<1>1. SUFFICES ASSUME NEW c \in Cores, Executing(c)
      PROVE  core[c].node \in Procs /\ node[core[c].node].queueNbr \in Queue
  BY DEF ExecutingExist
<1>2. core[c] \in Core /\ Timers /\ CoreOK
  BY DEF Inv, TypeOK, Owned
<1>3. core[c].node # NULL /\ core[c].state # "SWITCH_OUT" /\ core[c].switchOutTimer = 0
  BY <1>1, <1>2 DEF Executing, StateBeforeInterrupt, Timers, CoreOK, Core
<1> QED
  BY <1>2, <1>3 DEF QueuesExist, Core

-----------------------------------------------------------------------------
(* Slices *)

LEMMA SlicesKeptOn ==
  ASSUME SliceOptions, algorithms \in Configurations, Inv, Inv', Owned, Next, ~Stop,
         ExecutingExist, ExecutingExist', SlicesKept, fault' = "none"
  PROVE  SlicesKept'
<1>1. SUFFICES ASSUME NEW c \in Cores, Executing(c)' PROVE WithinSlice(c)'
  BY DEF SlicesKept
<1> DEFINE p == core'[c].node
           n == node'[p].queueNbr
           a == algorithms[n]
<1>2. /\ TypeOK /\ Exclusive /\ algorithms' = algorithms /\ core[c] \in Core
      /\ core'[c].quantumTime \in Nat
  BY OptionsKept DEF Inv, TypeOK, Owned, Core
<1>3. p \in Procs /\ n \in Queue
  BY <1>1 DEF ExecutingExist
<1>4. a \in SchedulingAlgorithm /\ (a.type = "RR" => a.RRSliceLimit >= 1)
  BY <1>2, <1>3 DEF TypeOK, SliceOptions
<1>5. SUFFICES ASSUME a.type = "RR"
      PROVE  /\ core'[c].quantumTime <= a.RRSliceLimit
             /\ SliceTested(c)' => core'[c].quantumTime < a.RRSliceLimit
  BY <1>2 DEF WithinSlice
<1>6. a.RRSliceLimit \in Int /\ a.RRSliceLimit >= 1
  BY <1>4, <1>5 DEF SchedulingAlgorithm
<1> HIDE DEF a, n
<1>7. CASE core'[c].quantumTime = 0
  BY <1>6, <1>7
<1>8. CASE /\ Executing(c) /\ core'[c].node = core[c].node
           /\ \/ /\ core'[c].quantumTime = core[c].quantumTime
                 /\ core[c].state = "OCCUPIED" => ~AdvanceSchedulingTime
              \/ /\ AdvanceSchedulingTime /\ core[c].state = "OCCUPIED"
                 /\ core'[c].state = "OCCUPIED"
                 /\ core'[c].quantumTime = core[c].quantumTime + 1
  <2>1. /\ p = core[c].node /\ WithinSlice(c) /\ node[p].queueNbr \in Queue
        /\ core[c].state \in {"OCCUPIED", "INTERRUPTED"}
    BY <1>8 DEF SlicesKept, ExecutingExist, Executing
  <2>2. CASE n = node[p].queueNbr
    <3>1. /\ core[c].quantumTime <= a.RRSliceLimit
          /\ SliceTested(c) => core[c].quantumTime < a.RRSliceLimit
      BY <1>5, <2>1, <2>2 DEF WithinSlice, a
    <3>2. CASE /\ AdvanceSchedulingTime /\ core'[c].state = "OCCUPIED"
               /\ core'[c].quantumTime = core[c].quantumTime + 1
      <4>1. phase = "advanceScheduling" /\ phase' \in {"loop", "free"}
        BY <3>2 DEF AdvanceSchedulingTime, At, Goto
      <4>2. SliceTested(c) /\ ~SliceTested(c)'
        BY <3>2, <4>1 DEF SliceTested
      <4> QED BY <1>2, <1>6, <3>1, <3>2, <4>2 DEF Core
    <3>3. CASE core'[c].quantumTime = core[c].quantumTime
      <4>1. SUFFICES ASSUME SliceTested(c)', ~SliceTested(c), core'[c].quantumTime # 0
            PROVE  core[c].quantumTime # a.RRSliceLimit
        BY <1>2, <1>6, <1>7, <3>1, <3>3 DEF Core
      <4>2. c = index /\ phase = "slice" /\ core[c].state = "OCCUPIED"
        BY <2>1, <4>1, SliceTestedSteps DEF SliceTested
      <4>3. SliceContinues \/ SwitchOutAfterSlice \/ NewSlice
        BY <4>2 DEF Next, At, StartTick, EndOfWorkload,
           ProcessArrived, ArrivalsDone, AgingNextQueue, AgingDone, AgingKeep, AgingMove,
           NoProcess, SwitchInDone, SwitchOutDone, Terminate, StartIO, NoEvent, WithinLimit,
           Demote, Preempt, KeepRunning, Resume, NoResume, QueuesSizesBeforeRR,
           NoInterrupt, InterruptCore,
           NoInterruptTime, SkipCore, PutProcessOnCPU, SkipDisk, PutProcessOnDisk,
           AdvanceProcessTime, AdvanceSchedulingTime, FreeComputer
      <4>4. CASE SliceContinues
        <5>1. ~SliceOver(c)
          BY <4>2, <4>4 DEF SliceContinues
        <5>2. core[c].node # NULL
          BY <1>3, <2>1, NullIsNoProcess
        <5> QED BY <1>5, <2>1, <2>2, <4>2, <5>1, <5>2 DEF SliceOver, a
      <4>5. CASE SwitchOutAfterSlice
        <5>1. core'[c].state \in {"SWITCH_OUT", "IDLE"}
          BY <1>2, <4>2, <4>5, SwitchedOutStates DEF SwitchOutAfterSlice
        <5> QED BY <1>1, <5>1 DEF Executing
      <4>6. CASE NewSlice
        <5>1. core' = [core EXCEPT ![index].quantumTime = 0]
          BY <4>6 DEF NewSlice
        <5>2. core'[c].quantumTime = 0
          BY <1>2, <4>2, <5>1 DEF TypeOK, Core
        <5> QED BY <4>1, <5>2
      <4> QED BY <4>3, <4>4, <4>5, <4>6
    <3> QED BY <1>8, <3>2, <3>3
  <2>3. CASE Demote /\ p = core[index].node /\ n = node[p].queueNbr + 1
    <3> DEFINE q == node[p].queueNbr
    <3>1. index \in Cores /\ core[index].state = "OCCUPIED" /\ phase = "limit" /\ LimitReached(p)
      BY <2>3, CurrentCore DEF Demote, At, Inv, IndexOK
    <3>2. c = index
      BY <1>2, <1>3, <2>1, <2>3, <3>1, NullIsNoProcess DEF Exclusive
    <3>3. /\ algorithms[q].type = "RR" /\ algorithms[q].RRSliceLimit <= a.RRSliceLimit
          /\ algorithms[q] \in SchedulingAlgorithm
      BY <1>2, <1>3, <1>5, <2>1, <2>3, <3>1 DEF LimitReached, SliceOptions, TypeOK, a
    <3>4. core[c].quantumTime <= algorithms[q].RRSliceLimit
      BY <2>1, <3>3 DEF WithinSlice
    <3>5. core'[c].quantumTime = core[c].quantumTime
      BY <1>8, <3>1 DEF AdvanceSchedulingTime, At
    <3>6. ~SliceTested(c)
      BY <3>1, <3>2 DEF SliceTested
    <3>7. ~SliceTested(c)'
      BY <3>1, <3>6, SliceTestedSteps
    <3> HIDE DEF q
    <3> QED BY <1>2, <1>6, <3>3, <3>4, <3>5, <3>7 DEF SchedulingAlgorithm, Core
  <2> QED BY <1>3, <2>1, <2>2, <2>3, NodeSteps DEF SameInQueue, n
<1> QED
  BY <1>1, <1>7, <1>8, ExecutingSteps

-----------------------------------------------------------------------------
(* Execution limits *)

(* A core whose event ends behind the test of the limit does not execute.  *)
LEMMA EventBehindLimit ==
  ASSUME Inv, Owned, Next, ~Stop, NEW c \in Cores, c = index, phase = "event", phase' = "resume",
         core[c].state = "OCCUPIED"
  PROVE  ~Executing(c)'
<1>1. TypeOK /\ core[c] \in Core /\ core[c].node # NULL
  BY DEF Inv, TypeOK, CoreOK
<1>2. SwitchOutDone \/ Terminate \/ StartIO
  <2>1. NoProcess \/ SwitchInDone \/ SwitchOutDone \/ Terminate \/ StartIO \/ NoEvent
    BY DEF Next, At, StartTick, EndOfWorkload,
       ProcessArrived, ArrivalsDone, AgingNextQueue, AgingDone, AgingKeep, AgingMove,
       WithinLimit, Demote, Preempt, KeepRunning, Resume, NoResume, QueuesSizesBeforeRR,
       SliceContinues, SwitchOutAfterSlice, NewSlice, NoInterrupt, InterruptCore,
       NoInterruptTime, SkipCore, PutProcessOnCPU, SkipDisk, PutProcessOnDisk,
       AdvanceProcessTime, AdvanceSchedulingTime, FreeComputer
  <2> QED BY <1>1, <2>1 DEF NoProcess, SwitchInDone, NoEvent, Goto
<1>3. \/ core' = [core EXCEPT ![index].state = "IDLE", ![index].node = NULL]
      \/ core' = [core EXCEPT ![index].state = "SWITCH_OUT",
                              ![index].switchOutTimer = SwitchOutDuration,
                              ![index].continueOnCPU = FALSE]
      \/ core' = [core EXCEPT ![index].state = "IDLE", ![index].node = NULL,
                              ![index].continueOnCPU = FALSE]
  BY <1>2 DEF SwitchOutDone, Terminate, StartIO
<1>4. core'[c].state \in {"SWITCH_OUT", "IDLE"}
  BY <1>1, <1>3 DEF TypeOK, Core
<1> QED
  BY <1>4 DEF Executing

\* Execution time and limit of process p behind the step.
TimeAfter(p)  == node'[p].currentQueueExecutionTime
LimitAfter(p) == algorithms[node'[p].queueNbr].executiontTimeLimit

LEMMA LimitsKeptOn ==
  ASSUME LimitOptions, algorithms \in Configurations, Inv, Inv', Owned, Next, ~Stop,
         ExecutingExist, ExecutingExist', LimitsKept, fault' = "none"
  PROVE  LimitsKept'
<1>1. /\ TypeOK /\ Exclusive /\ CoreOK /\ algorithms' = algorithms /\ index \in Nat
      /\ \A p \in Procs : /\ node[p].currentQueueExecutionTime \in Nat
                         /\ TimeAfter(p) \in Nat
  BY OptionsKept DEF Inv, TypeOK, Owned, Node, TimeAfter
<1>2. \A q \in Queue : algorithms[q].executiontTimeLimit # NO_LIMIT =>
        algorithms[q].executiontTimeLimit \in Int /\ algorithms[q].executiontTimeLimit >= 1
  BY <1>1 DEF TypeOK, LimitOptions, SchedulingAlgorithm
<1>3. ASSUME NEW p \in Procs, node'[p].queueNbr \in Queue, LimitAfter(p) # NO_LIMIT
      PROVE  LimitAfter(p) \in Int /\ LimitAfter(p) >= 1
  BY <1>2, <1>3 DEF LimitAfter
<1>4. ASSUME NEW p, node'[p].queueNbr = node[p].queueNbr
      PROVE  LimitAfter(p) = LimitOf(p)
  BY <1>4 DEF LimitAfter, LimitOf
<1>5. ASSUME NEW p \in Procs, node'[p].queueNbr \in Queue, LimitAfter(p) # NO_LIMIT
      PROVE  TimeAfter(p) <= LimitAfter(p)
  <2>1. CASE SameInQueue(p)
    BY <1>4, <1>5, <2>1 DEF SameInQueue, LimitsKept, TimeAfter
  <2>2. CASE /\ AdvanceSchedulingTime /\ Executes(p) /\ node'[p].queueNbr = node[p].queueNbr
             /\ TimeAfter(p) = node[p].currentQueueExecutionTime + 1
    <3>1. PICK c \in Cores : core[c].state = "OCCUPIED" /\ core[c].node = p
      BY <2>2 DEF Executes
    <3>2. Executing(c) /\ LimitTested(c)
      BY <2>2, <3>1 DEF Executing, LimitTested, AdvanceSchedulingTime, At
    <3>3. LimitAfter(p) = LimitOf(p)
      BY <1>4, <2>2
    <3>4. node[p].currentQueueExecutionTime < LimitOf(p)
      BY <1>5, <3>1, <3>2, <3>3 DEF LimitsKept
    <3>5. LimitOf(p) \in Int /\ node[p].currentQueueExecutionTime \in Nat
      BY <1>1, <1>3, <1>5, <3>3
    <3> QED BY <2>2, <3>3, <3>4, <3>5
  <2>3. CASE TimeAfter(p) = 0
    BY <1>3, <1>5, <2>3
  <2> QED BY <2>1, <2>2, <2>3, NodeSteps DEF TimeAfter
<1>6. ASSUME NEW c \in Cores, NEW p \in Procs, p = core[c].node, node'[p].queueNbr \in Queue,
             LimitTested(c)', LimitAfter(p) # NO_LIMIT, Executing(c), Executing(c)',
             core[c].state = "OCCUPIED" => ~AdvanceSchedulingTime
      PROVE  TimeAfter(p) < LimitAfter(p)
  <2>1. CASE TimeAfter(p) = 0
    BY <1>3, <1>6, <2>1
  <2>2. CASE SameInQueue(p) /\ (Demote => p # core[index].node)
    <3>1. /\ LimitAfter(p) = LimitOf(p) /\ node[p].queueNbr \in Queue
          /\ TimeAfter(p) = node[p].currentQueueExecutionTime
      BY <1>4, <1>6, <2>2 DEF SameInQueue, TimeAfter
    <3>2. CASE LimitTested(c)
      BY <1>6, <3>1, <3>2 DEF LimitsKept
    <3>3. CASE ~LimitTested(c)
      <4>1. c = index /\ (phase = "limit" \/ (phase = "event" /\ phase' = "resume"))
        BY <1>6, <3>3, LimitTestedSteps
      <4>2. core[c].state = "OCCUPIED"
        BY <1>6, <3>3 DEF LimitTested, Executing
      <4>3. CASE phase = "event" /\ phase' = "resume"
        BY <1>6, <4>1, <4>2, <4>3, EventBehindLimit
      <4>4. CASE phase = "limit"
        <5>1. WithinLimit \/ Demote
          BY <4>4 DEF Next, At, StartTick, EndOfWorkload,
             ProcessArrived, ArrivalsDone, AgingNextQueue, AgingDone, AgingKeep, AgingMove,
             NoProcess, SwitchInDone, SwitchOutDone, Terminate, StartIO, NoEvent,
             Preempt, KeepRunning, Resume, NoResume, QueuesSizesBeforeRR,
             SliceContinues, SwitchOutAfterSlice, NewSlice, NoInterrupt, InterruptCore,
             NoInterruptTime, SkipCore, PutProcessOnCPU, SkipDisk, PutProcessOnDisk,
             AdvanceProcessTime, AdvanceSchedulingTime, FreeComputer
        <5>2. ~LimitReached(p)
          BY <1>6, <2>2, <4>1, <5>1 DEF WithinLimit
        <5>3. node[p].currentQueueExecutionTime # LimitOf(p) /\ LimitOf(p) # NO_LIMIT
          BY <1>6, <3>1, <5>2 DEF LimitReached, LimitOf
        <5>4. node[p].currentQueueExecutionTime <= LimitOf(p)
          BY <3>1, <5>3 DEF LimitsKept
        <5>5. LimitOf(p) \in Int /\ node[p].currentQueueExecutionTime \in Nat
          BY <1>1, <1>3, <1>6, <3>1
        <5> QED BY <3>1, <5>3, <5>4, <5>5
      <4> QED BY <4>1, <4>3, <4>4
    <3> QED BY <3>2, <3>3
  <2>3. CASE AdvanceSchedulingTime /\ Executes(p)
    <3>1. PICK d \in Cores : core[d].state = "OCCUPIED" /\ core[d].node = p
      BY <2>3 DEF Executes
    <3>2. d = c
      BY <1>1, <1>6, <3>1, NullIsNoProcess DEF Exclusive
    <3> QED BY <1>6, <2>3, <3>1, <3>2
  <2> QED BY <2>1, <2>2, <2>3, NodeSteps DEF TimeAfter
<1>7. ASSUME NEW c \in Cores, NEW p, Executing(c)', LimitTested(c)', p = core'[c].node,
             LimitAfter(p) # NO_LIMIT
      PROVE  TimeAfter(p) < LimitAfter(p)
  <2>1. ~(SwitchInDone /\ c = index /\ core'[c].state = "OCCUPIED")
    <3>1. SUFFICES ASSUME SwitchInDone, c = index, core'[c].state = "OCCUPIED" PROVE FALSE
      OBVIOUS
    <3>2. phase' = "limit" /\ index' = index
      BY <3>1 DEF SwitchInDone, Goto
    <3> QED BY <1>1, <1>7, <3>1, <3>2 DEF LimitTested
  <2>2. SwitchInDuration # 0
    BY DEF LimitOptions
  <2>3. ~(AdvanceSchedulingTime /\ core'[c].state = "OCCUPIED")
    <3>1. AdvanceSchedulingTime => phase' \in {"loop", "free"}
      BY DEF AdvanceSchedulingTime, Goto
    <3> QED BY <1>7, <3>1 DEF LimitTested
  <2>4. NewSlice => ~AdvanceSchedulingTime
    BY DEF NewSlice, AdvanceSchedulingTime, At
  <2>5. /\ Executing(c) /\ core'[c].node = core[c].node
        /\ core[c].state = "OCCUPIED" => ~AdvanceSchedulingTime
    BY <1>7, <2>1, <2>2, <2>3, <2>4, ExecutingSteps
  <2>6. p \in Procs /\ node'[p].queueNbr \in Queue
    BY <1>7 DEF ExecutingExist
  <2> QED BY <1>6, <1>7, <2>5, <2>6
<1>8. \A p \in Procs : node'[p].queueNbr \in Queue /\ LimitAfter(p) # NO_LIMIT =>
        TimeAfter(p) <= LimitAfter(p)
  BY <1>5
<1>9. \A c \in Cores : Executing(c)' /\ LimitTested(c)' /\ LimitAfter(core'[c].node) # NO_LIMIT =>
        TimeAfter(core'[c].node) < LimitAfter(core'[c].node)
  BY <1>7
<1> QED
  BY <1>1, <1>8, <1>9 DEF LimitsKept, TimeAfter, LimitAfter, LimitOf

-----------------------------------------------------------------------------
\* The options are those of the configuration, and the cores have queues.
CoresHaveQueues ==
  /\ algorithms \in Configurations
  /\ fault = "none" => Owned /\ QueuesExist /\ ExecutingExist

LEMMA QueuesInvariance ==
  ASSUME GoodInputs
  PROVE  Spec => []CoresHaveQueues
<1> DEFINE Exist == fault = "none" => QueuesExist
           Order == fault = "none" => AllInOrder
           Good  == algorithms \in Configurations
<1>1. Init => Exist /\ Good
  <2>1. SUFFICES ASSUME Init PROVE Exist /\ Good
    OBVIOUS
  <2>2. core = [c \in Cores |-> initCore] /\ algorithms \in Configurations
    BY <2>1 DEF Init
  <2>3. \A c \in Cores : core[c].node = NULL
    BY <2>2 DEF initCore
  <2> QED BY <2>2, <2>3 DEF QueuesExist
<1>2. Inv /\ Kept /\ Order /\ Exist /\ Good /\ [Next]_vars => Exist' /\ Good'
  <2>1. SUFFICES ASSUME Inv, Kept, Order, Exist, Good, [Next]_vars PROVE Exist' /\ Good'
    OBVIOUS
  <2>2. Good'
    BY <2>1, OptionsKept, SystemUnchanged DEF vars, inputs
  <2>3. CASE UNCHANGED vars \/ Stop
    <3>1. UNCHANGED <<core, node, fault>>
      BY <2>3, SystemUnchanged DEF Stop, vars, lists
    <3> QED BY <2>1, <2>2, <3>1 DEF QueuesExist
  <2>4. CASE Next /\ ~Stop
    <3>1. fault = "none" /\ Owned
      BY <2>1, <2>4, RunningIsOwned
    <3> QED BY <2>1, <2>2, <2>4, <3>1, QueuesExistKept
  <2> QED BY <2>1, <2>3, <2>4
<1>3. Inv /\ Kept /\ Exist /\ Good => CoresHaveQueues
  BY ExecutingNodes DEF Kept, CoresHaveQueues
<1> HIDE DEF Exist, Order, Good
<1>4. Spec => []Order
  BY OrderInvariance DEF Order
<1> QED
  BY <1>1, <1>2, <1>3, <1>4, Invariance, Ownership, PTL DEF Spec

(* What the views of this section are made of.                             *)
LEMMA LimitsUnchanged ==
  ASSUME UNCHANGED vars
  PROVE  (SlicesKept' <=> SlicesKept) /\ (LimitsKept' <=> LimitsKept)
<1>1. UNCHANGED <<core, node, algorithms, phase, index>>
  BY SystemUnchanged DEF vars, inputs, lists
<1>2. ASSUME NEW c \in Cores
      PROVE  (Executing(c)' <=> Executing(c)) /\ (SliceTested(c)' <=> SliceTested(c))
             /\ (LimitTested(c)' <=> LimitTested(c))
  BY <1>1 DEF Executing, StateBeforeInterrupt, SliceTested, LimitTested
<1>3. \A c \in Cores : WithinSlice(c)' <=> WithinSlice(c)
  BY <1>1, <1>2 DEF WithinSlice
<1>4. SlicesKept' <=> SlicesKept
  BY <1>2, <1>3 DEF SlicesKept
<1>5. LimitsKept' <=> LimitsKept
  BY <1>1, <1>2 DEF LimitsKept, LimitOf
<1> QED
  BY <1>4, <1>5

(* A core is never handed on behind the test of its slice with a slice     *)
(* that is used up: what the test by == of schedulingLogic.c:435-437 needs *)
(* to catch every process.                                                 *)
THEOREM SlicesAreKept ==
  ASSUME GoodInputs, SliceOptions
  PROVE  Spec => []SliceNotExceeded
<1> DEFINE Slices == fault = "none" => SlicesKept
<1>1. Init => Slices
  <2>1. SUFFICES ASSUME Init PROVE SlicesKept
    OBVIOUS
  <2>2. \A c \in Cores : core[c].state = "IDLE"
    BY <2>1 DEF Init, initCore
  <2> QED BY <2>2 DEF SlicesKept, Executing
<1>2. Inv /\ Inv' /\ Kept /\ CoresHaveQueues /\ CoresHaveQueues' /\ Slices /\ [Next]_vars => Slices'
  <2>1. SUFFICES ASSUME Inv, Inv', Kept, CoresHaveQueues, CoresHaveQueues', Slices, [Next]_vars, fault' = "none"
        PROVE  SlicesKept'
    OBVIOUS
  <2>2. CASE UNCHANGED vars \/ Stop
    <3>1. UNCHANGED vars /\ UNCHANGED fault
      BY <2>2, SystemUnchanged DEF Stop, vars
    <3> QED BY <2>1, <3>1, LimitsUnchanged
  <2>3. CASE Next /\ ~Stop
    <3>1. fault = "none" /\ Owned
      BY <2>1, <2>3, RunningIsOwned
    <3> QED BY <2>1, <2>3, <3>1, SlicesKeptOn DEF CoresHaveQueues
  <2> QED BY <2>1, <2>2, <2>3
<1>3. Slices => SliceNotExceeded
  BY DEF SlicesKept, WithinSlice, Executing, SliceNotExceeded
<1> HIDE DEF Slices
<1> QED
  BY <1>1, <1>2, <1>3, QueuesInvariance, Invariance, Ownership, PTL DEF Spec

(* Nobody executes in a queue for longer than --limit allows: the test by  *)
(* == of schedulingLogic.c:328 is passed through every time the counter    *)
(* goes up, whether the process was interrupted in between or not.         *)
THEOREM LimitsAreKept ==
  ASSUME GoodInputs, LimitOptions
  PROVE  Spec => []ExecutionWithinLimit
<1> DEFINE Limits == fault = "none" => LimitsKept
<1>1. Inv /\ CoresHaveQueues /\ Init => Limits
  <2>1. SUFFICES ASSUME Inv, CoresHaveQueues, Init PROVE LimitsKept
    OBVIOUS
  <2>2. \A c \in Cores : core[c].state = "IDLE"
    BY <2>1 DEF Init, initCore
  <2>3. \A p \in Procs : node[p].currentQueueExecutionTime = 0
    BY <2>1 DEF Init, initNode
  <2>4. \A p \in Procs : node[p].queueNbr \in Queue /\ LimitOf(p) # NO_LIMIT =>
          LimitOf(p) \in Int /\ LimitOf(p) >= 1
    BY <2>1 DEF CoresHaveQueues, LimitOptions, LimitOf, Inv, TypeOK, SchedulingAlgorithm
  <2> QED BY <2>2, <2>3, <2>4 DEF LimitsKept, Executing
<1>2. Inv /\ Inv' /\ Kept /\ CoresHaveQueues /\ CoresHaveQueues' /\ Limits /\ [Next]_vars => Limits'
  <2>1. SUFFICES ASSUME Inv, Inv', Kept, CoresHaveQueues, CoresHaveQueues', Limits, [Next]_vars, fault' = "none"
        PROVE  LimitsKept'
    OBVIOUS
  <2>2. CASE UNCHANGED vars \/ Stop
    <3>1. UNCHANGED vars /\ UNCHANGED fault
      BY <2>2, SystemUnchanged DEF Stop, vars
    <3> QED BY <2>1, <3>1, LimitsUnchanged
  <2>3. CASE Next /\ ~Stop
    <3>1. fault = "none" /\ Owned
      BY <2>1, <2>3, RunningIsOwned
    <3> QED BY <2>1, <2>3, <3>1, LimitsKeptOn DEF CoresHaveQueues
  <2> QED BY <2>1, <2>2, <2>3
<1>3. Limits => ExecutionWithinLimit
  BY DEF LimitsKept, LimitOf, ExecutionWithinLimit
<1> HIDE DEF Limits
<1> QED
  BY <1>1, <1>2, <1>3, QueuesInvariance, Invariance, Ownership, PTL DEF Spec

-----------------------------------------------------------------------------
(* 4. Runs in which every process terminates                               *)

(* freeComputer finds no node when all processes have terminated.          *)
LEMMA NothingToFree ==
  ASSUME Owned, WorkloadOver, FreeComputer
  PROVE  fault' = "none"
<1>1. ASSUME NEW p \in Procs
      PROVE  p \notin Ready /\ p \notin Waiting /\ disk.node # p
  <2>1. ~Living(p)
    BY DEF WorkloadOver, Living
  <2> QED BY <2>1, OwnedByNobody DEF Owned, Alive
<1>2. \A p \in Procs : \A c \in Cores : core[c].node # p
  <2>1. \A p \in Procs : ~Living(p)
    BY DEF WorkloadOver, Living
  <2> QED BY <2>1, OwnedByNobody DEF Owned, Alive
<1> QED
  BY <1>1, <1>2 DEF FreeComputer

\* freeComputer has run behind the end of all processes.
EndsQuietly == phase = "done" /\ WorkloadOver => fault = "none"

LEMMA EndInvariance ==
  ASSUME GoodInputs
  PROVE  Spec => []EndsQuietly
<1>1. Init => EndsQuietly
  BY DEF Init, EndsQuietly
<1>2. Kept /\ EndsQuietly /\ [Next]_vars => EndsQuietly'
  <2>1. SUFFICES ASSUME Kept, EndsQuietly, [Next]_vars PROVE EndsQuietly'
    OBVIOUS
  <2>2. CASE UNCHANGED vars \/ Stop
    <3>1. UNCHANGED <<phase, proc, fault>>
      BY <2>2, SystemUnchanged DEF Stop, vars
    <3> QED BY <2>1, <3>1 DEF WorkloadOver, EndsQuietly
  <2>3. CASE Next /\ ~Stop
    <3>1. Owned
      BY <2>1, <2>3, RunningIsOwned
    <3>2. CASE FreeComputer
      <4>1. proc' = proc
        BY <3>2 DEF FreeComputer
      <4> QED BY <3>1, <3>2, <4>1, NothingToFree DEF WorkloadOver, EndsQuietly
    <3>3. CASE ~FreeComputer
      <4>1. phase' # "done"
        BY <2>3, <3>3 DEF Next, At, Goto, NextCore, PreviousCore, NextIdleCore, StartTick,
           EndOfWorkload, ProcessArrived, ArrivalsDone, AgingNextQueue, AgingDone, AgingKeep,
           AgingMove, NoProcess, SwitchInDone, SwitchOutDone, Terminate, StartIO, NoEvent,
           WithinLimit, Demote, Preempt, KeepRunning, Resume, NoResume, QueuesSizesBeforeRR,
           SliceContinues, SwitchOutAfterSlice, NewSlice, NoInterrupt, InterruptCore,
           NoInterruptTime, SkipCore, PutProcessOnCPU, SkipDisk, PutProcessOnDisk,
           AdvanceProcessTime, AdvanceSchedulingTime
      <4> QED BY <4>1 DEF EndsQuietly
    <3> QED BY <3>2, <3>3
  <2> QED BY <2>1, <2>2, <2>3
<1> QED
  BY <1>1, <1>2, Ownership, PTL DEF Spec

(* A run that ends because all processes have terminated, and not at the   *)
(* bound of simulation.c:482, frees every node once, whatever its options. *)
THEOREM FinishedRunsFreeOnce ==
  ASSUME GoodInputs
  PROVE  Spec => [](WorkloadOver => FreedOnce)
<1>1. Kept /\ EndsQuietly => (WorkloadOver => FreedOnce)
  BY DEF Kept, OkFaults, EndsQuietly, FreedOnce
<1> QED
  BY <1>1, Ownership, EndInvariance, PTL

(* With safe options no pointer that is NULL, dangling or out of range is  *)
(* followed in such a run, from initComputer to freeComputer.              *)
THEOREM FinishedRunsAreSafe ==
  ASSUME GoodInputs, SafeOptions
  PROVE  Spec => [](WorkloadOver => NoUndefinedBehaviour)
<1>1. SafeUntilTheEnd /\ EndsQuietly => (WorkloadOver => NoUndefinedBehaviour)
  BY DEF SafeUntilTheEnd, EndsQuietly, NoUndefinedBehaviour
<1> QED
  BY <1>1, SafeOptionsAreSafe, EndInvariance, PTL
-----------------------------------------------------------------------------
(* 5. Slice ends                                                           *)

\* The order < on the natural numbers, as a set of pairs.
NatOrder == {s \in Nat \X Nat : s[1] < s[2]}

(* A set of natural numbers has a least element.                           *)
LEMMA LeastNumber ==
  ASSUME NEW S \in SUBSET Nat, S # {}
  PROVE  \E n \in S : \A m \in S : n <= m
<1>1. IsWellFoundedOn(NatOrder, Nat)
  BY NatLessThanWellFounded DEF OpToRel, NatOrder
<1>2. PICK n \in S : \A m \in S : ~(<<m, n>> \in NatOrder)
  BY <1>1, WFMin
<1>3. \A m \in S : ~(m < n)
  BY <1>2 DEF NatOrder
<1> QED BY <1>3

\* The places of the ready queues, and those that the slices have yet to find a
\* core for: as many per queue as queuesSizesBeforeRR says.
Slots  == {x \in Queue \X Nat : 1 <= x[2] /\ x[2] <= Len(readyQueues[x[1]])}
Served == {x \in Queue \X Nat : 1 <= x[2] /\ x[2] <= sizesBeforeRR[x[1]]}

(* Every place of a ready queue holds a process of its own.                *)
LEMMA SlotsAreReady ==
  ASSUME TypeOK, DistinctReady(readyQueues)
  PROVE  IsFiniteSet(Slots) /\ NbReady \in Nat /\ Cardinality(Slots) <= NbReady
<1> DEFINE R == {p \in Procs : InReadyQueues(p)}
           f == [x \in Slots |-> readyQueues[x[1]][x[2]]]
<1>1. IsFiniteSet(R)
  <2>1. IsFiniteSet(Procs)
    BY FS_Interval, SizeAssumption DEF Procs
  <2> QED BY <2>1, FS_Subset
<1>2. ASSUME NEW x \in Slots
      PROVE  /\ x = <<x[1], x[2]>> /\ x[1] \in Queue /\ x[2] \in 1..Len(readyQueues[x[1]])
             /\ readyQueues[x[1]] \in Seq(Procs)
  BY DEF Slots, TypeOK
<1>3. f \in [Slots -> R]
  <2>1. SUFFICES ASSUME NEW x \in Slots PROVE f[x] \in R
    OBVIOUS
  <2>2. f[x] \in Procs /\ x[2] \in DOMAIN readyQueues[x[1]]
    BY <1>2
  <2> QED BY <1>2, <2>2 DEF InReadyQueues, ProcessInQueue
<1>4. ASSUME NEW x \in Slots, NEW y \in Slots, f[x] = f[y] PROVE x = y
  BY <1>2, <1>4 DEF DistinctReady
<1>5. f \in Injection(Slots, R)
  BY <1>3, <1>4 DEF Injection, IsInjective
<1> HIDE DEF f
<1> QED
  BY <1>1, <1>5, FS_Injection, FS_CardinalityType DEF NbReady

(* The loop of schedulingLogic.c:420-427 hands the switching cores out to  *)
(* the queues: if it has handed out all of them, each has a queue.         *)
LEMMA EachSpareIsHandedOut ==
  ASSUME NEW spare \in [0..QueueCount -> 0..CoreCount], NEW last \in Queue,
         spare[last + 1] = 0, NEW j \in 1..spare[0]
  PROVE  \E q \in Queue : spare[q + 1] < j /\ j <= spare[q]
<1> DEFINE S == {r \in 0..QueueCount : spare[r] < j}
<1>1. \A q \in Queue : q \in 0..QueueCount /\ q + 1 \in 0..QueueCount
  BY SizeAssumption DEF Queue
<1>2. last + 1 \in S /\ S \in SUBSET Nat /\ 0 \in 0..QueueCount
  BY <1>1, SizeAssumption
<1>3. PICK r \in S : \A m \in S : r <= m
  BY <1>2, LeastNumber
<1>4. spare[0] \in Int /\ j \in Int /\ j <= spare[0] /\ r # 0 /\ r \in 0..QueueCount
  BY <1>2, <1>3
<1>5. r - 1 \in Queue /\ r - 1 \notin S /\ r - 1 \in 0..QueueCount /\ (r - 1) + 1 = r
  BY <1>3, <1>4, SizeAssumption DEF Queue
<1>6. spare[r - 1] \in Int /\ ~(spare[r - 1] < j)
  BY <1>5
<1>7. spare[(r - 1) + 1] < j /\ j <= spare[r - 1]
  BY <1>3, <1>4, <1>5, <1>6
<1> QED
  BY <1>5, <1>7

(* The sizes that the loop leaves: the cores that are being switched out   *)
(* and the sizes that are left are together no more than the processes in  *)
(* the ready queues, unless nothing is left.                               *)
LEMMA SizesServe ==
  ASSUME TypeOK, DistinctReady(readyQueues), QueuesSizesBeforeRR
  PROVE  \/ Served' = {}
         \/ /\ IsFiniteSet(Served')
            /\ Cardinality(SwitchingOut) + Cardinality(Served') <= NbReady
<1> DEFINE size(q) == Len(readyQueues[q])
           n == Cardinality(SwitchingOut)
<1>1. PICK spare \in [0..QueueCount -> 0..CoreCount] :
        /\ spare[0] = n
        /\ \A q \in Queue : spare[q + 1] = spare[q] - Deducted(size(q), spare[q])
        /\ sizesBeforeRR' = [q \in Queue |-> size(q) - Deducted(size(q), spare[q])]
  BY DEF QueuesSizesBeforeRR, SwitchingOut
<1>2. ASSUME NEW q \in Queue
      PROVE  /\ q \in 0..QueueCount /\ q + 1 \in 0..QueueCount
             /\ spare[q] \in Nat /\ spare[q + 1] \in Nat /\ size(q) \in Nat
             /\ spare[q] - spare[q + 1] = Deducted(size(q), spare[q])
             /\ sizesBeforeRR'[q] = size(q) - Deducted(size(q), spare[q])
             /\ Deducted(size(q), spare[q]) \in 0..size(q)
             /\ sizesBeforeRR'[q] > 0 => spare[q + 1] = 0
  <2>1. q \in 0..QueueCount /\ q + 1 \in 0..QueueCount /\ size(q) \in Nat
    BY SizeAssumption DEF Queue, TypeOK
  <2>2. spare[q] \in Nat /\ spare[q + 1] \in Nat
    BY <2>1, SizeAssumption
  <2>3. /\ sizesBeforeRR'[q] = size(q) - Deducted(size(q), spare[q])
        /\ spare[q + 1] = spare[q] - Deducted(size(q), spare[q])
    BY <1>1
  <2>4. Deducted(size(q), spare[q]) \in Int
    BY <2>1, <2>2 DEF Deducted
  <2> HIDE DEF size
  <2> QED BY <2>1, <2>2, <2>3, <2>4 DEF Deducted
<1> DEFINE taken(q) == spare[q] - spare[q + 1]
           Taken  == {x \in Slots : x[2] <= taken(x[1])}
           Behind == Slots \ Taken
<1>3. SUFFICES ASSUME Served' # {}
      PROVE  IsFiniteSet(Served') /\ n + Cardinality(Served') <= NbReady
  OBVIOUS
<1>4. \A x : x \in Served' <=>
        x \in Queue \X Nat /\ 1 <= x[2] /\ x[2] <= sizesBeforeRR'[x[1]]
  BY DEF Served
<1>5. PICK last \in Queue : spare[last + 1] = 0
  <2>1. PICK x \in Served' : TRUE
    BY <1>3
  <2>2. x[1] \in Queue /\ x[2] \in Nat /\ 1 <= x[2] /\ x[2] <= sizesBeforeRR'[x[1]]
    BY <1>4, <2>1
  <2>3. sizesBeforeRR'[x[1]] \in Int
    BY <1>2, <2>2
  <2>4. sizesBeforeRR'[x[1]] > 0
    BY <2>2, <2>3
  <2> QED BY <1>2, <2>2, <2>4
<1>6. /\ IsFiniteSet(Taken) /\ IsFiniteSet(Behind) /\ IsFiniteSet(Slots)
      /\ Cardinality(Taken) + Cardinality(Behind) = Cardinality(Slots)
      /\ Cardinality(Taken) \in Nat /\ Cardinality(Behind) \in Nat
      /\ Cardinality(Slots) \in Nat /\ NbReady \in Nat /\ Cardinality(Slots) <= NbReady
  <2>1. IsFiniteSet(Slots) /\ NbReady \in Nat /\ Cardinality(Slots) <= NbReady
    BY SlotsAreReady
  <2>2. Slots \cap Taken = Taken
    OBVIOUS
  <2> HIDE DEF Taken
  <2>3. IsFiniteSet(Taken) /\ IsFiniteSet(Behind)
    BY <2>1, <2>2, FS_Difference, FS_Intersection
  <2>4. Cardinality(Behind) = Cardinality(Slots) - Cardinality(Taken)
    BY <2>1, <2>2, FS_Difference
  <2>5. /\ Cardinality(Taken) \in Nat /\ Cardinality(Behind) \in Nat
        /\ Cardinality(Slots) \in Nat
    BY <2>1, <2>3, FS_CardinalityType
  <2> HIDE DEF Behind
  <2> QED BY <2>1, <2>3, <2>4, <2>5
<1>7. n \in Nat /\ n <= Cardinality(Taken)
  <2> DEFINE number(x) == spare[x[1] + 1] + x[2]
             Chosen == {x \in Taken : number(x) \in 1..n}
             g == [x \in Chosen |-> number(x)]
  <2>1. n \in Nat
    <3>1. 0 \in 0..QueueCount
      BY SizeAssumption
    <3> QED BY <1>1, <3>1, SizeAssumption
  <2>2. ASSUME NEW j \in 1..n PROVE \E x \in Chosen : g[x] = j
    <3>1. PICK q \in Queue : spare[q + 1] < j /\ j <= spare[q]
      BY <1>1, <1>5, EachSpareIsHandedOut
    <3>2. /\ spare[q] \in Nat /\ spare[q + 1] \in Nat /\ size(q) \in Nat
          /\ taken(q) <= size(q)
      BY <1>2
    <3> DEFINE k == j - spare[q + 1]
    <3>3. k \in Nat /\ 1 <= k /\ k <= taken(q) /\ spare[q + 1] + k = j
      <4>1. j \in Int
        BY <2>1
      <4> HIDE DEF n
      <4> QED BY <3>1, <3>2, <4>1
    <3>4. k <= size(q)
      <4> HIDE DEF size, k, taken
      <4>1. taken(q) \in Int
        BY <3>2 DEF taken
      <4> QED BY <3>2, <3>3, <4>1
    <3>5. <<q, k>> \in Taken
      BY <3>3, <3>4 DEF Slots
    <3>6. number(<<q, k>>) = j
      BY <3>3
    <3>7. <<q, k>> \in Chosen /\ g[<<q, k>>] = j
      BY <3>5, <3>6
    <3> HIDE DEF k, Chosen, g
    <3> QED BY <3>7
  <2>3. g \in [Chosen -> 1..n]
    OBVIOUS
  <2>4. g \in Surjection(Chosen, 1..n)
    BY <2>2, <2>3 DEF Surjection
  <2>5. IsFiniteSet(Chosen) /\ Cardinality(Chosen) <= Cardinality(Taken)
        /\ Cardinality(Chosen) \in Nat
    BY <1>6, FS_Subset, FS_CardinalityType
  <2> HIDE DEF g, Chosen, Taken
  <2>6. Cardinality(1..n) <= Cardinality(Chosen)
    BY <2>4, <2>5, FS_Surjection
  <2>7. Cardinality(1..n) = n
    BY <2>1, FS_Interval
  <2> QED BY <1>6, <2>1, <2>5, <2>6, <2>7
<1>8. IsFiniteSet(Served') /\ Cardinality(Served') <= Cardinality(Behind)
  <2> DEFINE h == [x \in Served' |-> <<x[1], x[2] + taken(x[1])>>]
  <2>1. ASSUME NEW x \in Served'
        PROVE  /\ x = <<x[1], x[2]>> /\ x[1] \in Queue /\ x[2] \in Nat /\ taken(x[1]) \in Nat
               /\ 1 <= x[2] /\ x[2] + taken(x[1]) <= size(x[1]) /\ size(x[1]) \in Nat
    <3>1. /\ x = <<x[1], x[2]>> /\ x[1] \in Queue /\ x[2] \in Nat
          /\ 1 <= x[2] /\ x[2] <= sizesBeforeRR'[x[1]]
      BY <1>4
    <3> HIDE DEF size
    <3>2. /\ taken(x[1]) \in Nat /\ size(x[1]) \in Nat
          /\ sizesBeforeRR'[x[1]] = size(x[1]) - taken(x[1])
      BY <1>2, <3>1
    <3> HIDE DEF taken
    <3> QED BY <3>1, <3>2
  <2>2. ASSUME NEW x \in Served' PROVE h[x] \in Behind
    <3>1. h[x] = <<x[1], x[2] + taken(x[1])>>
      OBVIOUS
    <3> HIDE DEF taken
    <3>2. x[2] + taken(x[1]) \in Nat /\ 1 <= x[2] + taken(x[1])
          /\ ~(x[2] + taken(x[1]) <= taken(x[1]))
      BY <2>1
    <3> QED BY <2>1, <3>1, <3>2 DEF Slots
  <2>3. h \in [Served' -> Behind]
    <3> HIDE DEF Behind, taken
    <3> QED BY <2>2
  <2>4. ASSUME NEW x \in Served', NEW y \in Served', h[x] = h[y] PROVE x = y
    <3>1. x[1] = y[1] /\ x[2] + taken(x[1]) = y[2] + taken(y[1])
      BY <2>4
    <3> HIDE DEF taken
    <3> QED BY <2>1, <3>1
  <2>5. h \in Injection(Served', Behind)
    <3> HIDE DEF h, Behind
    <3> QED BY <2>3, <2>4 DEF Injection, IsInjective
  <2> HIDE DEF h, Behind
  <2> QED BY <1>6, <2>5, FS_Injection
<1> HIDE DEF n, Taken, Behind
<1>9. Cardinality(Served') \in Nat
  BY <1>8, FS_CardinalityType
<1> QED
  BY <1>6, <1>7, <1>8, <1>9
-----------------------------------------------------------------------------
\* What is left of the sizes, while the slices are looked at.  A context switch that
\* takes no time changes neither side of the promise.
SlicesServe ==
  SwitchOutDuration > 0 /\ phase = "slice" =>
    \/ Served = {}
    \/ /\ IsFiniteSet(Served)
       /\ Cardinality(SwitchingOut) + Cardinality(Served) <= NbReady

(* One more core is switched out, and one process less needs a core.       *)
LEMMA SwitchOutServes ==
  ASSUME Inv, DistinctReady(readyQueues), ExecutingExist, SwitchOutDuration > 0, SlicesServe,
         SwitchOutAfterSlice
  PROVE  /\ SlicesServe'
         /\ Cardinality(SwitchingOut') <= NbReady'
<1> DEFINE q == node[core[index].node].queueNbr
           last == <<q, sizesBeforeRR[q]>>
<1>1. TypeOK /\ index \in Cores /\ core[index] \in Core /\ phase = "slice"
  BY DEF Inv, IndexOK, TypeOK, SwitchOutAfterSlice, At
<1>2. /\ core[index].state = "OCCUPIED" /\ sizesBeforeRR[q] # 0
      /\ core' = [core EXCEPT ![index].state = "SWITCH_OUT",
                              ![index].switchOutTimer = SwitchOutDuration,
                              ![index].continueOnCPU = TRUE]
      /\ readyQueues' = readyQueues
      /\ sizesBeforeRR' = [sizesBeforeRR EXCEPT ![q] = @ - 1]
  BY DEF SwitchOutAfterSlice, SwitchOutReady, SliceOver
<1>3. q \in Queue /\ sizesBeforeRR[q] \in Nat /\ sizesBeforeRR[q] >= 1
  <2>1. q \in Queue
    BY <1>1, <1>2 DEF ExecutingExist, Executing
  <2> QED BY <1>1, <1>2, <2>1 DEF TypeOK
<1> HIDE DEF q
<1>4. SwitchingOut' = SwitchingOut \cup {index} /\ index \notin SwitchingOut
  <2>1. ASSUME NEW c \in Cores
        PROVE  core'[c].state = IF c = index THEN "SWITCH_OUT" ELSE core[c].state
    BY <1>1, <1>2 DEF TypeOK, Core
  <2> QED BY <1>1, <1>2, <2>1 DEF SwitchingOut
<1>5. Served' = Served \ {last} /\ last \in Served
  <2>1. ASSUME NEW x \in Queue \X Nat
        PROVE  /\ x = <<x[1], x[2]>> /\ x[1] \in Queue /\ x[2] \in Nat
               /\ sizesBeforeRR[x[1]] \in Nat
               /\ sizesBeforeRR'[x[1]] = IF x[1] = q THEN sizesBeforeRR[q] - 1
                                         ELSE sizesBeforeRR[x[1]]
    BY <1>1, <1>2, <1>3 DEF TypeOK
  <2>2. ASSUME NEW x \in Queue \X Nat
        PROVE  x \in Served' <=> x \in Served \ {last}
    BY <1>3, <2>1 DEF Served
  <2>3. \A x \in Served' \cup Served : x \in Queue \X Nat
    BY DEF Served
  <2>4. last \in Served
    BY <1>3 DEF Served
  <2> QED BY <2>2, <2>3, <2>4
<1>6. NbReady' = NbReady /\ NbReady \in Nat
  BY <1>1, <1>2, SlotsAreReady DEF NbReady, InReadyQueues
<1>7. /\ IsFiniteSet(Served) /\ Cardinality(Served) \in Nat
      /\ Cardinality(SwitchingOut) + Cardinality(Served) <= NbReady
  BY <1>1, <1>5, FS_CardinalityType DEF SlicesServe
<1>8. IsFiniteSet(SwitchingOut) /\ Cardinality(SwitchingOut) \in Nat
  <2>1. IsFiniteSet(Cores)
    BY FS_Interval, SizeAssumption DEF Cores
  <2>2. SwitchingOut \subseteq Cores
    BY DEF SwitchingOut
  <2> QED BY <2>1, <2>2, FS_Subset, FS_CardinalityType
<1>9. Cardinality(SwitchingOut') = Cardinality(SwitchingOut) + 1
  BY <1>4, <1>8, FS_AddElement
<1>10. IsFiniteSet(Served') /\ Cardinality(Served') = Cardinality(Served) - 1
  BY <1>5, <1>7, FS_RemoveElement
<1>11. Cardinality(Served') \in Nat
  BY <1>10, FS_CardinalityType
<1>12. Cardinality(SwitchingOut') + Cardinality(Served') <= NbReady'
  BY <1>6, <1>7, <1>8, <1>9, <1>10
<1>13. Cardinality(SwitchingOut') <= NbReady'
  BY <1>6, <1>8, <1>9, <1>11, <1>12
<1> QED
  BY <1>10, <1>12, <1>13 DEF SlicesServe

(* What may run while the slices are looked at.                            *)
LEMMA OnlySlices ==
  ASSUME Next, ~Stop, phase = "slice"
  PROVE  SliceContinues \/ SwitchOutAfterSlice \/ NewSlice
BY DEF Next, At, StartTick, EndOfWorkload, ProcessArrived, ArrivalsDone, AgingNextQueue,
   AgingDone, AgingKeep, AgingMove, NoProcess, SwitchInDone, SwitchOutDone, Terminate,
   StartIO, NoEvent, WithinLimit, Demote, Preempt, KeepRunning, Resume, NoResume,
   QueuesSizesBeforeRR, NoInterrupt, InterruptCore, NoInterruptTime, SkipCore,
   PutProcessOnCPU, SkipDisk, PutProcessOnDisk, AdvanceProcessTime, AdvanceSchedulingTime,
   FreeComputer

(* The other steps of the loop switch nothing out.                         *)
LEMMA SlicesServeOn ==
  ASSUME Inv, Owned, ExecutingExist, SlicesServe, Next, ~Stop
  PROVE  SlicesServe'
<1>1. SUFFICES ASSUME SwitchOutDuration > 0, phase' = "slice" PROVE SlicesServe'
  BY DEF SlicesServe
<1>2. TypeOK /\ DistinctReady(readyQueues)
  BY DEF Inv, Owned
<1>3. QueuesSizesBeforeRR \/ (phase = "slice" /\ PreviousCore)
  <2>1. phase \notin BehindSlices
    BY <1>1 DEF BehindSlices, Next, At, Goto, NoInterrupt, InterruptCore, NextIdleCore,
       NoInterruptTime, SkipCore, PutProcessOnCPU, SkipDisk, PutProcessOnDisk,
       AdvanceProcessTime, AdvanceSchedulingTime, FreeComputer, StartTick, EndOfWorkload,
       ProcessArrived, ArrivalsDone, AgingNextQueue, AgingDone, AgingKeep, AgingMove,
       NoProcess, SwitchInDone, SwitchOutDone, Terminate, StartIO, NoEvent, WithinLimit,
       Demote, Preempt, KeepRunning, Resume, NoResume, NextCore, QueuesSizesBeforeRR,
       SliceContinues, SwitchOutAfterSlice, NewSlice
  <2> QED BY <1>1, <2>1, SlicesReached
<1>4. CASE QueuesSizesBeforeRR
  <2>1. UNCHANGED <<core, readyQueues>>
    BY <1>4 DEF QueuesSizesBeforeRR, lists
  <2>2. SwitchingOut' = SwitchingOut /\ NbReady' = NbReady
    BY <2>1 DEF SwitchingOut, NbReady, InReadyQueues
  <2> QED BY <1>2, <1>4, <2>2, SizesServe DEF SlicesServe
<1>5. CASE phase = "slice"
  <2>1. SliceContinues \/ SwitchOutAfterSlice \/ NewSlice
    BY <1>5, OnlySlices
  <2>2. CASE SwitchOutAfterSlice
    BY <1>1, <1>2, <2>2, SwitchOutServes
  <2>3. CASE SliceContinues \/ NewSlice
    <3>1. UNCHANGED <<readyQueues, sizesBeforeRR>>
      BY <2>3 DEF SliceContinues, NewSlice, system, lists
    <3>2. SwitchingOut' = SwitchingOut
      <4>1. core' = core \/ core' = [core EXCEPT ![index].quantumTime = 0]
        BY <2>3 DEF SliceContinues, NewSlice, system
      <4>2. ASSUME NEW c \in Cores PROVE core'[c].state = core[c].state
        <5>1. core \in [Cores -> Core] /\ core[c] \in Core
          BY <1>2 DEF TypeOK
        <5>2. CASE c = index
          BY <4>1, <5>1, <5>2 DEF Core
        <5>3. CASE c # index
          BY <4>1, <5>1, <5>3
        <5> QED BY <5>2, <5>3
      <4> QED BY <4>2 DEF SwitchingOut
    <3>3. Served' = Served /\ NbReady' = NbReady
      BY <3>1 DEF Served, NbReady, InReadyQueues
    <3> QED BY <1>1, <1>5, <3>2, <3>3 DEF SlicesServe
  <2> QED BY <2>1, <2>2, <2>3
<1> QED
  BY <1>3, <1>4, <1>5

(* At the end of their slices no more cores are switched out than there    *)
(* are processes in the ready queues: what queuesSizesBeforeRR deducts for *)
(* the cores that are already switching, and for each core it lets go.     *)
THEOREM SliceEndsServe ==
  ASSUME GoodInputs
  PROVE  Spec => SliceEndsServeSomebody
<1> DEFINE Serve == fault = "none" => SlicesServe
<1>1. Init => Serve
  BY DEF Init, SlicesServe
<1>2. Inv /\ Kept /\ CoresHaveQueues /\ Serve /\ [Next]_vars => Serve'
  <2>1. SUFFICES ASSUME Inv, Kept, CoresHaveQueues, Serve, [Next]_vars, fault' = "none"
        PROVE  SlicesServe'
    OBVIOUS
  <2>2. CASE UNCHANGED vars \/ Stop
    <3>1. UNCHANGED <<phase, fault, sizesBeforeRR, core, readyQueues>>
      BY <2>2, SystemUnchanged DEF Stop, vars
    <3>2. Served' = Served /\ SwitchingOut' = SwitchingOut /\ NbReady' = NbReady
      BY <3>1 DEF Served, SwitchingOut, NbReady, InReadyQueues
    <3> QED BY <2>1, <3>1, <3>2 DEF SlicesServe
  <2>3. CASE Next /\ ~Stop
    <3>1. fault = "none" /\ Owned
      BY <2>1, <2>3, RunningIsOwned
    <3> QED BY <2>1, <2>3, <3>1, SlicesServeOn DEF CoresHaveQueues
  <2> QED BY <2>1, <2>2, <2>3
<1>3. Inv /\ Kept /\ CoresHaveQueues /\ Serve /\ [Next]_vars =>
        [phase = "slice" /\ SwitchingOut' # SwitchingOut =>
           Cardinality(SwitchingOut') <= NbReady']_vars
  <2>1. SUFFICES ASSUME Inv, Kept, CoresHaveQueues, Serve, Next, phase = "slice",
                        SwitchingOut' # SwitchingOut
        PROVE  Cardinality(SwitchingOut') <= NbReady'
    BY DEF vars
  <2>2. ~Stop
    <3>1. SUFFICES ASSUME Stop PROVE FALSE
      OBVIOUS
    <3>2. core' = core
      BY <3>1, SystemUnchanged DEF Stop, vars
    <3> QED BY <2>1, <3>2 DEF SwitchingOut
  <2>3. fault = "none" /\ Owned /\ TypeOK
    BY <2>1, <2>2, RunningIsOwned DEF Inv
  <2>4. SwitchOutAfterSlice /\ SwitchOutDuration > 0
    <3>1. SUFFICES ASSUME ~(SwitchOutAfterSlice /\ SwitchOutDuration > 0) PROVE FALSE
      OBVIOUS
    <3>2. \/ core' = core
          \/ core' = [core EXCEPT ![index].quantumTime = 0]
          \/ /\ SliceOver(index)
             /\ core' = [core EXCEPT ![index].state = "IDLE", ![index].node = NULL]
      <4>1. SliceContinues \/ SwitchOutAfterSlice \/ NewSlice
        BY <2>1, <2>2, OnlySlices
      <4> QED BY <3>1, <4>1
         DEF SliceContinues, SwitchOutAfterSlice, SwitchOutReady, NewSlice, system
    <3>3. ASSUME NEW c \in Cores
          PROVE  core'[c].state = "SWITCH_OUT" <=> core[c].state = "SWITCH_OUT"
      <4>1. core \in [Cores -> Core] /\ core[c] \in Core
        BY <2>3 DEF TypeOK
      <4>2. CASE c = index
        BY <3>2, <4>1, <4>2 DEF Core, SliceOver
      <4>3. CASE c # index
        BY <3>2, <4>1, <4>3
      <4> QED BY <4>2, <4>3
    <3> QED BY <2>1, <3>3 DEF SwitchingOut
  <2> QED BY <2>1, <2>3, <2>4, SwitchOutServes DEF CoresHaveQueues, Owned
<1> HIDE DEF Serve
<1> QED
  BY <1>1, <1>2, <1>3, QueuesInvariance, Invariance, Ownership, PTL
  DEF Spec, SliceEndsServeSomebody
=============================================================================
