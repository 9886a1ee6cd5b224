----------------------------- MODULE SchedulerMC -----------------------------
(***************************************************************************)
(* Inputs for TLC: the workloads and the ready queue options of each run.  *)
(***************************************************************************)
EXTENDS SchedulerProperties

Sum(bursts) == FoldLeft(LAMBDA x, y : x + y, 0, bursts)

\* An input line whose bursts alternate between CPU and IO and last this long.
Line(start, priority, bursts) ==
  [startTime |-> start, priority |-> priority, processDuration |-> Sum(bursts),
   events |-> [k \in DOMAIN bursts |->
                 [type |-> IF k % 2 = 1 THEN "CPU" ELSE "IO",
                  time |-> Sum(SubSeq(bursts, 1, k - 1))]]]

Lines(starts, priorities, bursts) ==
  {Line(s, i, b) : s \in starts, i \in priorities, b \in bursts}

\* The options of one ready queue.
Option(type, slice, limit, age) ==
  [type |-> type, RRSliceLimit |-> slice, executiontTimeLimit |-> limit, ageLimit |-> age]

FCFS(limit, age)       == Option("FCFS", NO_LIMIT, limit, age)
SJF(limit, age)        == Option("SJF", NO_LIMIT, limit, age)
RR(slice, limit, age)  == Option("RR", slice, limit, age)
PRIORITY(limit, age)   == Option("PRIORITY", NO_LIMIT, limit, age)

OneQueue(o)         == [q \in 0..0 |-> o]
TwoQueues(o, p)     == [q \in 0..1 |-> IF q = 0 THEN o ELSE p]
ThreeQueues(o, p, r) == [q \in 0..2 |-> IF q = 0 THEN o ELSE IF q = 1 THEN p ELSE r]

-----------------------------------------------------------------------------
(* Inputs like those of test_files, on two cores: bursts alternate, the    *)
(* last is a CPU burst, an I/O burst is at least as long as a switch-out.  *)
(* Slices, demotions, aging, preemption, disk operations and interrupts    *)
(* meet at all the moments the arrivals and bursts allow.                  *)
MultilevelWorkloads ==
  {<<a, b, c, d>> : a \in Lines({0}, {3}, {<<5>>, <<1, 2, 2>>, <<2, 3, 1>>}),
                    b \in Lines({0, 1}, {2}, {<<4>>, <<2, 2, 1>>}),
                    c \in Lines({0, 2}, {4}, {<<3>>, <<1, 3, 2>>}),
                    d \in Lines({1, 3}, {1}, {<<3>>, <<2, 2, 2>>})}

MultilevelConfigurations ==
  {TwoQueues(RR(2, 3, NO_LIMIT), RR(3, NO_LIMIT, 3)),
   TwoQueues(PRIORITY(3, NO_LIMIT), FCFS(NO_LIMIT, 5))}

-----------------------------------------------------------------------------
(* Preemption inside a queue on one core: arrivals while another process   *)
(* runs, with equal and different keys.  With equal keys two processes     *)
(* preempt each other for ever, so this run ends at MaxTime.               *)
PreemptiveWorkloads ==
  {<<a, b, c>> : a \in Lines({0}, {2}, {<<4>>, <<2, 2, 2>>}),
                 b \in Lines({0, 2, 4}, {1, 2}, {<<3>>, <<1, 2, 3>>}),
                 c \in Lines({1, 3}, {0, 3}, {<<2>>, <<1, 3, 1>>})}

PreemptiveConfigurations ==
  {TwoQueues(top, SJF(NO_LIMIT, 4)) :
     top \in {PRIORITY(2, NO_LIMIT), SJF(3, NO_LIMIT)}}

-----------------------------------------------------------------------------
(* Inputs the parsers accept too: I/O bursts shorter than a switch-out, an *)
(* I/O burst at the end, an empty first burst, an age limit on the first   *)
(* queue, an execution limit on the last, aging in sorted queues.  In the  *)
(* last workload two processes leave the sorted queue from its middle and  *)
(* its end, and the prev pointer left behind by the first is followed.     *)
AnyWorkloads ==
  {<<Line(0, 2, <<8>>), Line(1, 3, <<6>>), Line(2, 1, <<6>>), Line(3, 0, <<20>>), e>> :
     e \in Lines({0, 3}, {0}, {<<20>>})} \cup
  {<<a, b, c, d, Line(40, 0, <<1>>)>> : a \in Lines({0}, {3}, {<<4>>, <<2, 1, 1>>}),
                    b \in Lines({0}, {1}, {<<1, 2>>, <<3>>, <<0, 1, 2>>}),
                    c \in Lines({1}, {2}, {<<5>>, <<1, 1, 1>>}),
                    d \in Lines({2, 30}, {0, 2}, {<<2>>})}

AnyConfigurations ==
  {TwoQueues(FCFS(1, NO_LIMIT), PRIORITY(NO_LIMIT, 10))} \cup
  {TwoQueues(top, bottom) :
     top \in {RR(2, 1, NO_LIMIT), PRIORITY(1, NO_LIMIT), FCFS(2, 4)},
     bottom \in {PRIORITY(NO_LIMIT, 3), SJF(NO_LIMIT, 2), RR(1, 2, NO_LIMIT)}}

-----------------------------------------------------------------------------
(* SWITCH_IN_DURATION, SWITCH_OUT_DURATION and INTERRUPT_TIME are 0: the   *)
(* other branch of every test of these macros.                             *)
ZeroWorkloads ==
  {<<a, b, c>> : a \in Lines({0}, {3}, {<<4>>, <<2, 1, 1>>}),
                 b \in Lines({0, 1}, {2}, {<<3>>, <<1, 2, 2>>}),
                 c \in Lines({0, 2, 3}, {1, 4}, {<<4>>, <<1, 1, 2>>})}

ZeroConfigurations ==
  {TwoQueues(RR(2, 3, NO_LIMIT), FCFS(NO_LIMIT, 1)),
   TwoQueues(PRIORITY(2, NO_LIMIT), RR(3, NO_LIMIT, 2))}

-----------------------------------------------------------------------------
(* One input each for the runs that end in a violation.                    *)

\* An I/O burst of one time unit.
ShortIOWorkloads == {<<Line(0, 1, <<2, 1, 2>>)>>}
FCFSConfigurations == {OneQueue(FCFS(NO_LIMIT, NO_LIMIT))}

\* Two processes with the same priority.
EqualPriorityWorkloads == {<<Line(0, 1, <<3>>), Line(1, 1, <<2>>)>>}
PriorityConfigurations == {OneQueue(PRIORITY(NO_LIMIT, NO_LIMIT))}

\* Two processes demoted together, whose age limit is reached in the same time unit.
AgeWorkloads ==
  {<<Line(0, 1, <<6>>), Line(0, 1, <<6>>), Line(0, 1, <<c>>), Line(0, 1, <<d>>)>> :
     c, d \in 5..6}
AgeConfigurations == {TwoQueues(RR(2, 2, NO_LIMIT), FCFS(NO_LIMIT, 3))}

\* A process that is demoted without leaving its core, while another one, demoted
\* before, is on the disk.
SliceWorkloads ==
  {<<Line(0, 1, <<a, 8, 2>>), Line(a + 2, 1, <<12>>)>> : a \in 2..6}
SliceConfigurations ==
  {TwoQueues(FCFS(3, NO_LIMIT), RR(2, NO_LIMIT, NO_LIMIT))}

\* A process that starts its I/O one time unit before the limit of 200.
LateIOWorkloads == {<<Line(0, 1, <<198, 8, 1>>)>>}

-----------------------------------------------------------------------------
(* Which of these inputs are like those of test_files.                     *)

ASSUME GoodWorkloads ==
  Workloads \in {MultilevelWorkloads, PreemptiveWorkloads, ZeroWorkloads,
                 EqualPriorityWorkloads, AgeWorkloads, SliceWorkloads, LateIOWorkloads}
    => GoodInputs

\* ... and which options are those of the theorems about slices, limits and faults.
ASSUME GoodOptions ==
  /\ Configurations = MultilevelConfigurations => SliceOptions /\ LimitOptions
  /\ Configurations \in {FCFSConfigurations, PriorityConfigurations} => SafeOptions
=============================================================================
