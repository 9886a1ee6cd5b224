---------------------------- MODULE ProcessGraph ----------------------------
(***************************************************************************)
(* The graph (graph.c) as advanceProcessTime draws it: a list of events    *)
(* for every process added by launchSimulation and one for the disk, and   *)
(* the rows printGraph prints from them.  The graph composes with the      *)
(* simulator of CpuScheduler; it only listens.                             *)
(***************************************************************************)
EXTENDS SchedulerProperties

CONSTANTS
    MaxProcesses,   \* MAX_PROCESSES  (100 in graph.c)
    MaxTimeSlots    \* MAX_TIME_SLOTS (10000 in graph.c)

ASSUME GraphAssumption == MaxProcesses \in Nat /\ MaxTimeSlots \in Nat

VARIABLE graph

graphVars == <<vars, graph>>

\* The characters of the graph.
WAITING_SYMBOL == 46
READY_SYMBOL   == 45
SPACE          == 32   \* TERMINATED_SYMBOL and DISK_IDLE_SYMBOL

\* idToSymbol: a digit, a capital or a small letter, and from the start again.
IdToSymbol(id) ==
  LET i == id % 62
  IN IF i < 10 THEN 48 + i ELSE IF i < 36 THEN 55 + i ELSE 61 + i

\* The processes launchSimulation adds before its loop: one that finds the graph
\* full is not added.
AddedProcesses == 1..(IF NbProcesses < MaxProcesses THEN NbProcesses ELSE MaxProcesses)

InitGraph == [processes |-> [p \in AddedProcesses |-> <<>>], disk |-> <<>>, nbTimeSlots |-> 0]

-----------------------------------------------------------------------------
(* addProcessEventToGraph and addDiskEventToGraph append an event; an      *)
(* event behind the last time slot is refused, one of a process that is    *)
(* not in the graph is lost.                                               *)

GraphEvent(symbol) == [symbol |-> symbol, time |-> time]

\* The core that holds p, or CoreCount when the loop of advanceProcessTime finds none.
CoreOf_any(p) == 0                             \* mutant: the loop does not compare

CoreOf(p) ==
  LET holders == {c \in Cores : core[c].node = p}
  IN IF holders = {} THEN CoreCount
     ELSE CHOOSE c \in holders : \A d \in holders : c <= d

\* The event of p in this time unit, if it has one.
ProcessEvents_always(p) ==                     \* mutant: also before it arrives
  <<GraphEvent(IF proc[p].state = "RUNNING" THEN IdToSymbol(CoreOf(p))
           ELSE IF proc[p].state = "WAITING" THEN WAITING_SYMBOL ELSE READY_SYMBOL)>>

ProcessEvents(p) ==
  CASE proc[p].state = "RUNNING"    -> <<GraphEvent(IdToSymbol(CoreOf(p)))>>
    [] proc[p].state = "WAITING"    -> <<GraphEvent(WAITING_SYMBOL)>>
    [] proc[p].state = "TERMINATED" -> <<GraphEvent(SPACE)>>
    [] proc[p].state = "READY"      ->
         IF workload[p].startTime <= time THEN <<GraphEvent(READY_SYMBOL)>> ELSE <<>>

\* The events of the disk: one of the process that waits for it (there is one
\* process at most whose node the disk holds), one more of an idle disk.
DiskEvents_noIdle ==                           \* mutant: the event added last is missing
  IF disk.node # NULL /\ disk.state = "DISK_RUNNING" /\ proc[disk.node].state = "WAITING"
  THEN <<GraphEvent(IdToSymbol(disk.node))>> ELSE <<>>

DiskEvents ==
  (IF disk.node # NULL /\ proc[disk.node].state = "WAITING"
   THEN <<GraphEvent(IF disk.state = "DISK_RUNNING" THEN IdToSymbol(disk.node) ELSE SPACE)>>
   ELSE <<>>)
  \o (IF disk.state = "DISK_IDLE" THEN <<GraphEvent(SPACE)>> ELSE <<>>)

\* createNewEventForGraph: the number of time slots grows with every event, also
\* with one that is not added to a row.
AddEvents ==
  LET drawn == DiskEvents # <<>> \/ \E p \in Procs : ProcessEvents(p) # <<>>
  IN graph' = IF time >= MaxTimeSlots THEN graph
              ELSE [processes   |-> [p \in DOMAIN graph.processes |->
                                       graph.processes[p] \o ProcessEvents(p)],
                    disk        |-> graph.disk \o DiskEvents,
                    nbTimeSlots |-> IF drawn THEN time + 1 ELSE graph.nbTimeSlots]

GraphInit == Init /\ graph = InitGraph

GraphNext ==
  \/ AdvanceProcessTime /\ AddEvents
  \/ Next /\ ~At("advanceProcesses") /\ UNCHANGED graph

GraphSpec == GraphInit /\ [][GraphNext]_graphVars /\ WF_graphVars(GraphNext)

-----------------------------------------------------------------------------
(* printGraph: the symbol in column t of a row.  An event is repeated      *)
(* until the next one; of those of one time unit the last is printed.      *)
Printed(row, t) ==
  LET begun == {k \in DOMAIN row : row[k].time <= t}
  IN IF begun = {} THEN SPACE ELSE row[Max(begun)].symbol

Columns == 0..(graph.nbTimeSlots - 1)

ProcessCell(p, t) == Printed(graph.processes[p], t)
DiskCell(t)       == Printed(graph.disk, t)

\* The columns of p's row in which the symbol is one of the given ones.
ColumnsOf(p, symbols) == {t \in Columns : ProcessCell(p, t) \in symbols}

CoreSymbols == {IdToSymbol(c) : c \in Cores}

\* launchSimulation has returned: the graph is printed now.
Printing == phase = "done" /\ fault = "none"

-----------------------------------------------------------------------------
(* The graph and the statistics are two accounts of one run, kept by       *)
(* different code: a process is drawn from its arrival to its end and not  *)
(* outside, it is drawn on a core for as long as its CPU time says, and    *)
(* drawn ready for at least the time it waited in ready queues.            *)
GraphAgreesWithStats ==
  Printing =>
    \A p \in DOMAIN graph.processes :
      /\ Cardinality(ColumnsOf(p, CoreSymbols)) = stats[p].cpuTime
      /\ Cardinality(ColumnsOf(p, {READY_SYMBOL})) >= stats[p].waitingTime
      /\ \A t \in Columns :
           ProcessCell(p, t) = SPACE <=>
             \/ t < workload[p].startTime
             \/ proc[p].state = "TERMINATED" /\ t >= stats[p].finishTime

(* No two processes are drawn on one core in the same time unit.           *)
OneProcessPerCore ==
  Printing => \A p, q \in DOMAIN graph.processes : \A t \in Columns :
    p # q /\ ProcessCell(p, t) = ProcessCell(q, t) => ProcessCell(p, t) \notin CoreSymbols

(* The disk's row shows whose I/O is done: while a process is shown there  *)
(* its own row says that it waits, and it is shown for as many columns as  *)
(* it has done I/O.                                                        *)
DiskRowShowsIO ==
  Printing =>
    \A p \in DOMAIN graph.processes :
      LET shown == {t \in Columns : DiskCell(t) = IdToSymbol(p)}
      IN /\ shown \subseteq ColumnsOf(p, {WAITING_SYMBOL})
         /\ Cardinality(shown) =
              Cardinality({t \in 0..(proc[p].advancementTime - 1) : BurstAt(p, t) = "IO"})
=============================================================================
