------------------------------ MODULE FrontEnd ------------------------------
(***************************************************************************)
(* The program from main to exit (main.c), around the simulation: the      *)
(* command line, the input file (parseInputFile), what launchSimulation    *)
(* sets up before its loop, and what is freed in the end or when an        *)
(* allocation fails on the way.  The loop itself is module CpuScheduler;   *)
(* here it is one step, Simulate, which unlinks and frees the events the   *)
(* processes have come to.                                                 *)
(***************************************************************************)
EXTENDS CommandLine, SequencesExt

CONSTANT InputFiles   \* the input files considered

\* A line: a comment or empty line is skipped, any other describes a process.
\* `ends`: fgets has read its newline.  `fields`: the four numbers are there.
\* The list of events may be missing, be empty (neither '[' nor ',' in it), have no
\* '[', or lack its last ')'.
Line == [skipped : BOOLEAN, ends : BOOLEAN, fields : BOOLEAN,
         list : {"closed", "open", "noBracket", "empty", "missing"}, events : Nat \ {0}]

ASSUME FileAssumption == \A f \in InputFiles : f \in Seq(Line)

VARIABLES
    file,
    line,           \* the line the loops of parseInputFile have come to
    counted,        \* nbProcesses, of the first pass
    processesInfo,  \* the lines read into the workload, in order
    event,          \* how many events of the line have been read
    consumed,       \* history: the events advanceNextEvent has freed
    step            \* how far launchSimulation has come with its allocations

fileVars   == <<file, line, counted, processesInfo, event, consumed, step>>
parsedVars == <<argv, i, lists, overrun>>
vars       == <<argumentVars, fileVars>>

Procs == DOMAIN processesInfo

Init ==
  /\ ArgumentInit
  /\ file \in InputFiles
  /\ line = 1 /\ counted = 0 /\ processesInfo = <<>> /\ event = 0 /\ step = 1
  /\ consumed = {}

-----------------------------------------------------------------------------
(* What belongs together *)

Graph == {<<"graph">>, <<"graphDisk">>}

Stats == {b \in heap : b[1] \in {"stats", "statsArray", "processStats"}}

EventBlocks(k) == {<<"event", k, n>> : n \in 1..file[k].events}

\* The blocks of the k-th line, the events in front of nextEvent excepted.
\* mutants: there is no loop over the events; it begins at the first event
ProcessBlocks_noEvents(k)  == {<<"info", k>>, <<"pcb", k>>}
ProcessBlocks_allEvents(k) == {<<"info", k>>, <<"pcb", k>>} \cup EventBlocks(k)

ProcessBlocks(k) == {<<"info", k>>, <<"pcb", k>>} \cup (EventBlocks(k) \ consumed)

\* freeWorkload frees what nbProcesses and processesInfo say.
Workload ==
  {<<"workload">>, <<"processesInfo">>} \cup UNION {ProcessBlocks(processesInfo[k]) : k \in Procs}

\* An empty list leaves nextEvent of its process uninitialised.
NoFirstEvent == \E k \in Procs : file[processesInfo[k]].list = "empty"

SchedulerBlocks ==
  <<<<"scheduler">>, <<"readyQueues">>>>
    \o [q \in 1..argv.queues |-> <<"readyQueue", q - 1>>]
    \o <<<<"waitingQueues">>, <<"waitingQueue">>, <<"queuesSizesBeforeRR">>>>

CPUBlocks == <<<<"cpu">>, <<"cores">>>> \o [c \in 1..argv.cores |-> <<"core", c - 1>>]

\* freeScheduler also frees the options, of as many queues as there are.
FreeScheduler ==
  {<<"scheduler">>, <<"readyQueues">>, <<"waitingQueues">>, <<"waitingQueue">>,
   <<"queuesSizesBeforeRR">>} \cup {<<"readyQueue", q>> : q \in 0..(argv.queues - 1)}
    \cup Algorithms \cup AlgorithmBlocks(argv.queues)

FreeCPU_inclusive(cores) ==                      \* mutant: j <= i
  {<<"cpu">>, <<"cores">>} \cup {<<"core", c>> : c \in 0..cores}

FreeCPU(cores) == {<<"cpu">>, <<"cores">>} \cup {<<"core", c>> : c \in 0..(cores - 1)}

FreeComputer == FreeScheduler \cup FreeCPU(argv.cores) \cup {<<"disk">>, <<"computer">>}

-----------------------------------------------------------------------------
(* main: the graph, the statistics *)

Allocate(b, next) == Allocated(b) /\ pc' = next /\ UNCHANGED exitCode

\* Free the blocks and return EXIT_FAILURE.
GiveUp(S) == Freed(S) /\ Exit("failure")

\* C does not say what happens.
Undefined(kind) == fault' = kind /\ UNCHANGED <<pc, heap, exitCode>>

\* initGraph tests the first of its allocations.
InitGraph ==
  /\ pc = "graph"
  /\ \/ Allocate(<<"graph">>, "graphDisk")
     \/ AllocationFails /\ GiveUp({})
  /\ UNCHANGED fileVars

InitGraphDisk ==
  /\ pc = "graphDisk"
  /\ \/ Allocate(<<"graphDisk">>, "stats")
     \/ AllocationFails /\ Undefined("null")
  /\ UNCHANGED fileVars

InitStats ==
  /\ pc = "stats"
  /\ \/ Allocate(<<"stats">>, "open")
     \/ AllocationFails /\ GiveUp(Graph)
  /\ UNCHANGED fileVars

-----------------------------------------------------------------------------
(* parseInputFile.  When it returns NULL, main frees the graph and the     *)
(* statistics and ends.                                                    *)

\* fopen may fail as well.
OpenFile ==
  /\ pc = "open"
  /\ \/ Allocate(<<"workload">>, "count")
     \/ AllocationFails /\ GiveUp(Graph \cup Stats)
     \/ GiveUp(Graph \cup Stats) /\ UNCHANGED failures
  /\ UNCHANGED fileVars

CountLine ==
  /\ pc = "count" /\ line <= Len(file) /\ file[line].ends
  /\ counted' = IF file[line].skipped THEN counted ELSE counted + 1
  /\ line' = line + 1
  /\ UNCHANGED <<pc, heap, failures, fault, exitCode, file, processesInfo, event, consumed, step>>

\* freeWorkload goes by fields that are not initialised before the second pass.
LineTooLong ==
  /\ pc = "count" /\ line <= Len(file) /\ ~file[line].ends
  /\ Undefined("uninitialised")
  /\ UNCHANGED <<failures, fileVars>>

ProcessesInfo ==
  /\ pc = "count" /\ line > Len(file)
  /\ \/ Allocate(<<"processesInfo">>, "read")
     \/ AllocationFails /\ Undefined("uninitialised")
  /\ line' = 1
  /\ UNCHANGED <<file, counted, processesInfo, event, consumed, step>>

\* mutant: the second pass takes empty lines and comments for processes
Skipped_not(k) == FALSE

Skipped(k) == file[k].skipped

SkipLine ==
  /\ pc = "read" /\ line <= Len(file) /\ Skipped(line)
  /\ line' = line + 1
  /\ UNCHANGED <<pc, heap, failures, fault, exitCode, file, counted, processesInfo, event,
                 consumed, step>>

\* An allocation of the line fails: its blocks S and the workload are freed.
ReadFails(S) ==
  /\ AllocationFails
  /\ IF NoFirstEvent THEN Undefined("uninitialised")
     ELSE GiveUp(S \cup Workload \cup Graph \cup Stats)

ReadInfo ==
  /\ pc = "read" /\ line <= Len(file) /\ ~Skipped(line)
  /\ Allocate(<<"info", line>>, "pcb") \/ ReadFails({})
  /\ UNCHANGED fileVars

ReadPCB ==
  /\ pc = "pcb"
  /\ Allocate(<<"pcb", line>>, "fields") \/ ReadFails({<<"info", line>>})
  /\ UNCHANGED fileVars

\* strtok returns NULL for a number or a list that is missing.
ReadFields ==
  /\ pc = "fields"
  /\ IF file[line].fields /\ file[line].list # "missing"
     THEN pc' = "events" /\ UNCHANGED <<heap, fault, exitCode>>
     ELSE Undefined("null")
  /\ event' = 0
  /\ UNCHANGED <<failures, file, line, counted, processesInfo, consumed, step>>

MoreEvents == file[line].list # "empty" /\ event < file[line].events

\* When the allocation fails, the events read before are not freed.
ReadEvent ==
  /\ pc = "events" /\ MoreEvents /\ file[line].list # "noBracket"
  /\ \/ Allocate(<<"event", line, event + 1>>, "events") /\ event' = event + 1
     \/ ReadFails({<<"info", line>>, <<"pcb", line>>}) /\ UNCHANGED event
  /\ UNCHANGED <<file, line, counted, processesInfo, consumed, step>>

\* Without a '[' the first event is taken for one that follows another.
NoEventBefore ==
  /\ pc = "events" /\ MoreEvents /\ file[line].list = "noBracket"
  /\ Undefined("null")
  /\ UNCHANGED <<failures, fileVars>>

\* strstr is given the NULL strtok returns behind a list that is not closed.
LineRead ==
  /\ pc = "events" /\ ~MoreEvents
  /\ IF file[line].list = "open"
     THEN Undefined("null") /\ UNCHANGED <<line, processesInfo>>
     ELSE /\ processesInfo' = Append(processesInfo, line)
          /\ line' = line + 1 /\ pc' = "read"
          /\ UNCHANGED <<heap, fault, exitCode>>
  /\ UNCHANGED <<failures, file, counted, event, consumed, step>>

FileRead ==
  /\ pc = "read" /\ line > Len(file)
  /\ pc' = "statsArray"
  /\ UNCHANGED <<heap, failures, fault, exitCode, fileVars>>

-----------------------------------------------------------------------------
(* launchSimulation *)

\* setNbProcessesInStats does not test what realloc returns.
SetNbProcessesInStats ==
  /\ pc = "statsArray"
  /\ \/ Allocate(<<"statsArray">>, "launch")
     \/ AllocationFails /\ pc' = "launch" /\ UNCHANGED <<heap, fault, exitCode>>
  /\ UNCHANGED fileVars

\* What is allocated, in this order.
LaunchBlocks == SchedulerBlocks \o CPUBlocks \o <<<<"disk">>, <<"computer">>>>
                  \o [p \in Procs |-> <<"processStats", p>>]

\* Allocations whose result is used without a test.
Untested == {"readyQueues", "readyQueue", "waitingQueues", "waitingQueue"}

\* What is freed when the allocation of b fails.
Unwound(b) ==
  CASE b[1] \in {"scheduler", "processStats"} -> {}
    [] b[1] = "queuesSizesBeforeRR" -> FreeScheduler \ {b}
    [] b[1] = "cpu"                 -> FreeScheduler
    [] b[1] = "cores"               -> FreeScheduler \cup {<<"cpu">>}
    [] b[1] = "core"                -> FreeScheduler \cup FreeCPU(b[2])
    [] b[1] = "disk"                -> FreeScheduler \cup FreeCPU(argv.cores)
    [] b[1] = "computer"            -> FreeScheduler \cup FreeCPU(argv.cores) \cup {<<"disk">>}

\* addAllProcessesToStats writes to the array of the statistics, whether there is
\* one or not; it returns when its allocation fails, and the simulation begins.
Launch ==
  LET b       == LaunchBlocks[step]
      noArray == b[1] = "processStats" /\ <<"statsArray">> \notin heap
  IN /\ pc = "launch"
     /\ \/ ~noArray /\ Allocate(b, IF step = Len(LaunchBlocks) THEN "simulate" ELSE "launch")
        \/ noArray /\ Undefined("null") /\ UNCHANGED failures
        \/ /\ AllocationFails
           /\ IF b[1] \in Untested THEN Undefined("null")
              ELSE /\ Freed(Unwound(b))
                   /\ pc' = IF b[1] = "processStats" THEN "simulate" ELSE "end"
                   /\ UNCHANGED exitCode
     /\ step' = step + 1
     /\ UNCHANGED <<file, line, counted, processesInfo, event, consumed>>

\* The events the processes may have come to when the loop ends: those of a process
\* in front of its nextEvent.
Consumed ==
  {UNION {{<<"event", processesInfo[p], n>> : n \in 1..come[p]} : p \in Procs} :
     come \in {f \in [Procs -> 0..Max({0} \cup {file[k].events : k \in DOMAIN file})] :
                 \A p \in Procs : f[p] <= file[processesInfo[p]].events}}

\* The loop, then freeComputer.  A process that arrives needs its statistics and
\* its first event.
Simulate ==
  /\ pc = "simulate"
  /\ \/ /\ ~NoFirstEvent
        /\ consumed' \in Consumed
        /\ Freed(consumed' \cup FreeComputer)
        /\ pc' = "end" /\ UNCHANGED exitCode
     \/ /\ \/ NoFirstEvent /\ Undefined("uninitialised")
           \/ \E p \in Procs : <<"processStats", p>> \notin heap /\ Undefined("null")
        /\ UNCHANGED consumed
  /\ UNCHANGED <<failures, file, line, counted, processesInfo, event, step>>

\* main, after launchSimulation has returned, whatever has happened there.
FreeAll ==
  /\ pc = "end"
  /\ IF NoFirstEvent THEN Undefined("uninitialised")
     ELSE Freed(Graph \cup Stats \cup Workload) /\ Exit("success")
  /\ UNCHANGED <<failures, fileVars>>

-----------------------------------------------------------------------------
MainSteps ==
  \/ InitGraph \/ InitGraphDisk \/ InitStats
  \/ OpenFile \/ CountLine \/ LineTooLong \/ ProcessesInfo
  \/ SkipLine \/ ReadInfo \/ ReadPCB \/ ReadFields
  \/ ReadEvent \/ NoEventBefore \/ LineRead \/ FileRead
  \/ SetNbProcessesInStats \/ Launch \/ Simulate \/ FreeAll

Next ==
  \/ ParseArguments /\ UNCHANGED fileVars
  \/ Running /\ MainSteps /\ UNCHANGED parsedVars

\* The program is one thread that always goes on.
Spec == Init /\ [][Next]_vars /\ WF_vars(Next)

-----------------------------------------------------------------------------
Ended == exitCode # "running" /\ fault = "none"

(* Every variable has its type.                                            *)
TypeOK ==
  /\ Len(lists) <= Len(argv.options) /\ i \in 1..(Len(argv.options) + 1)
  /\ lists \in Seq([type : AlgorithmTypes, RRSliceLimit : Int, executiontTimeLimit : Int,
                    ageLimit : Int])
  /\ line \in 1..(Len(file) + 1) /\ counted \in 0..Len(file) /\ event \in Nat
  /\ processesInfo \in Seq(DOMAIN file)
  /\ overrun \in BOOLEAN /\ failures \in 0..MaxFailures
  /\ fault \in Faults
  /\ exitCode \in {"running", "failure", "success"}

\* The lines that describe a process.
ProcessLines == {k \in DOMAIN file : ~file[k].skipped}

GoodFile ==
  /\ \A k \in DOMAIN file : file[k].ends
  /\ \A k \in ProcessLines : file[k].fields /\ file[k].list = "closed"

(* A file of complete lines, read with exactly one list of options for     *)
(* every queue while no allocation fails, is brought through main without  *)
(* anything C leaves undefined (no NULL or uninitialised pointer, no       *)
(* second free, no list behind the array), however far the simulation      *)
(* comes.                                                                  *)
GoodInputIsSafe ==
  GoodFile /\ failures = 0 /\ Cardinality(Beginnings) = argv.queues => fault = "none"

(* The unwinding of a failed allocation and the end of main never free a   *)
(* block that is not allocated, but for the options of queues that were    *)
(* given none: freeScheduler frees as many as -q says.                     *)
FreesOnlyAllocated ==
  fault = "freed" => Len(lists) < argv.queues

(* A run that succeeds without a failed allocation frees everything but a  *)
(* list written behind the array; one that fails leaks at most the options *)
(* of the queues, and the events of the line it was reading.               *)
OnlyKnownLeaks ==
  Ended =>
    /\ exitCode = "success" /\ failures = 0 =>
         heap = {<<"algorithm", q>> : q \in argv.queues..(Len(lists) - 1)}
    /\ heap \subseteq Algorithms \cup AlgorithmBlocks(Len(lists))
         \cup {<<"event", line, n>> : n \in 1..event}

(* The two passes over the file agree: the second never writes behind the  *)
(* array the first has measured, and what the simulation gets are the      *)
(* processes of the file, in its order.                                    *)
PassesAgree ==
  /\ pc # "count" => Len(processesInfo) <= counted
  /\ pc \in {"statsArray", "launch", "simulate", "end"} =>
       /\ ToSet(processesInfo) = ProcessLines /\ Len(processesInfo) = counted
       /\ \A j, k \in Procs : j < k => processesInfo[j] < processesInfo[k]

(* Whatever the input and whichever allocation fails, main returns or has  *)
(* come to something C leaves undefined: it never waits for ever.          *)
MainEnds == <>(~Running)
=============================================================================
