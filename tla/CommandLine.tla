----------------------------- MODULE CommandLine -----------------------------
(***************************************************************************)
(* parseArguments (main.c): from argv to the options of the ready queues.  *)
(*                                                                         *)
(* The blocks malloc has returned and free has not been given are kept in  *)
(* `heap`, and any allocation may fail, at most MaxFailures times.  An     *)
(* access whose outcome C leaves open is recorded in `fault` and ends the  *)
(* model.  One of them may also do no harm: the list behind the last queue *)
(* is written behind the array, and the program goes on when malloc has    *)
(* rounded the size of the block up (`overrun`).                           *)
(***************************************************************************)
EXTENDS Integers, Sequences, FiniteSets

CONSTANTS
    CommandLines,   \* the command lines considered
    MaxFailures     \* how many allocations may fail

NO_LIMIT == -1
AlgorithmTypes == {"FCFS", "SJF", "RR", "PRIORITY"}

\* An argument behind argv[5]: --algorithm=type, or an option with what atoi
\* makes of its value.
Argument == [option : {"algorithm"}, type : AlgorithmTypes \cup {"unknown"}]
              \cup [option : {"RRSlice", "limit", "age", "unknown"}, number : Int]

CommandLine == [flags : Seq({"-c", "-q", "unknown"}), cores : Int, queues : Int,
                options : Seq(Argument)]

ASSUME CommandLineAssumption ==
  /\ MaxFailures \in Nat
  /\ \A a \in CommandLines : a \in CommandLine

VARIABLES
    argv,
    pc,         \* what is done next
    i,          \* the argument parseArguments looks at
    lists,      \* readyQueueAlgorithms, up to queueIndex
    overrun,    \* history: a list behind the array, and it has done no harm
    heap, failures, fault,
    exitCode

argumentVars == <<argv, pc, i, lists, overrun, heap, failures, fault, exitCode>>

Faults == {"none", "null", "freed", "uninitialised", "behind"}

Running == exitCode = "running" /\ fault = "none"

Exit(code) == pc' = "exit" /\ exitCode' = code

-----------------------------------------------------------------------------
(* malloc and free *)

Allocated(b) == heap' = heap \cup {b} /\ UNCHANGED <<failures, fault>>

AllocationFails == failures < MaxFailures /\ failures' = failures + 1

\* free is called for every block of S.
Freed(S) ==
  /\ heap' = heap \ S
  /\ fault' = IF S \subseteq heap THEN "none" ELSE "freed"

Algorithms == {<<"algorithms">>}

\* The options of the first n queues.
AlgorithmBlocks(n) == {<<"algorithm", q>> : q \in 0..(n - 1)}

ArgumentInit ==
  /\ argv \in CommandLines
  /\ pc = "arguments" /\ i = 1 /\ lists = <<>> /\ overrun = FALSE
  /\ heap = {} /\ failures = 0 /\ fault = "none" /\ exitCode = "running"

-----------------------------------------------------------------------------
(* The mandatory options, in their order *)

MandatoryOptions ==
  /\ argv.options # <<>> /\ argv.flags = <<"-c", "-q">> /\ argv.cores >= 1 /\ argv.queues >= 1

BadArguments ==
  /\ pc = "arguments" /\ ~MandatoryOptions
  /\ Exit("failure")
  /\ UNCHANGED <<argv, i, lists, overrun, heap, failures, fault>>

\* The result of malloc is not tested.
ArgumentsRead ==
  /\ pc = "arguments" /\ MandatoryOptions
  /\ \/ Allocated(<<"algorithms">>)
     \/ AllocationFails /\ UNCHANGED <<heap, fault>>
  /\ pc' = "lists"
  /\ UNCHANGED <<argv, i, lists, overrun, exitCode>>

-----------------------------------------------------------------------------
(* One list of options for each queue *)

\* mutants: no type is set; the values of the list before are kept
Default_noType ==
  [type |-> "unset", RRSliceLimit |-> NO_LIMIT, executiontTimeLimit |-> NO_LIMIT,
   ageLimit |-> NO_LIMIT]
Default_kept ==
  IF lists = <<>>
  THEN [type |-> "FCFS", RRSliceLimit |-> NO_LIMIT, executiontTimeLimit |-> NO_LIMIT,
        ageLimit |-> NO_LIMIT]
  ELSE lists[Len(lists)]

Default == [type |-> "FCFS", RRSliceLimit |-> NO_LIMIT,
            executiontTimeLimit |-> NO_LIMIT, ageLimit |-> NO_LIMIT]

OptionsLeft == i <= Len(argv.options)

\* queueIndex > nbReadyQueues
TooMany_never == FALSE                      \* mutant: the test is missing

TooMany == Len(lists) > argv.queues

TooManyLists ==
  /\ pc = "lists" /\ OptionsLeft /\ TooMany
  /\ Freed(AlgorithmBlocks(Len(lists)) \cup Algorithms)
  /\ Exit("failure")
  /\ UNCHANGED <<argv, i, lists, overrun, failures>>

NewList ==
  /\ pc = "lists" /\ OptionsLeft /\ ~TooMany /\ Algorithms \subseteq heap
  /\ overrun' = (overrun \/ Len(lists) = argv.queues)
  /\ \/ /\ Allocated(<<"algorithm", Len(lists)>>)
        /\ lists' = Append(lists, Default) /\ pc' = "algorithm"
        /\ UNCHANGED exitCode
     \/ /\ AllocationFails
        /\ Freed(AlgorithmBlocks(Len(lists)) \cup Algorithms)
        /\ Exit("failure")
        /\ UNCHANGED lists
  /\ UNCHANGED <<argv, i>>

\* The list behind the last queue goes into memory malloc has not given.
WriteBehind ==
  /\ pc = "lists" /\ OptionsLeft /\ ~TooMany /\ Algorithms \subseteq heap
  /\ Len(lists) = argv.queues
  /\ fault' = "behind"
  /\ UNCHANGED <<argv, pc, i, lists, overrun, heap, failures, exitCode>>

NoArray ==
  /\ pc = "lists" /\ OptionsLeft /\ ~TooMany /\ ~(Algorithms \subseteq heap)
  /\ fault' = "null"
  /\ UNCHANGED <<argv, pc, i, lists, overrun, heap, failures, exitCode>>

\* Only the first argument behind the mandatory ones can be something else.
NotAnAlgorithm ==
  /\ pc = "algorithm" /\ argv.options[i].option # "algorithm"
  /\ Freed(AlgorithmBlocks(Len(lists)) \cup Algorithms)
  /\ Exit("failure")
  /\ UNCHANGED <<argv, i, lists, overrun, failures>>

SetAlgorithmType ==
  /\ pc = "algorithm" /\ argv.options[i].option = "algorithm"
  /\ IF argv.options[i].type \in AlgorithmTypes
     THEN /\ lists' = [lists EXCEPT ![Len(lists)].type = argv.options[i].type]
          /\ i' = i + 1 /\ pc' = "options"
          /\ UNCHANGED exitCode
     ELSE Exit("failure") /\ UNCHANGED <<i, lists>>
  /\ UNCHANGED <<argv, overrun, heap, failures, fault>>

\* An option of the list has been read.
WithOption(list, a) ==
  CASE a.option = "RRSlice" -> [list EXCEPT !.RRSliceLimit = a.number]
    [] a.option = "limit"   -> [list EXCEPT !.executiontTimeLimit = a.number]
    [] a.option = "age"     -> [list EXCEPT !.ageLimit = a.number]

\* The argument behind an option.
AfterOption_same == i                       \* mutant: the loop does not advance

AfterOption == i + 1

InList == OptionsLeft /\ argv.options[i].option # "algorithm"

\* mutant: an option nobody knows is passed over
ReadOption_skipsUnknown ==
  /\ pc = "options" /\ InList
  /\ lists' = IF argv.options[i].option = "unknown" THEN lists
              ELSE [lists EXCEPT ![Len(lists)] = WithOption(@, argv.options[i])]
  /\ i' = AfterOption
  /\ UNCHANGED <<argv, pc, overrun, heap, failures, fault, exitCode>>

ReadOption ==
  /\ pc = "options" /\ InList
  /\ IF argv.options[i].option = "unknown"
     THEN Exit("failure") /\ UNCHANGED <<i, lists>>
     ELSE /\ lists' = [lists EXCEPT ![Len(lists)] = WithOption(@, argv.options[i])]
          /\ i' = AfterOption
          /\ UNCHANGED <<pc, exitCode>>
  /\ UNCHANGED <<argv, overrun, heap, failures, fault>>

ListRead ==
  /\ pc = "options" /\ ~InList
  /\ pc' = "lists"
  /\ UNCHANGED <<argv, i, lists, overrun, heap, failures, fault, exitCode>>

ArgumentsParsed ==
  /\ pc = "lists" /\ ~OptionsLeft
  /\ pc' = "graph"
  /\ UNCHANGED <<argv, i, lists, overrun, heap, failures, fault, exitCode>>

ParseArguments ==
  Running /\ \/ BadArguments \/ ArgumentsRead \/ TooManyLists \/ NewList \/ WriteBehind
             \/ NoArray \/ NotAnAlgorithm \/ SetAlgorithmType \/ ReadOption \/ ListRead
             \/ ArgumentsParsed

-----------------------------------------------------------------------------
(* What the options mean, read off the command line as a whole.            *)

Parsing == pc \in {"arguments", "lists", "algorithm", "options", "exit"}

\* The arguments that begin a list, in order.
Beginnings == {k \in DOMAIN argv.options : argv.options[k].option = "algorithm"}

\* The arguments of the list that begins at b.
ListAt(b) == {k \in DOMAIN argv.options :
                b < k /\ ~ \E c \in Beginnings : b < c /\ c <= k}

Latest(S) == CHOOSE k \in S : \A j \in S : j <= k

\* The last value an option has in the list that begins at b.
ValueIn(b, option) ==
  LET given == {k \in ListAt(b) : argv.options[k].option = option}
  IN IF given = {} THEN NO_LIMIT
     ELSE argv.options[Latest(given)].number

Known(a) == a.option # "unknown" /\ (a.option = "algorithm" => a.type \in AlgorithmTypes)

(* Every queue gets the options of its own list, defaults for those it     *)
(* does not have, the last value of one given twice, and nothing of its    *)
(* neighbours'; a command line with an argument nobody knows is refused.   *)
ParsedAsWritten ==
  ~Parsing =>
    /\ \A k \in DOMAIN argv.options :
         Known(argv.options[k]) /\ \E b \in Beginnings : k = b \/ k \in ListAt(b)
    /\ Len(lists) = Cardinality(Beginnings)
    /\ \A b \in Beginnings :
         lists[Cardinality({c \in Beginnings : c <= b})] =
           [type |-> argv.options[b].type, RRSliceLimit |-> ValueIn(b, "RRSlice"),
            executiontTimeLimit |-> ValueIn(b, "limit"), ageLimit |-> ValueIn(b, "age")]

(* main.c:82 lets exactly one list too many through: no command line with  *)
(* two is accepted, and the only list written behind the array is the one  *)
(* that follows those of the queues.                                       *)
OneListTooMany ==
  /\ lists # <<>> => Len(lists) <= argv.queues + 1
  /\ overrun => Len(lists) >= argv.queues
  /\ ~Parsing => (overrun <=> Cardinality(Beginnings) = argv.queues + 1)
=============================================================================
