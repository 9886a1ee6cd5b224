----------------------------- MODULE FrontEndMC -----------------------------
(***************************************************************************)
(* Inputs for TLC: command lines and input files, good and bad ones.       *)
(***************************************************************************)
EXTENDS FrontEnd

Algorithm(type)        == [option |-> "algorithm", type |-> type]
Option(option, number) == [option |-> option, number |-> number]

Arguments(cores, queues, options) ==
  [flags |-> <<"-c", "-q">>, cores |-> cores, queues |-> queues, options |-> options]

\* With too few lists, as many as there are queues, one and two too many.
TwoQueues ==
  {Arguments(2, 2, SubSeq(<<Algorithm("RR"), Option("RRSlice", 2), Option("limit", 3),
                            Algorithm("PRIORITY"), Option("age", 5), Option("age", 7),
                            Algorithm("SJF"), Algorithm("FCFS"), Option("limit", 4)>>, 1, n))
     : n \in 0..9}

OneQueue ==
  {Arguments(1, 1, <<a, b, c>>) :
     a \in {Algorithm("SJF"), Option("age", 2)},
     b \in {Option("limit", 6), Option("unknown", 0), Algorithm("unknown")},
     c \in {Option("limit", 8), Algorithm("FCFS")}}

BadFlags ==
  {Arguments(0, 1, <<Algorithm("FCFS")>>), Arguments(1, 0, <<Algorithm("FCFS")>>),
   [Arguments(1, 1, <<Algorithm("FCFS")>>) EXCEPT !.flags = <<"-q", "-c">>]}

SomeCommandLines == TwoQueues \cup OneQueue \cup BadFlags

Process(list, events) ==
  [skipped |-> FALSE, ends |-> TRUE, fields |-> TRUE, list |-> list, events |-> events]

Comment == [Process("closed", 2) EXCEPT !.skipped = TRUE]

GoodLines == {Process("closed", 1), Process("closed", 3), Comment}
BadLines  == {Process("open", 2), Process("noBracket", 1), Process("empty", 1),
              Process("missing", 1),
              [Process("closed", 1) EXCEPT !.fields = FALSE],
              [Process("closed", 2) EXCEPT !.ends = FALSE], [Comment EXCEPT !.ends = FALSE]}

\* Good files of up to three lines, and a bad line behind or in front of a good one.
SomeFiles ==
  UNION {[1..n -> GoodLines] : n \in 0..3}
    \cup {<<Process("closed", 2), bad>> : bad \in BadLines}
    \cup {<<bad, Process("closed", 2)>> : bad \in BadLines}
=============================================================================
