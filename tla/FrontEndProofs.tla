--------------------------- MODULE FrontEndProofs ---------------------------
(***************************************************************************)
(* The program around the simulation: what the command line and the input  *)
(* file become, and what is allocated and freed on every way out of main,  *)
(* for every command line, every file and any number of failing            *)
(* allocations.                                                            *)
(***************************************************************************)
EXTENDS FrontEnd, FiniteSetTheorems, SequenceTheorems, TLAPS

-----------------------------------------------------------------------------
(* 1. The command line                                                     *)

Parsers == {"lists", "algorithm", "options"}

Mains == {"graph", "graphDisk", "stats", "open", "count", "read", "pcb", "fields", "events",
          "statsArray", "launch", "simulate", "end"}

List == [type : AlgorithmTypes, RRSliceLimit : Int, executiontTimeLimit : Int, ageLimit : Int]

ControlOK ==
  /\ argv \in CommandLine
  /\ pc \in {"arguments", "exit"} \cup Parsers \cup Mains
  /\ exitCode \in {"running", "failure", "success"}
  /\ exitCode = "running" <=> pc # "exit"
  /\ pc \notin {"arguments", "exit"} => MandatoryOptions

ListsOK ==
  /\ i \in 1..(Len(argv.options) + 1)
  /\ lists \in Seq(List) /\ Len(lists) <= Len(argv.options)
  /\ overrun \in BOOLEAN
  /\ pc = "arguments" => i = 1 /\ lists = <<>> /\ ~overrun
  /\ pc = "algorithm" => OptionsLeft /\ Len(lists) <= i
  /\ pc \in {"lists", "options"} => Len(lists) < i
  /\ pc \in {"algorithm", "options"} => lists # <<>>
  /\ pc = "lists" /\ lists = <<>> => i = 1
  /\ pc \in Mains => i > Len(argv.options) /\ lists # <<>>

\* At most one list is behind the array, and `overrun` tells.
ListsFit ==
  /\ lists # <<>> => Len(lists) <= argv.queues + 1
  /\ overrun => Len(lists) >= argv.queues
  /\ pc \notin {"arguments", "exit"} => (overrun <=> Len(lists) > argv.queues)

\* What has been read of the command line: the lists that begin before n, the
\* place of one among them, and what an option of it is worth so far.
BegunBelow(n) == {k \in Beginnings : k < n}

Place(b) == Cardinality({c \in Beginnings : c <= b})

GivenBelow(b, option, n) == {k \in ListAt(b) : k < n /\ argv.options[k].option = option}

ValueBelow(b, option, n) ==
  IF GivenBelow(b, option, n) = {} THEN NO_LIMIT
  ELSE argv.options[Latest(GivenBelow(b, option, n))].number

ListBelow(b, n) ==
  [type |-> argv.options[b].type, RRSliceLimit |-> ValueBelow(b, "RRSlice", n),
   executiontTimeLimit |-> ValueBelow(b, "limit", n), ageLimit |-> ValueBelow(b, "age", n)]

ReadAsWritten ==
  /\ \A k \in 1..(i - 1) :
       Known(argv.options[k]) /\ \E b \in BegunBelow(i) : k = b \/ k \in ListAt(b)
  /\ pc = "lists" /\ lists # <<>> /\ OptionsLeft => argv.options[i].option = "algorithm"
  /\ Len(lists) = Cardinality(BegunBelow(i)) + (IF pc = "algorithm" THEN 1 ELSE 0)
  /\ \A b \in BegunBelow(i) : lists[Place(b)] = ListBelow(b, i)
  /\ pc = "algorithm" => lists[Len(lists)] = Default

ArgumentInvariant ==
  /\ ControlOK /\ ListsOK /\ ListsFit
  /\ pc \notin {"arguments", "exit"} => ReadAsWritten

LEMMA ArgumentsAtFirst == ASSUME Init PROVE ArgumentInvariant
  <1>1. argv \in CommandLine /\ argv.options \in Seq(Argument)
    BY CommandLineAssumption DEF Init, ArgumentInit, CommandLine
  <1>2. Len(argv.options) \in Nat
    BY <1>1, LenProperties
  <1>3. lists = <<>> /\ lists \in Seq(List) /\ Len(lists) = 0
    BY EmptySeq DEF Init, ArgumentInit
  <1>4. pc = "arguments" /\ i = 1 /\ overrun = FALSE /\ exitCode = "running"
    BY DEF Init, ArgumentInit
  <1>5. ControlOK
    BY <1>1, <1>4 DEF ControlOK
  <1>6. ListsOK
    <2>1. overrun \in BOOLEAN /\ ~overrun
      BY <1>4
    <2>2. i \in 1..(Len(argv.options) + 1) /\ Len(lists) <= Len(argv.options)
      BY <1>2, <1>3, <1>4
    <2>3. pc \notin Mains /\ pc \notin {"algorithm", "lists", "options"}
      BY <1>4 DEF Mains
    <2> QED BY <2>1, <2>2, <2>3, <1>3, <1>4 DEF ListsOK
  <1> QED BY <1>3, <1>4, <1>5, <1>6 DEF ArgumentInvariant, ListsFit

\* What is read off the command line does not change.
LEMMA TextStays ==
  ASSUME argv' = argv
  PROVE  /\ Beginnings' = Beginnings /\ \A b : ListAt(b)' = ListAt(b)
         /\ \A b : Place(b)' = Place(b)
         /\ \A b, o, m : ValueBelow(b, o, m)' = ValueBelow(b, o, m)
         /\ \A b, m : ListBelow(b, m)' = ListBelow(b, m)
  <1>1. Beginnings' = Beginnings
    BY DEF Beginnings
  <1>2. \A b : ListAt(b)' = ListAt(b)
    BY <1>1 DEF ListAt
  <1>3. \A b : Place(b)' = Place(b)
    BY <1>1 DEF Place
  <1>4. \A b, o, m : GivenBelow(b, o, m)' = GivenBelow(b, o, m)
    BY <1>2 DEF GivenBelow
  <1>5. \A b, o, m : ValueBelow(b, o, m)' = ValueBelow(b, o, m)
    BY <1>4 DEF ValueBelow
  <1>6. \A b, m : ListBelow(b, m)' = ListBelow(b, m)
    BY <1>5 DEF ListBelow
  <1> QED BY <1>1, <1>2, <1>3, <1>5, <1>6

\* Main goes from one of its steps to another, or ends.
LEMMA MainControl ==
  ASSUME Running, MainSteps
  PROVE  /\ pc \in Mains
         /\ \/ pc' \in Mains /\ exitCode' = exitCode
            \/ pc' = "exit" /\ exitCode' \in {"failure", "success"}
  <1>1. CASE InitGraph \/ InitGraphDisk \/ InitStats \/ OpenFile
    BY <1>1 DEF InitGraph, InitGraphDisk, InitStats, OpenFile, Allocate, GiveUp, Exit, Undefined, Mains
  <1>2. CASE CountLine \/ LineTooLong \/ ProcessesInfo \/ SkipLine \/ FileRead
    BY <1>2 DEF CountLine, LineTooLong, ProcessesInfo, SkipLine, FileRead, Allocate, Undefined, Mains
  <1>3. CASE ReadInfo \/ ReadPCB \/ ReadFields
    BY <1>3 DEF ReadInfo, ReadPCB, ReadFields, ReadFails, Allocate, GiveUp, Exit, Undefined, Mains
  <1>4. CASE ReadEvent \/ NoEventBefore \/ LineRead
    BY <1>4 DEF ReadEvent, NoEventBefore, LineRead, ReadFails, Allocate, GiveUp, Exit, Undefined, Mains
  <1>5. CASE SetNbProcessesInStats \/ Launch
    BY <1>5 DEF SetNbProcessesInStats, Launch, Allocate, Undefined, Mains
  <1>6. CASE Simulate \/ FreeAll
    BY <1>6 DEF Simulate, FreeAll, GiveUp, Exit, Undefined, Mains
  <1> QED BY <1>1, <1>2, <1>3, <1>4, <1>5, <1>6 DEF MainSteps

LEMMA MainKeepsArguments ==
  ASSUME ArgumentInvariant, Running, MainSteps, UNCHANGED parsedVars
  PROVE  ArgumentInvariant'
  <1>1. /\ pc \in Mains
        /\ \/ pc' \in Mains /\ exitCode' = exitCode
           \/ pc' = "exit" /\ exitCode' \in {"failure", "success"}
    BY MainControl
  <1>2. UNCHANGED <<argv, i, lists, overrun>>
    BY DEF parsedVars
  <1>3. /\ pc \notin {"arguments", "exit", "algorithm", "lists", "options"}
        /\ pc' \notin {"arguments", "algorithm", "lists", "options"}
    BY <1>1 DEF Mains
  <1>4. ControlOK'
    <2>1. MandatoryOptions
      BY <1>3 DEF ArgumentInvariant, ControlOK
    <2>2. MandatoryOptions'
      BY <1>2, <2>1 DEF MandatoryOptions
    <2>3. argv' \in CommandLine
      BY <1>2 DEF ArgumentInvariant, ControlOK
    <2>4. "exit" \notin Mains
      BY DEF Mains
    <2> QED BY <1>1, <2>2, <2>3, <2>4 DEF ControlOK, Running
  <1>5. ListsOK'
    BY <1>1, <1>2, <1>3 DEF ArgumentInvariant, ListsOK, OptionsLeft
  <1>6. ListsFit'
    BY <1>1, <1>2, <1>3 DEF ArgumentInvariant, ListsFit
  <1>7. ReadAsWritten
    BY <1>3 DEF ArgumentInvariant
  <1>8. ReadAsWritten'
    BY <1>2, <1>3, <1>7, TextStays DEF ReadAsWritten, BegunBelow, Known
  <1> QED BY <1>4, <1>5, <1>6, <1>8 DEF ArgumentInvariant

\* Beginnings are positions of arguments, so there are finitely many.
LEMMA BeginningsAreFinite ==
  ASSUME argv \in CommandLine
  PROVE  /\ argv.options \in Seq(Argument) /\ Len(argv.options) \in Nat
         /\ DOMAIN argv.options = 1..Len(argv.options)
         /\ Beginnings \subseteq 1..Len(argv.options)
         /\ \A S \in SUBSET Beginnings : IsFiniteSet(S) /\ Cardinality(S) \in Nat
  <1>1. argv.options \in Seq(Argument)
    BY DEF CommandLine
  <1>2. Len(argv.options) \in Nat /\ DOMAIN argv.options = 1..Len(argv.options)
    BY <1>1, LenProperties
  <1>3. Beginnings \subseteq 1..Len(argv.options)
    BY <1>2 DEF Beginnings
  <1>4. IsFiniteSet(1..Len(argv.options))
    BY <1>2, FS_Interval
  <1>5. \A S \in SUBSET Beginnings : IsFiniteSet(S)
    BY <1>3, <1>4, FS_Subset
  <1> QED BY <1>1, <1>2, <1>3, <1>5, FS_CardinalityType

\* The place of a list is one of those read, and the last one is the latest.
LEMMA PlaceIsRead ==
  ASSUME argv \in CommandLine, NEW n \in Int, NEW b \in BegunBelow(n)
  PROVE  /\ Place(b) \in 1..Cardinality(BegunBelow(n))
         /\ Cardinality(BegunBelow(n)) \in Nat \ {0}
         /\ (\A c \in BegunBelow(n) : c <= b) => Place(b) = Cardinality(BegunBelow(n))
         /\ (\E c \in BegunBelow(n) : b < c) => Place(b) < Cardinality(BegunBelow(n))
  <1> DEFINE S == {c \in Beginnings : c <= b}
             T == BegunBelow(n)
  <1>0. Beginnings \subseteq Int
    BY BeginningsAreFinite
  <1>1. b \in Int /\ b \in S /\ b < n
    BY <1>0 DEF BegunBelow
  <1>2. S \in SUBSET Beginnings /\ T \in SUBSET Beginnings
    BY DEF BegunBelow
  <1>3. ASSUME NEW c \in S PROVE c \in T
    <2>1. c \in Beginnings /\ c \in Int /\ c <= b
      BY <1>0, <1>3
    <2>2. c < n
      BY <1>1, <2>1
    <2> QED BY <2>1, <2>2 DEF BegunBelow
  <1>4. IsFiniteSet(S) /\ IsFiniteSet(T) /\ Cardinality(S) \in Nat /\ Cardinality(T) \in Nat
    BY <1>2, BeginningsAreFinite
  <1>5. Cardinality(S) <= Cardinality(T) /\ (Cardinality(S) = Cardinality(T) => S = T)
    <2> HIDE DEF S, T
    <2> QED BY <1>3, <1>4, FS_Subset, Zenon
  <1>6. Cardinality(S) # 0
    <2> HIDE DEF S
    <2> QED BY <1>1, <1>4, FS_EmptySet
  <1>7. Place(b) = Cardinality(S)
    BY DEF Place
  <1>8. (\A c \in T : c <= b) => S = T
    BY <1>3 DEF BegunBelow
  <1>9. (\E c \in T : b < c) => S # T
    BY <1>0, <1>1 DEF BegunBelow
  <1> HIDE DEF S, T
  <1>10. Place(b) \in 1..Cardinality(T) /\ Cardinality(T) \in Nat \ {0}
    BY <1>4, <1>5, <1>6, <1>7
  <1>11. (\E c \in T : b < c) => Place(b) < Cardinality(T)
    BY <1>4, <1>5, <1>7, <1>9
  <1> QED BY <1>7, <1>8, <1>10, <1>11 DEF T

LEMMA ExitKeepsArguments ==
  ASSUME ArgumentInvariant, pc' = "exit", exitCode' \in {"failure", "success"},
         UNCHANGED <<argv, i, lists>>, overrun' \in BOOLEAN,
         overrun' => Len(lists) >= argv.queues
  PROVE  ArgumentInvariant'
  <1>1. ControlOK'
    BY DEF ArgumentInvariant, ControlOK
  <1>2. "exit" \notin Mains
    BY DEF Mains
  <1>3. ListsOK'
    BY <1>2 DEF ArgumentInvariant, ListsOK
  <1>4. ListsFit'
    BY DEF ArgumentInvariant, ListsFit
  <1> QED BY <1>1, <1>3, <1>4 DEF ArgumentInvariant

LEMMA NewListKeepsArguments ==
  ASSUME ArgumentInvariant, NewList, Running
  PROVE  ArgumentInvariant'
  <1>1. /\ pc = "lists" /\ OptionsLeft /\ ~TooMany /\ UNCHANGED <<argv, i>>
        /\ overrun' = (overrun \/ Len(lists) = argv.queues)
    BY DEF NewList
  <1>2. /\ argv \in CommandLine /\ ListsOK /\ ListsFit /\ ReadAsWritten /\ MandatoryOptions
        /\ exitCode = "running"
    BY <1>1 DEF ArgumentInvariant, ControlOK, Running
  <1>3. argv.queues \in Int /\ Len(argv.options) \in Nat
    BY <1>2, BeginningsAreFinite DEF CommandLine
  <1>4. lists \in Seq(List) /\ Len(lists) \in Nat /\ Len(lists) < i /\ i <= Len(argv.options)
        /\ i \in Nat \ {0}
    BY <1>1, <1>2, <1>3, LenProperties DEF ListsOK, OptionsLeft
  <1>5. CASE Exit("failure") /\ UNCHANGED lists
    BY <1>1, <1>2, <1>5, ExitKeepsArguments DEF Exit, ListsOK, ListsFit
  <1>6. CASE lists' = Append(lists, Default) /\ pc' = "algorithm" /\ UNCHANGED exitCode
    <2>1. Default \in List
      BY DEF Default, List, AlgorithmTypes, NO_LIMIT
    <2>2. /\ lists' \in Seq(List) /\ Len(lists') = Len(lists) + 1
          /\ lists'[Len(lists')] = Default
          /\ \A k \in 1..Len(lists) : lists'[k] = lists[k]
      BY <1>4, <1>6, <2>1, AppendProperties
    <2>3. "algorithm" \notin Mains
      BY DEF Mains
    <2>4. ControlOK'
      <3>1. MandatoryOptions'
        BY <1>1, <1>2 DEF MandatoryOptions
      <3>2. "algorithm" \in Parsers
        BY DEF Parsers
      <3> QED BY <1>1, <1>2, <1>6, <3>1, <3>2 DEF ControlOK
    <2>5. ListsOK'
      <3>1. lists' # <<>>
        BY <1>4, <2>2
      <3>2. Len(lists') <= i /\ OptionsLeft'
        BY <1>1, <1>4, <2>2 DEF OptionsLeft
      <3>3. overrun' \in BOOLEAN
        BY <1>1, <1>2 DEF ListsOK
      <3> QED BY <1>1, <1>2, <1>4, <1>6, <2>2, <2>3, <3>1, <3>2, <3>3 DEF ListsOK
    <2>6. ListsFit'
      <3>1. overrun <=> Len(lists) > argv.queues
        BY <1>1, <1>2 DEF ListsFit
      <3>2. Len(lists) <= argv.queues
        BY <1>1, <1>3, <1>4 DEF TooMany
      <3>3. overrun' <=> Len(lists) = argv.queues
        <4>1. ~(Len(lists) > argv.queues)
          BY <1>3, <1>4, <3>2
        <4> QED BY <1>1, <3>1, <4>1, Zenon
      <3> QED BY <1>1, <1>3, <1>4, <1>6, <2>2, <3>2, <3>3 DEF ListsFit
    <2>7. ReadAsWritten'
      <3>1. BegunBelow(i)' = BegunBelow(i)
        BY <1>1, TextStays DEF BegunBelow
      <3>2. Len(lists) = Cardinality(BegunBelow(i))
        BY <1>1, <1>2, <1>4, BeginningsAreFinite DEF ReadAsWritten, BegunBelow
      <3>3. \A b \in BegunBelow(i) : Place(b) \in 1..Len(lists)
        BY <1>2, <1>4, <3>2, PlaceIsRead
      <3> QED BY <1>1, <1>2, <1>6, <2>2, <3>1, <3>2, <3>3, TextStays DEF ReadAsWritten, Known
    <2> QED BY <2>4, <2>5, <2>6, <2>7 DEF ArgumentInvariant
  <1> QED BY <1>5, <1>6 DEF NewList

\* The options of a list that lie in front of n + 1.
LEMMA GivenNext ==
  ASSUME argv \in CommandLine, NEW n \in 1..Len(argv.options), NEW b, NEW o,
         n \notin ListAt(b) \/ argv.options[n].option # o
  PROVE  ValueBelow(b, o, n + 1) = ValueBelow(b, o, n)
  <1>1. ListAt(b) \subseteq Int /\ n \in Int
    BY BeginningsAreFinite DEF ListAt
  <1>2. GivenBelow(b, o, n + 1) = GivenBelow(b, o, n)
    BY <1>1 DEF GivenBelow
  <1> QED BY <1>2 DEF ValueBelow

LEMMA LatestIsUnique ==
  ASSUME NEW S \in SUBSET Int, NEW m \in S, \A j \in S : j <= m
  PROVE  Latest(S) = m
  <1>1. Latest(S) \in S /\ \A j \in S : j <= Latest(S)
    BY DEF Latest
  <1>2. Latest(S) \in Int /\ m \in Int /\ m <= Latest(S) /\ Latest(S) <= m
    BY <1>1
  <1> QED BY <1>2

LEMMA TypeKeepsArguments ==
  ASSUME ArgumentInvariant, SetAlgorithmType, Running
  PROVE  ArgumentInvariant'
  <1> DEFINE a == argv.options[i]
             n == Len(lists)
             B == BegunBelow(i)
  <1>1. /\ pc = "algorithm" /\ a.option = "algorithm" /\ UNCHANGED <<argv, overrun>>
        /\ exitCode = "running"
    BY DEF SetAlgorithmType, Running
  <1>2. /\ argv \in CommandLine /\ ListsOK /\ ListsFit /\ ReadAsWritten /\ MandatoryOptions
    BY <1>1 DEF ArgumentInvariant, ControlOK
  <1>3. argv.queues \in Int /\ Len(argv.options) \in Nat /\ argv.options \in Seq(Argument)
    BY <1>2, BeginningsAreFinite DEF CommandLine
  <1>4. lists \in Seq(List) /\ n \in Nat \ {0} /\ n <= i /\ i \in 1..Len(argv.options)
    BY <1>1, <1>2, <1>3, LenProperties DEF ListsOK, OptionsLeft
  <1>5. CASE Exit("failure") /\ UNCHANGED <<i, lists>>
    BY <1>1, <1>2, <1>5, ExitKeepsArguments DEF Exit, ListsOK, ListsFit
  <1>6. CASE /\ a.type \in AlgorithmTypes /\ lists' = [lists EXCEPT ![n].type = a.type]
             /\ i' = i + 1 /\ pc' = "options" /\ UNCHANGED exitCode
    <2>1. lists[n] = Default /\ Default \in List
      BY <1>1, <1>2 DEF ReadAsWritten, Default, List, AlgorithmTypes, NO_LIMIT
    <2>2. /\ lists' \in Seq(List) /\ Len(lists') = n
          /\ lists'[n] = [Default EXCEPT !.type = a.type]
          /\ \A k \in 1..n : k # n => lists'[k] = lists[k]
      <3>1. [Default EXCEPT !.type = a.type] \in List
        BY <1>6, <2>1 DEF List
      <3>2. lists' = [lists EXCEPT ![n] = [Default EXCEPT !.type = a.type]]
        BY <1>6, <2>1
      <3> QED BY <1>4, <3>1, <3>2, ExceptSeq
    <2>3. "options" \notin Mains /\ "options" \in Parsers
      BY DEF Mains, Parsers
    <2>4. ControlOK'
      <3>1. MandatoryOptions'
        BY <1>1, <1>2 DEF MandatoryOptions
      <3> QED BY <1>1, <1>2, <1>6, <2>3, <3>1 DEF ControlOK
    <2>5. ListsOK'
      <3>1. lists' # <<>> /\ Len(lists') < i' /\ i' \in 1..(Len(argv.options) + 1)
        BY <1>3, <1>4, <1>6, <2>2
      <3>2. Len(lists') <= Len(argv.options)
        BY <1>3, <1>4, <2>2
      <3> QED BY <1>1, <1>2, <1>6, <2>2, <2>3, <3>1, <3>2 DEF ListsOK
    <2>6. ListsFit'
      BY <1>1, <1>2, <1>4, <1>6, <2>2 DEF ListsFit
    <2>7. ReadAsWritten'
      <3>1. i \in Beginnings /\ BegunBelow(i + 1) = B \cup {i} /\ i \notin B
        <4>1. i \in Beginnings /\ Beginnings \subseteq Int
          BY <1>1, <1>2, <1>4, BeginningsAreFinite DEF Beginnings
        <4>2. \A k \in Int : k < i + 1 <=> k < i \/ k = i
          BY <1>4
        <4>3. \A k : k \in BegunBelow(i + 1) <=> k \in B \/ k = i
          BY <1>4, <4>1, <4>2 DEF BegunBelow
        <4>4. i \notin B
          BY <1>4 DEF BegunBelow
        <4> HIDE DEF B
        <4> QED BY <4>1, <4>3, <4>4
      <3>2. IsFiniteSet(B) /\ Cardinality(B) \in Nat
        BY <1>2, BeginningsAreFinite DEF BegunBelow
      <3>3. n = Cardinality(B) + 1 /\ Cardinality(BegunBelow(i + 1)) = n
        BY <1>1, <1>2, <3>1, <3>2, FS_AddElement DEF ReadAsWritten
      <3>4. BegunBelow(i)' = BegunBelow(i + 1)
        BY <1>1, <1>6, TextStays DEF BegunBelow
      <3>5. ASSUME NEW b \in B
            PROVE  lists'[Place(b)] = ListBelow(b, i + 1)
        <4>1. Place(b) \in 1..n /\ Place(b) # n
          BY <1>2, <1>4, <3>2, <3>3, PlaceIsRead
        <4>2. i \notin ListAt(b)
          BY <1>4, <3>1 DEF ListAt, BegunBelow
        <4>3. ListBelow(b, i + 1) = ListBelow(b, i)
          BY <1>2, <1>4, <4>2, GivenNext DEF ListBelow
        <4> QED BY <1>2, <2>2, <4>1, <4>3 DEF ReadAsWritten
      <3>6. lists'[Place(i)] = ListBelow(i, i + 1)
        <4>1. i \in BegunBelow(i + 1) /\ \A c \in BegunBelow(i + 1) : c <= i
          BY <1>4, <3>1 DEF BegunBelow
        <4>2. Place(i) = n
          BY <1>2, <1>4, <3>3, <4>1, PlaceIsRead
        <4>3. \A o : GivenBelow(i, o, i + 1) = {}
          <5>1. ListAt(i) \subseteq Int
            BY <1>2, BeginningsAreFinite DEF ListAt
          <5>2. \A k \in ListAt(i) : i < k
            BY DEF ListAt
          <5> QED BY <1>4, <5>1, <5>2 DEF GivenBelow
        <4>4. ListBelow(i, i + 1) = [Default EXCEPT !.type = a.type]
          BY <4>3 DEF ListBelow, ValueBelow, Default
        <4> QED BY <2>2, <4>2, <4>4
      <3>7. \A k \in 1..((i + 1) - 1) :
              Known(argv.options[k]) /\ \E b \in BegunBelow(i + 1) : k = b \/ k \in ListAt(b)
        <4>1. \A k \in 1..(i - 1) :
                Known(argv.options[k]) /\ \E b \in B : k = b \/ k \in ListAt(b)
          BY <1>2 DEF ReadAsWritten
        <4>2. \A k \in 1..((i + 1) - 1) : k = i \/ k \in 1..(i - 1)
          BY <1>4
        <4>3. Known(argv.options[i])
          BY <1>1, <1>6 DEF Known
        <4> QED BY <3>1, <4>1, <4>2, <4>3
      <3> HIDE DEF B, n
      <3>8. \A b \in BegunBelow(i + 1) : lists'[Place(b)] = ListBelow(b, i + 1)
        BY <3>1, <3>5, <3>6
      <3>9. pc' # "algorithm"
        BY <1>6
      <3>10. Len(lists') = Cardinality(BegunBelow(i + 1)) + (IF pc' = "algorithm" THEN 1 ELSE 0)
        BY <1>4, <2>2, <3>3, <3>9
      <3>11. /\ \A k \in 1..(i' - 1) : /\ Known(argv'.options[k])
                                        /\ \E b \in BegunBelow(i)' : k = b \/ k \in ListAt(b)'
             /\ \A b \in BegunBelow(i)' : lists'[Place(b)'] = ListBelow(b, i)'
        BY <1>1, <1>6, <3>4, <3>7, <3>8, TextStays
      <3>12. pc' # "lists"
        BY <1>6
      <3> QED BY <3>4, <3>9, <3>10, <3>11, <3>12 DEF ReadAsWritten, Known
    <2> QED BY <2>4, <2>5, <2>6, <2>7 DEF ArgumentInvariant
  <1> QED BY <1>5, <1>6 DEF SetAlgorithmType

LEMMA OptionKeepsArguments ==
  ASSUME ArgumentInvariant, ReadOption, Running
  PROVE  ArgumentInvariant'
  <1> DEFINE a == argv.options[i]
             n == Len(lists)
             B == BegunBelow(i)
  <1>1. /\ pc = "options" /\ InList /\ UNCHANGED <<argv, overrun>> /\ exitCode = "running"
    BY DEF ReadOption, Running
  <1>2. /\ argv \in CommandLine /\ ListsOK /\ ListsFit /\ ReadAsWritten /\ MandatoryOptions
    BY <1>1 DEF ArgumentInvariant, ControlOK
  <1>3. argv.queues \in Int /\ Len(argv.options) \in Nat /\ argv.options \in Seq(Argument)
    BY <1>2, BeginningsAreFinite DEF CommandLine
  <1>4. lists \in Seq(List) /\ n \in Nat \ {0} /\ n < i /\ i \in 1..Len(argv.options)
    BY <1>1, <1>2, <1>3, LenProperties DEF ListsOK, OptionsLeft, InList
  <1>5. CASE Exit("failure") /\ UNCHANGED <<i, lists>>
    BY <1>1, <1>2, <1>5, ExitKeepsArguments DEF Exit, ListsOK, ListsFit
  <1>6. CASE /\ a.option # "unknown" /\ lists' = [lists EXCEPT ![n] = WithOption(@, a)]
             /\ i' = AfterOption /\ UNCHANGED <<pc, exitCode>>
    <2>1. /\ a.option \in {"RRSlice", "limit", "age"} /\ a.number \in Int
          /\ i' = i + 1
      <3>1. a \in Argument /\ a.option # "algorithm"
        BY <1>1, <1>3, <1>4 DEF InList
      <3> QED BY <1>6, <3>1 DEF Argument, AfterOption
    <2>2. lists[n] \in List /\ WithOption(lists[n], a) \in List
      <3>1. lists[n] \in List
        BY <1>4
      <3> QED BY <2>1, <3>1 DEF List, WithOption
    <2>3. /\ lists' \in Seq(List) /\ Len(lists') = n
          /\ lists'[n] = WithOption(lists[n], a)
          /\ \A k \in 1..n : k # n => lists'[k] = lists[k]
      <3>1. lists' = [lists EXCEPT ![n] = WithOption(lists[n], a)]
        BY <1>6
      <3> QED BY <1>4, <2>2, <3>1, ExceptSeq
    <2>4. "options" \notin Mains /\ "options" \in Parsers
      BY DEF Mains, Parsers
    <2>5. ControlOK'
      <3>1. MandatoryOptions'
        BY <1>1, <1>2 DEF MandatoryOptions
      <3> QED BY <1>1, <1>2, <1>6, <2>4, <3>1 DEF ControlOK
    <2>6. ListsOK'
      <3>1. lists' # <<>> /\ Len(lists') < i' /\ i' \in 1..(Len(argv.options) + 1)
        BY <1>3, <1>4, <2>1, <2>3
      <3>2. Len(lists') <= Len(argv.options)
        BY <1>3, <1>4, <2>3
      <3> QED BY <1>1, <1>2, <1>6, <2>3, <2>4, <3>1, <3>2 DEF ListsOK
    <2>7. ListsFit'
      BY <1>1, <1>2, <1>4, <1>6, <2>3 DEF ListsFit
    <2>8. ReadAsWritten'
      <3>1. Beginnings \subseteq Int /\ i \notin Beginnings
        BY <1>1, <1>2, BeginningsAreFinite DEF Beginnings, InList
      <3>2. BegunBelow(i + 1) = B
        <4>1. \A k \in Int : k < i + 1 <=> k < i \/ k = i
          BY <1>4
        <4> QED BY <3>1, <4>1 DEF BegunBelow
      <3>3. BegunBelow(i)' = B
        BY <1>1, <2>1, <3>2, TextStays DEF BegunBelow
      <3>4. PICK b0 \in B : i - 1 = b0 \/ i - 1 \in ListAt(b0)
        <4>1. i - 1 \in 1..(i - 1)
          BY <1>4
        <4> QED BY <1>2, <4>1 DEF ReadAsWritten
      <3>5. b0 \in Int /\ b0 < i /\ \A c \in Beginnings : b0 < c => i < c
        <4>1. b0 \in Int /\ b0 < i
          BY <3>1 DEF BegunBelow
        <4>2. ASSUME NEW c \in Beginnings, b0 < c, c <= i PROVE FALSE
          <5>1. c \in Int /\ c <= i - 1
            BY <1>4, <3>1, <4>2
          <5>2. i - 1 \in ListAt(b0)
            BY <1>4, <3>4, <4>1, <4>2, <5>1
          <5> QED BY <4>2, <5>1, <5>2 DEF ListAt
        <4> QED BY <1>4, <3>1, <4>1, <4>2
      <3>6. n = Cardinality(B)
        BY <1>1, <1>2, BeginningsAreFinite DEF ReadAsWritten, BegunBelow
      <3>7. \A c \in B : c <= b0
        BY <1>4, <3>1, <3>5 DEF BegunBelow
      <3>8. i \in ListAt(b0)
        <4>1. i \in DOMAIN argv.options
          BY <1>2, <1>4, BeginningsAreFinite
        <4>2. ~ \E c \in Beginnings : b0 < c /\ c <= i
          BY <1>4, <3>1, <3>5
        <4> QED BY <3>5, <4>1, <4>2 DEF ListAt
      <3>9. ASSUME NEW b \in B, b # b0
            PROVE  lists'[Place(b)] = ListBelow(b, i + 1)
        <4>1. b < b0
          BY <3>1, <3>5, <3>7, <3>9 DEF BegunBelow
        <4>2. Place(b) \in 1..n /\ Place(b) # n
          BY <1>2, <1>4, <3>6, <4>1, PlaceIsRead
        <4>3. b0 \in Beginnings /\ b0 <= i
          BY <1>4, <3>5 DEF BegunBelow
        <4>4. i \notin ListAt(b)
          BY <4>1, <4>3 DEF ListAt
        <4>5. ListBelow(b, i + 1) = ListBelow(b, i)
          BY <1>2, <1>4, <4>4, GivenNext DEF ListBelow
        <4> QED BY <1>2, <2>3, <4>2, <4>5 DEF ReadAsWritten
      <3>10. lists'[Place(b0)] = ListBelow(b0, i + 1)
        <4>1. Place(b0) = n
          BY <1>2, <1>4, <3>6, <3>7, PlaceIsRead
        <4>2. ValueBelow(b0, a.option, i + 1) = a.number
          <5>1. GivenBelow(b0, a.option, i + 1) \in SUBSET Int
            BY <1>2, BeginningsAreFinite DEF GivenBelow, ListAt
          <5>2. i \in GivenBelow(b0, a.option, i + 1)
            BY <1>4, <3>8 DEF GivenBelow
          <5>3. \A j \in GivenBelow(b0, a.option, i + 1) : j <= i
            BY <1>4, <5>1 DEF GivenBelow
          <5>4. Latest(GivenBelow(b0, a.option, i + 1)) = i
            BY <5>1, <5>2, <5>3, LatestIsUnique
          <5> QED BY <5>2, <5>4 DEF ValueBelow
        <4>3. \A o : o # a.option => ValueBelow(b0, o, i + 1) = ValueBelow(b0, o, i)
          BY <1>2, <1>4, GivenNext
        <4>4. lists[n] = ListBelow(b0, i)
          BY <1>2, <4>1 DEF ReadAsWritten
        <4> HIDE DEF a, n, B
        <4>5. CASE a.option = "RRSlice"
          BY <2>3, <4>1, <4>2, <4>3, <4>4, <4>5 DEF ListBelow, WithOption
        <4>6. CASE a.option = "limit"
          BY <2>3, <4>1, <4>2, <4>3, <4>4, <4>6 DEF ListBelow, WithOption
        <4>7. CASE a.option = "age"
          BY <2>3, <4>1, <4>2, <4>3, <4>4, <4>7 DEF ListBelow, WithOption
        <4> QED BY <2>1, <4>5, <4>6, <4>7
      <3>11. \A k \in 1..((i + 1) - 1) :
               Known(argv.options[k]) /\ \E b \in B : k = b \/ k \in ListAt(b)
        <4>1. \A k \in 1..(i - 1) :
                Known(argv.options[k]) /\ \E b \in B : k = b \/ k \in ListAt(b)
          BY <1>2 DEF ReadAsWritten
        <4>2. \A k \in 1..((i + 1) - 1) : k = i \/ k \in 1..(i - 1)
          BY <1>4
        <4>3. Known(argv.options[i])
          BY <2>1 DEF Known
        <4> QED BY <3>4, <3>8, <4>1, <4>2, <4>3
      <3> HIDE DEF B, n, a
      <3>12. \A b \in B : lists'[Place(b)] = ListBelow(b, i + 1)
        BY <3>9, <3>10
      <3>13. pc' # "algorithm" /\ pc' # "lists"
        BY <1>1, <1>6
      <3>14. /\ \A k \in 1..(i' - 1) : /\ Known(argv'.options[k])
                                        /\ \E b \in BegunBelow(i)' : k = b \/ k \in ListAt(b)'
             /\ \A b \in BegunBelow(i)' : lists'[Place(b)'] = ListBelow(b, i)'
        BY <1>1, <2>1, <3>3, <3>11, <3>12, TextStays
      <3>15. Len(lists)' = Cardinality(BegunBelow(i))' + (IF pc' = "algorithm" THEN 1 ELSE 0)
        BY <1>4, <2>3, <3>3, <3>6, <3>13
      <3> QED BY <3>13, <3>14, <3>15 DEF ReadAsWritten, Known
    <2> QED BY <2>5, <2>6, <2>7, <2>8 DEF ArgumentInvariant
  <1> QED BY <1>5, <1>6 DEF ReadOption

\* The other steps of parseArguments only change where it is.
LEMMA ParseKeepsArguments ==
  ASSUME ArgumentInvariant, ParseArguments
  PROVE  ArgumentInvariant'
  <1>1. Running /\ exitCode = "running" /\ argv \in CommandLine /\ ListsOK /\ ListsFit
    BY DEF ParseArguments, ArgumentInvariant, ControlOK, Running
  <1>2. CASE BadArguments \/ TooManyLists \/ NotAnAlgorithm
    <2>1. /\ pc' = "exit" /\ exitCode' = "failure" /\ UNCHANGED <<argv, i, lists, overrun>>
      BY <1>2 DEF BadArguments, TooManyLists, NotAnAlgorithm, Exit
    <2> QED BY <1>1, <2>1, ExitKeepsArguments DEF ListsOK, ListsFit
  <1>3. CASE ArgumentsRead
    <2>1. /\ pc = "arguments" /\ MandatoryOptions /\ pc' = "lists"
          /\ UNCHANGED <<argv, i, lists, overrun, exitCode>>
      BY <1>3 DEF ArgumentsRead
    <2>2. i = 1 /\ lists = <<>> /\ ~overrun
      BY <1>1, <2>1 DEF ListsOK
    <2>3. "lists" \in Parsers /\ "lists" \notin Mains
      BY DEF Parsers, Mains
    <2>4. MandatoryOptions'
      BY <2>1 DEF MandatoryOptions
    <2>5. ControlOK'
      BY <1>1, <2>1, <2>3, <2>4 DEF ControlOK
    <2>6. ListsOK'
      BY <1>1, <2>1, <2>2, <2>3 DEF ListsOK
    <2>7. ListsFit'
      <3>1. argv.queues \in Int /\ argv.queues >= 1 /\ ~(Len(lists) > argv.queues)
        BY <1>1, <2>1, <2>2 DEF MandatoryOptions, CommandLine
      <3>2. overrun <=> Len(lists) > argv.queues
        BY <2>2, <3>1, Zenon
      <3> QED BY <2>1, <2>2, <3>1, <3>2 DEF ListsFit
    <2>8. ReadAsWritten'
      <3>1. \A k \in Beginnings : ~(k < 1)
        BY <1>1, BeginningsAreFinite
      <3>2. BegunBelow(i)' = {}
        BY <2>1, <2>2, <3>1, TextStays DEF BegunBelow
      <3>3. Cardinality(BegunBelow(i)') = 0 /\ Len(lists') = 0
        BY <2>1, <2>2, <3>2, FS_EmptySet
      <3> QED BY <2>1, <2>2, <3>2, <3>3 DEF ReadAsWritten
    <2> QED BY <2>5, <2>6, <2>7, <2>8 DEF ArgumentInvariant
  <1>4. CASE NewList
    BY <1>1, <1>4, NewListKeepsArguments
  <1>5. CASE SetAlgorithmType
    BY <1>1, <1>5, TypeKeepsArguments
  <1>6. CASE ReadOption
    BY <1>1, <1>6, OptionKeepsArguments
  <1>7. CASE WriteBehind \/ NoArray \/ ListRead \/ ArgumentsParsed
    <2>1. /\ UNCHANGED <<argv, i, lists, overrun, exitCode>>
          /\ pc \in {"lists", "options"} /\ pc' \in {"lists", "graph"}
          /\ pc' = "graph" => pc = "lists" /\ ~OptionsLeft
          /\ pc = "options" => pc' = "lists" /\ ~InList
      BY <1>7 DEF WriteBehind, NoArray, ListRead, ArgumentsParsed
    <2>2. /\ {"lists", "options"} \subseteq Parsers /\ "graph" \in Mains
          /\ {"lists", "options"} \cap Mains = {}
      BY DEF Parsers, Mains
    <2>3. MandatoryOptions /\ ReadAsWritten
      BY <1>1, <2>1 DEF ArgumentInvariant, ControlOK
    <2>4. MandatoryOptions'
      BY <2>1, <2>3 DEF MandatoryOptions
    <2>5. ControlOK'
      BY <1>1, <2>1, <2>2, <2>4 DEF ControlOK
    <2>6. argv.options # <<>> /\ argv.options \in Seq(Argument)
      BY <1>1, <2>3, BeginningsAreFinite DEF MandatoryOptions
    <2>7. Len(argv.options) \in Nat \ {0}
      BY <2>6, EmptySeq, LenProperties
    <2>8. ListsOK'
      <3>1. pc' = "graph" => i > Len(argv.options) /\ lists # <<>>
        BY <1>1, <2>1, <2>7 DEF ListsOK, OptionsLeft
      <3> QED BY <1>1, <2>1, <2>2, <3>1 DEF ListsOK
    <2>9. ListsFit'
      BY <1>1, <2>1 DEF ListsFit
    <2>10. ReadAsWritten'
      <3>1. pc' = "lists" /\ lists # <<>> /\ OptionsLeft => argv.options[i].option = "algorithm"
        BY <2>1, <2>3 DEF ReadAsWritten, InList
      <3> QED BY <2>1, <2>3, <3>1, TextStays DEF ReadAsWritten, BegunBelow, OptionsLeft, Known
    <2> QED BY <2>5, <2>8, <2>9, <2>10 DEF ArgumentInvariant
  <1> QED BY <1>2, <1>3, <1>4, <1>5, <1>6, <1>7 DEF ParseArguments

LEMMA ArgumentStep ==
  ASSUME ArgumentInvariant, [Next]_vars
  PROVE  ArgumentInvariant'
  <1>1. CASE ParseArguments
    BY <1>1, ParseKeepsArguments
  <1>2. CASE Running /\ MainSteps /\ UNCHANGED parsedVars
    BY <1>2, MainKeepsArguments
  <1>3. CASE UNCHANGED vars
    <2>1. UNCHANGED <<argv, i, lists, overrun, pc, exitCode>>
      BY <1>3 DEF vars, argumentVars
    <2>2. ControlOK'
      BY <2>1 DEF ArgumentInvariant, ControlOK, MandatoryOptions
    <2>3. ListsOK'
      BY <2>1 DEF ArgumentInvariant, ListsOK, OptionsLeft
    <2>4. ListsFit'
      BY <2>1 DEF ArgumentInvariant, ListsFit
    <2>5. ReadAsWritten => ReadAsWritten'
      BY <2>1, TextStays DEF ReadAsWritten, BegunBelow, OptionsLeft, Known
    <2> QED BY <2>1, <2>2, <2>3, <2>4, <2>5 DEF ArgumentInvariant
  <1> QED BY <1>1, <1>2, <1>3 DEF Next

LEMMA ArgumentInvariance == Spec => []ArgumentInvariant
  <1>1. Init => ArgumentInvariant
    BY ArgumentsAtFirst
  <1>2. ArgumentInvariant /\ [Next]_vars => ArgumentInvariant'
    BY ArgumentStep
  <1> QED BY <1>1, <1>2, PTL DEF Spec

\* What holds when the parser is done.
LEMMA ParsedText ==
  ASSUME ArgumentInvariant, ~Parsing
  PROVE  /\ ReadAsWritten /\ ListsFit /\ argv \in CommandLine
         /\ BegunBelow(i) = Beginnings /\ i = Len(argv.options) + 1
         /\ Len(lists) = Cardinality(Beginnings) /\ lists # <<>>
  <1>1. pc \in Mains /\ argv \in CommandLine /\ ListsOK /\ ReadAsWritten /\ ListsFit
        /\ pc # "algorithm"
    BY DEF ArgumentInvariant, ControlOK, Parsing, Parsers
  <1>2. Len(argv.options) \in Nat /\ Beginnings \subseteq 1..Len(argv.options)
    BY <1>1, BeginningsAreFinite
  <1>3. i = Len(argv.options) + 1
    BY <1>1, <1>2 DEF ListsOK
  <1>4. BegunBelow(i) = Beginnings
    <2>1. \A k \in Beginnings : k < i
      BY <1>2, <1>3
    <2> QED BY <2>1 DEF BegunBelow
  <1>5. Cardinality(Beginnings) \in Nat
    BY <1>1, BeginningsAreFinite
  <1> QED BY <1>1, <1>3, <1>4, <1>5 DEF ReadAsWritten, ListsOK

(* Every queue gets the options of its own list as they are written: for   *)
(* every command line, the state of the parser behind each argument is     *)
(* what the arguments in front of it say.                                  *)
THEOREM OptionsAreParsedAsWritten == Spec => []ParsedAsWritten
  <1>1. ArgumentInvariant => ParsedAsWritten
    <2>1. SUFFICES ASSUME ArgumentInvariant, ~Parsing
                   PROVE  ParsedAsWritten
      BY DEF ParsedAsWritten
    <2>2. ReadAsWritten /\ BegunBelow(i) = Beginnings /\ i = Len(argv.options) + 1
          /\ Len(lists) = Cardinality(Beginnings) /\ argv \in CommandLine
      BY <2>1, ParsedText
    <2>3. Len(argv.options) \in Nat /\ DOMAIN argv.options = 1..Len(argv.options)
      BY <2>2, BeginningsAreFinite
    <2>4. \A k \in DOMAIN argv.options :
            Known(argv.options[k]) /\ \E b \in Beginnings : k = b \/ k \in ListAt(b)
      BY <2>2, <2>3 DEF ReadAsWritten
    <2>5. \A b, o : ValueBelow(b, o, i) = ValueIn(b, o)
      <3>1. \A b : \A k \in ListAt(b) : k < i
        BY <2>2, <2>3 DEF ListAt
      <3>2. ASSUME NEW b, NEW o PROVE ValueBelow(b, o, i) = ValueIn(b, o)
        <4>1. GivenBelow(b, o, i) = {k \in ListAt(b) : argv.options[k].option = o}
          BY <3>1 DEF GivenBelow
        <4> QED BY <4>1, Zenon DEF ValueBelow, ValueIn
      <3> QED BY <3>2
    <2>6. \A b \in Beginnings : lists[Place(b)] = ListBelow(b, i)
      BY <2>2 DEF ReadAsWritten
    <2> QED BY <2>2, <2>4, <2>5, <2>6 DEF ParsedAsWritten, ListBelow, Place
  <1> QED BY <1>1, ArgumentInvariance, PTL

(* At most one list is written behind the array of the options, and only   *)
(* if the command line has exactly one too many.                           *)
THEOREM AtMostOneListTooMany == Spec => []OneListTooMany
  <1>1. ArgumentInvariant => OneListTooMany
    <2>1. SUFFICES ASSUME ArgumentInvariant PROVE OneListTooMany
      OBVIOUS
    <2>2. argv \in CommandLine /\ ListsFit /\ Len(lists) \in Nat /\ argv.queues \in Int
      <3>1. argv \in CommandLine /\ ListsFit /\ lists \in Seq(List)
        BY <2>1 DEF ArgumentInvariant, ControlOK, ListsOK
      <3> QED BY <3>1, LenProperties DEF CommandLine
    <2>3. ~Parsing => (overrun <=> Cardinality(Beginnings) = argv.queues + 1)
      <3>1. SUFFICES ASSUME ~Parsing PROVE overrun <=> Cardinality(Beginnings) = argv.queues + 1
        OBVIOUS
      <3>2. Len(lists) = Cardinality(Beginnings) /\ lists # <<>>
        BY <2>1, <3>1, ParsedText
      <3>3. overrun <=> Len(lists) > argv.queues
        BY <2>2, <3>1 DEF ListsFit, Parsing
      <3>4. Len(lists) > argv.queues <=> Len(lists) = argv.queues + 1
        BY <2>2, <3>2 DEF ListsFit
      <3> QED BY <3>2, <3>3, <3>4, Zenon
    <2> QED BY <2>2, <2>3 DEF OneListTooMany, ListsFit
  <1> QED BY <1>1, ArgumentInvariance, PTL

-----------------------------------------------------------------------------
(* 2. The input file                                                       *)

\* The processes described in front of line l.
LinesBelow(l) == {k \in ProcessLines : k < l}

InLine == {"pcb", "fields", "events"}

Ready == {"statsArray", "launch", "simulate", "end"}

Early == {"arguments", "graph", "graphDisk", "stats", "open"} \cup Parsers

FileOK ==
  /\ file \in Seq(Line) /\ line \in 1..(Len(file) + 1)
  /\ event \in Nat /\ counted \in Nat /\ step \in Nat \ {0}
  /\ processesInfo \in Seq(ProcessLines)
  /\ \A j, k \in Procs : j < k => processesInfo[j] < processesInfo[k]
  /\ \A k \in Procs : /\ file[processesInfo[k]].fields
                      /\ file[processesInfo[k]].list \in {"closed", "empty"}
  /\ failures \in 0..MaxFailures
  /\ fault \in Faults

FileFollowed ==
  /\ pc \in Early => line = 1 /\ counted = 0
  /\ pc \in Early \cup {"count"} => processesInfo = <<>>
  /\ pc \notin {"end", "exit"} => consumed = {}
  /\ pc \notin {"launch", "simulate", "end", "exit"} => step = 1
  /\ pc = "launch" /\ fault = "none" => step <= Len(LaunchBlocks)
  /\ pc = "count" /\ fault = "none" => counted = Cardinality(LinesBelow(line))
  /\ counted <= Len(file) /\ Len(processesInfo) <= Len(file)
  /\ pc # "count" => Len(processesInfo) <= counted
  /\ pc \in {"read"} \cup InLine =>
       /\ counted = Cardinality(ProcessLines)
       /\ ToSet(processesInfo) = LinesBelow(line)
       /\ Len(processesInfo) = Cardinality(LinesBelow(line))
  /\ pc \in InLine => line \in ProcessLines
  /\ pc = "events" => /\ file[line].fields /\ file[line].list # "missing"
                      /\ event <= file[line].events
                      /\ (file[line].list \in {"noBracket", "empty"} => event = 0)
  /\ pc \in Ready =>
       ToSet(processesInfo) = ProcessLines /\ Len(processesInfo) = counted

FileInvariant == FileOK /\ FileFollowed

LEMMA FileAtFirst == ASSUME Init PROVE FileInvariant
  <1>1. /\ pc = "arguments" /\ file \in Seq(Line) /\ line = 1 /\ counted = 0
        /\ processesInfo = <<>> /\ event = 0 /\ consumed = {} /\ step = 1
        /\ failures = 0 /\ fault = "none"
    BY FileAssumption DEF Init, ArgumentInit
  <1>2. /\ Len(file) \in Nat /\ processesInfo \in Seq(ProcessLines) /\ Len(processesInfo) = 0
        /\ Procs = {}
    BY <1>1, LenProperties, EmptySeq DEF Procs
  <1>3. MaxFailures \in Nat
    BY CommandLineAssumption
  <1>4. FileOK
    BY <1>1, <1>2, <1>3 DEF FileOK, Faults
  <1>5. pc \notin {"read"} \cup InLine /\ pc \notin Ready
    BY <1>1 DEF InLine, Ready
  <1>6. FileFollowed
    BY <1>1, <1>2, <1>5 DEF FileFollowed
  <1> QED BY <1>4, <1>6 DEF FileInvariant

\* How many allocations have failed, and what has gone wrong.
LEMMA FailuresTyped ==
  ASSUME FileOK, Running, ParseArguments \/ MainSteps
  PROVE  failures' \in 0..MaxFailures /\ fault' \in Faults
  <1>1. failures \in 0..MaxFailures /\ fault = "none" /\ MaxFailures \in Nat
    BY CommandLineAssumption DEF FileOK, Running
  <1>2. AllocationFails => failures' \in 0..MaxFailures
    BY <1>1 DEF AllocationFails
  <1>3. \A S : Freed(S) => fault' \in {"none", "freed"}
    BY DEF Freed
  <1>4. CASE ParseArguments
    BY <1>1, <1>2, <1>3, <1>4
    DEF ParseArguments, BadArguments, ArgumentsRead, TooManyLists, NewList, WriteBehind, NoArray,
        NotAnAlgorithm, SetAlgorithmType, ReadOption, ListRead, ArgumentsParsed, Allocated,
        Faults
  <1>5. CASE InitGraph \/ InitGraphDisk \/ InitStats \/ OpenFile
    BY <1>1, <1>2, <1>3, <1>5
    DEF InitGraph, InitGraphDisk, InitStats, OpenFile, Allocate, Allocated, GiveUp, Undefined,
        Faults
  <1>6. CASE CountLine \/ LineTooLong \/ ProcessesInfo \/ SkipLine \/ FileRead
    BY <1>1, <1>2, <1>3, <1>6
    DEF CountLine, LineTooLong, ProcessesInfo, SkipLine, FileRead, Allocate, Allocated, Undefined,
        Faults
  <1>7. CASE ReadInfo \/ ReadPCB \/ ReadFields \/ ReadEvent \/ NoEventBefore \/ LineRead
    BY <1>1, <1>2, <1>3, <1>7
    DEF ReadInfo, ReadPCB, ReadFields, ReadEvent, NoEventBefore, LineRead, ReadFails, Allocate,
        Allocated, GiveUp, Undefined,
        Faults
  <1>8. CASE SetNbProcessesInStats \/ Launch \/ Simulate \/ FreeAll
    BY <1>1, <1>2, <1>3, <1>8
    DEF SetNbProcessesInStats, Launch, Simulate, FreeAll, Allocate, Allocated, GiveUp, Undefined,
        Faults
  <1> QED BY <1>4, <1>5, <1>6, <1>7, <1>8 DEF MainSteps

\* The file is what it was, and so is what has been read of it.
LEMMA FileStays ==
  ASSUME file' = file
  PROVE  ProcessLines' = ProcessLines /\ \A l : LinesBelow(l)' = LinesBelow(l)
  <1>1. ProcessLines' = ProcessLines
    BY DEF ProcessLines
  <1> QED BY <1>1 DEF LinesBelow

LEMMA InfoStays ==
  ASSUME processesInfo' = processesInfo
  PROVE  /\ Procs' = Procs /\ ToSet(processesInfo)' = ToSet(processesInfo)
         /\ argv' = argv => LaunchBlocks' = LaunchBlocks
  <1>1. Procs' = Procs
    BY DEF Procs
  <1> QED BY <1>1 DEF ToSet, LaunchBlocks, SchedulerBlocks, CPUBlocks

LEMMA SameFile ==
  ASSUME FileOK, UNCHANGED <<file, processesInfo>>,
         line' \in 1..(Len(file) + 1), event' \in Nat, counted' \in Nat, step' \in Nat \ {0},
         failures' \in 0..MaxFailures, fault' \in Faults
  PROVE  FileOK'
  BY FileStays, InfoStays DEF FileOK

\* The lines that describe a process, one after the other.
LEMMA LinesCounted ==
  ASSUME FileOK
  PROVE  /\ Len(file) \in Nat /\ ProcessLines \subseteq 1..Len(file)
         /\ \A S \in SUBSET ProcessLines :
              IsFiniteSet(S) /\ Cardinality(S) \in Nat /\ Cardinality(S) <= Len(file)
         /\ LinesBelow(1) = {} /\ Cardinality(LinesBelow(1)) = 0
         /\ LinesBelow(Len(file) + 1) = ProcessLines
         /\ \A l \in 1..Len(file) :
              /\ LinesBelow(l + 1) = IF file[l].skipped THEN LinesBelow(l)
                                     ELSE LinesBelow(l) \cup {l}
              /\ Cardinality(LinesBelow(l + 1)) =
                   IF file[l].skipped THEN Cardinality(LinesBelow(l))
                   ELSE Cardinality(LinesBelow(l)) + 1
         /\ \A l : Cardinality(LinesBelow(l)) <= Cardinality(ProcessLines)
  <1>1. Len(file) \in Nat /\ DOMAIN file = 1..Len(file) /\ ProcessLines \subseteq 1..Len(file)
    BY LenProperties DEF FileOK, ProcessLines
  <1>2. ASSUME NEW S \in SUBSET ProcessLines
        PROVE  IsFiniteSet(S) /\ Cardinality(S) \in Nat /\ Cardinality(S) <= Len(file)
    <2>1. IsFiniteSet(1..Len(file)) /\ Cardinality(1..Len(file)) = Len(file)
      <3>1. /\ IsFiniteSet(1..Len(file))
            /\ Cardinality(1..Len(file)) = IF 1 > Len(file) THEN 0 ELSE Len(file) - 1 + 1
        BY <1>1, 1 \in Int, Len(file) \in Int, FS_Interval, Zenon
      <3>2. (IF 1 > Len(file) THEN 0 ELSE Len(file) - 1 + 1) = Len(file)
        BY <1>1
      <3> QED BY <3>1, <3>2
    <2>2. S \in SUBSET (1..Len(file))
      BY <1>1
    <2>3. IsFiniteSet(S) /\ Cardinality(S) <= Len(file)
      BY <2>1, <2>2, FS_Subset
    <2> QED BY <2>3, FS_CardinalityType
  <1>3. LinesBelow(1) = {}
    <2>1. \A k \in ProcessLines : ~(k < 1)
      BY <1>1
    <2> QED BY <2>1 DEF LinesBelow
  <1>4. LinesBelow(Len(file) + 1) = ProcessLines
    <2>1. \A k \in ProcessLines : k < Len(file) + 1
      BY <1>1
    <2> QED BY <2>1 DEF LinesBelow
  <1>5. ASSUME NEW l \in 1..Len(file)
        PROVE  /\ LinesBelow(l + 1) = IF file[l].skipped THEN LinesBelow(l)
                                      ELSE LinesBelow(l) \cup {l}
               /\ Cardinality(LinesBelow(l + 1)) =
                    IF file[l].skipped THEN Cardinality(LinesBelow(l))
                    ELSE Cardinality(LinesBelow(l)) + 1
    <2>1. \A k \in ProcessLines : k < l + 1 <=> k < l \/ k = l
      BY <1>1
    <2>2. l \in ProcessLines <=> ~file[l].skipped
      BY <1>1 DEF ProcessLines
    <2>3. l \notin LinesBelow(l)
      BY <1>1 DEF LinesBelow
    <2>4. CASE file[l].skipped
      <3>1. LinesBelow(l + 1) = LinesBelow(l)
        BY <2>1, <2>2, <2>4 DEF LinesBelow
      <3> QED BY <2>4, <3>1
    <2>5. CASE ~file[l].skipped
      <3>1. LinesBelow(l + 1) = LinesBelow(l) \cup {l}
        BY <2>1, <2>2, <2>5 DEF LinesBelow
      <3>2. IsFiniteSet(LinesBelow(l))
        BY <1>2 DEF LinesBelow
      <3>3. Cardinality(LinesBelow(l) \cup {l}) = Cardinality(LinesBelow(l)) + 1
        BY <2>3, <3>2, FS_AddElement
      <3> QED BY <2>5, <3>1, <3>3
    <2> QED BY <2>4, <2>5
  <1>6. \A l : Cardinality(LinesBelow(l)) <= Cardinality(ProcessLines)
    BY <1>2, FS_Subset DEF LinesBelow
  <1> QED BY <1>1, <1>2, <1>3, <1>4, <1>5, <1>6, FS_EmptySet

\* What launchSimulation allocates, by its place: q queues, c cores, n processes.
LaunchOrder(q, c, n) ==
  ((((<<<<"scheduler">>, <<"readyQueues">>>> \o [k \in 1..q |-> <<"readyQueue", k - 1>>])
       \o <<<<"waitingQueues">>, <<"waitingQueue">>, <<"queuesSizesBeforeRR">>>>)
      \o (<<<<"cpu">>, <<"cores">>>> \o [k \in 1..c |-> <<"core", k - 1>>]))
     \o <<<<"disk">>, <<"computer">>>>)
    \o [p \in 1..n |-> <<"processStats", p>>]

LEMMA Concatenation ==
  ASSUME NEW S, NEW s \in Seq(S), NEW t \in Seq(S), NEW u, u = s \o t
  PROVE  /\ u \in Seq(S) /\ Len(u) = Len(s) + Len(t)
         /\ \A j \in 1..Len(s) : u[j] = s[j]
         /\ \A j \in 1..Len(t) : u[Len(s) + j] = t[j]
  <1>1. Len(s) \in Nat /\ Len(t) \in Nat
    BY LenProperties
  <1>2. /\ u \in Seq(S) /\ Len(u) = Len(s) + Len(t)
        /\ \A j \in 1..(Len(s) + Len(t)) : u[j] = IF j <= Len(s) THEN s[j] ELSE t[j - Len(s)]
    BY ConcatProperties
  <1>3. \A j \in 1..Len(s) : j \in 1..(Len(s) + Len(t)) /\ j <= Len(s)
    BY <1>1
  <1>4. \A j \in 1..Len(t) : /\ Len(s) + j \in 1..(Len(s) + Len(t)) /\ ~(Len(s) + j <= Len(s))
                              /\ (Len(s) + j) - Len(s) = j
    BY <1>1
  <1> QED BY <1>2, <1>3, <1>4

\* L holds these blocks in this order.
InOrder(L, q, c, n) ==
  /\ Len(L) = q + c + 9 + n
  /\ L[1] = <<"scheduler">> /\ L[2] = <<"readyQueues">>
  /\ \A k \in 0..(q - 1) : L[k + 3] = <<"readyQueue", k>>
  /\ L[q + 3] = <<"waitingQueues">> /\ L[q + 4] = <<"waitingQueue">>
  /\ L[q + 5] = <<"queuesSizesBeforeRR">>
  /\ L[q + 6] = <<"cpu">> /\ L[q + 7] = <<"cores">>
  /\ \A k \in 0..(c - 1) : L[q + k + 8] = <<"core", k>>
  /\ L[q + c + 8] = <<"disk">> /\ L[q + c + 9] = <<"computer">>
  /\ \A p \in 1..n : L[q + c + 9 + p] = <<"processStats", p>>

LEMMA LaunchPlaces ==
  ASSUME NEW q \in Nat \ {0}, NEW c \in Nat \ {0}, NEW n \in Nat
  PROVE  InOrder(LaunchOrder(q, c, n), q, c, n)
  <1> DEFINE L == LaunchOrder(q, c, n)
  <1> DEFINE B == {<<"scheduler">>, <<"readyQueues">>, <<"waitingQueues">>, <<"waitingQueue">>,
                   <<"queuesSizesBeforeRR">>, <<"cpu">>, <<"cores">>, <<"disk">>, <<"computer">>}
                   \cup {<<"readyQueue", m>> : m \in Int} \cup {<<"core", m>> : m \in Int}
                   \cup {<<"processStats", m>> : m \in Int}
             s1 == <<<<"scheduler">>, <<"readyQueues">>>>
             s2 == [k \in 1..q |-> <<"readyQueue", k - 1>>]
             s3 == <<<<"waitingQueues">>, <<"waitingQueue">>, <<"queuesSizesBeforeRR">>>>
             s4 == <<<<"cpu">>, <<"cores">>>>
             s5 == [k \in 1..c |-> <<"core", k - 1>>]
             s6 == <<<<"disk">>, <<"computer">>>>
             s7 == [p \in 1..n |-> <<"processStats", p>>]
  <1>1. /\ {<<"scheduler">>, <<"readyQueues">>, <<"waitingQueues">>, <<"waitingQueue">>,
            <<"queuesSizesBeforeRR">>, <<"cpu">>, <<"cores">>, <<"disk">>, <<"computer">>}
            \subseteq B
        /\ \A m \in Int : <<"readyQueue", m>> \in B /\ <<"core", m>> \in B
                           /\ <<"processStats", m>> \in B
    OBVIOUS
  <1> HIDE DEF B
  <1>2. /\ s1 \in Seq(B) /\ s3 \in Seq(B) /\ s4 \in Seq(B) /\ s6 \in Seq(B)
        /\ Len(s1) = 2 /\ Len(s3) = 3 /\ Len(s4) = 2 /\ Len(s6) = 2
    BY <1>1
  <1>3. /\ s2 \in Seq(B) /\ s5 \in Seq(B) /\ s7 \in Seq(B)
        /\ Len(s2) = q /\ Len(s5) = c /\ Len(s7) = n
    <2>1. /\ \A k \in 1..q : <<"readyQueue", k - 1>> \in B
          /\ \A k \in 1..c : <<"core", k - 1>> \in B
          /\ \A p \in 1..n : <<"processStats", p>> \in B
      <3>1. /\ \A k \in 1..q : k - 1 \in Int
            /\ \A k \in 1..c : k - 1 \in Int
            /\ \A p \in 1..n : p \in Int
        OBVIOUS
      <3> QED BY <1>1, <3>1, Zenon
    <2>2. s2 \in [1..q -> B] /\ s5 \in [1..c -> B] /\ s7 \in [1..n -> B]
      BY <2>1, Zenon
    <2> HIDE DEF s2, s5, s7
    <2> QED BY <2>2
  <1>4. L = ((((s1 \o s2) \o s3) \o (s4 \o s5)) \o s6) \o s7
    BY DEF LaunchOrder
  <1> HIDE DEF L
  <1>5. s1[1] = <<"scheduler">> /\ s1[2] = <<"readyQueues">>
    OBVIOUS
  <1>6. \A k \in 1..q : s2[k] = <<"readyQueue", k - 1>>
    OBVIOUS
  <1>7. s3[1] = <<"waitingQueues">> /\ s3[2] = <<"waitingQueue">> /\ s3[3] = <<"queuesSizesBeforeRR">>
    OBVIOUS
  <1>8. s4[1] = <<"cpu">> /\ s4[2] = <<"cores">>
    OBVIOUS
  <1>9. \A k \in 1..c : s5[k] = <<"core", k - 1>>
    OBVIOUS
  <1>10. s6[1] = <<"disk">> /\ s6[2] = <<"computer">>
    OBVIOUS
  <1>11. \A p \in 1..n : s7[p] = <<"processStats", p>>
    OBVIOUS
  <1> HIDE DEF s1, s2, s3, s4, s5, s6, s7
  <1> DEFINE a == s1 \o s2
             b == a \o s3
             d == s4 \o s5
             e == b \o d
             f == e \o s6
             g == f \o s7
  <1>a. a = s1 \o s2 /\ b = a \o s3 /\ d = s4 \o s5 /\ e = b \o d /\ f = e \o s6 /\ g = f \o s7
    OBVIOUS
  <1>b. L = g
    BY <1>4
  <1> HIDE DEF a, b, d, e, f, g
  <1>12. /\ a \in Seq(B) /\ Len(a) = 2 + q /\ \A j \in 1..2 : a[j] = s1[j]
         /\ \A j \in 1..q : a[2 + j] = s2[j]
    <2>1. s1 \in Seq(B) /\ s2 \in Seq(B) /\ a = s1 \o s2
      BY <1>a, <1>2, <1>3
    <2>2. /\ a \in Seq(B) /\ Len(a) = Len(s1) + Len(s2)
          /\ \A j \in 1..Len(s1) : a[j] = s1[j]
          /\ \A j \in 1..Len(s2) : a[Len(s1) + j] = s2[j]
      BY <2>1, Concatenation
    <2> QED BY <2>2, <1>2, <1>3
  <1>13. /\ d \in Seq(B) /\ Len(d) = 2 + c /\ \A j \in 1..2 : d[j] = s4[j]
         /\ \A j \in 1..c : d[2 + j] = s5[j]
    <2>1. s4 \in Seq(B) /\ s5 \in Seq(B) /\ d = s4 \o s5
      BY <1>a, <1>2, <1>3
    <2>2. /\ d \in Seq(B) /\ Len(d) = Len(s4) + Len(s5)
          /\ \A j \in 1..Len(s4) : d[j] = s4[j]
          /\ \A j \in 1..Len(s5) : d[Len(s4) + j] = s5[j]
      BY <2>1, Concatenation
    <2> QED BY <2>2, <1>2, <1>3
  <1>14. /\ b \in Seq(B) /\ Len(b) = (2 + q) + 3 /\ \A j \in 1..(2 + q) : b[j] = a[j]
         /\ \A j \in 1..3 : b[(2 + q) + j] = s3[j]
    <2>1. a \in Seq(B) /\ s3 \in Seq(B) /\ b = a \o s3
      BY <1>a, <1>2, <1>12
    <2>2. /\ b \in Seq(B) /\ Len(b) = Len(a) + Len(s3)
          /\ \A j \in 1..Len(a) : b[j] = a[j]
          /\ \A j \in 1..Len(s3) : b[Len(a) + j] = s3[j]
      BY <2>1, Concatenation
    <2> QED BY <2>2, <1>2, <1>12
  <1>15. /\ e \in Seq(B) /\ Len(e) = ((2 + q) + 3) + (2 + c)
         /\ \A j \in 1..((2 + q) + 3) : e[j] = b[j]
         /\ \A j \in 1..(2 + c) : e[((2 + q) + 3) + j] = d[j]
    <2>1. b \in Seq(B) /\ d \in Seq(B) /\ e = b \o d
      BY <1>a, <1>13, <1>14
    <2>2. /\ e \in Seq(B) /\ Len(e) = Len(b) + Len(d)
          /\ \A j \in 1..Len(b) : e[j] = b[j]
          /\ \A j \in 1..Len(d) : e[Len(b) + j] = d[j]
      BY <2>1, Concatenation
    <2> QED BY <2>2, <1>13, <1>14
  <1> DEFINE m == ((2 + q) + 3) + (2 + c)
  <1>16. /\ f \in Seq(B) /\ Len(f) = m + 2 /\ \A j \in 1..m : f[j] = e[j]
         /\ \A j \in 1..2 : f[m + j] = s6[j]
    <2>1. e \in Seq(B) /\ s6 \in Seq(B) /\ f = e \o s6
      BY <1>a, <1>2, <1>15
    <2>2. /\ f \in Seq(B) /\ Len(f) = Len(e) + Len(s6)
          /\ \A j \in 1..Len(e) : f[j] = e[j]
          /\ \A j \in 1..Len(s6) : f[Len(e) + j] = s6[j]
      BY <2>1, Concatenation
    <2> QED BY <2>2, <1>2, <1>15
  <1>17. /\ Len(g) = (m + 2) + n /\ \A j \in 1..(m + 2) : g[j] = f[j]
         /\ \A p \in 1..n : g[(m + 2) + p] = s7[p]
    <2>1. f \in Seq(B) /\ s7 \in Seq(B) /\ g = f \o s7
      BY <1>a, <1>3, <1>16
    <2>2. /\ g \in Seq(B) /\ Len(g) = Len(f) + Len(s7)
          /\ \A j \in 1..Len(f) : g[j] = f[j]
          /\ \A j \in 1..Len(s7) : g[Len(f) + j] = s7[j]
      BY <2>1, Concatenation
    <2> QED BY <2>2, <1>3, <1>16
  <1>19. m = q + c + 7 /\ m \in Nat
    OBVIOUS
  <1>20. \A j \in 1..(q + 5) : g[j] = b[j]
    <2>1. \A j \in 1..(q + 5) : j \in 1..(m + 2) /\ j \in 1..m /\ j \in 1..((2 + q) + 3)
      OBVIOUS
    <2> QED BY <1>15, <1>16, <1>17, <2>1
  <1>21. \A j \in 1..(c + 2) : g[q + 5 + j] = d[j]
    <2>1. \A j \in 1..(c + 2) : /\ q + 5 + j \in 1..(m + 2) /\ q + 5 + j \in 1..m
                              /\ j \in 1..(2 + c) /\ q + 5 + j = ((2 + q) + 3) + j
      OBVIOUS
    <2> QED BY <1>15, <1>16, <1>17, <2>1
  <1>22. \A j \in 1..(q + 2) : g[j] = a[j]
    <2>1. \A j \in 1..(q + 2) : j \in 1..(2 + q) /\ j \in 1..(q + 5)
      OBVIOUS
    <2> QED BY <1>14, <1>20, <2>1
  <1>23. g[1] = <<"scheduler">> /\ g[2] = <<"readyQueues">>
    <2>1. 1 \in 1..(q + 2) /\ 2 \in 1..(q + 2) /\ 1 \in 1..2 /\ 2 \in 1..2
      OBVIOUS
    <2> QED BY <1>5, <1>12, <1>22, <2>1
  <1>24. \A k \in 0..(q - 1) : g[k + 3] = <<"readyQueue", k>>
    <2>1. \A k \in 0..(q - 1) : /\ k + 3 \in 1..(q + 2) /\ k + 1 \in 1..q
                              /\ k + 3 = 2 + (k + 1) /\ (k + 1) - 1 = k
      OBVIOUS
    <2>2. \A k \in 0..(q - 1) : g[k + 3] = s2[k + 1]
      BY <1>12, <1>22, <2>1
    <2> QED BY <1>6, <2>1, <2>2
  <1>25. /\ g[q + 3] = <<"waitingQueues">> /\ g[q + 4] = <<"waitingQueue">>
         /\ g[q + 5] = <<"queuesSizesBeforeRR">>
    <2>1. /\ 1 \in 1..3 /\ 2 \in 1..3 /\ 3 \in 1..3
          /\ q + 3 = (2 + q) + 1 /\ q + 4 = (2 + q) + 2 /\ q + 5 = (2 + q) + 3
          /\ q + 3 \in 1..(q + 5) /\ q + 4 \in 1..(q + 5) /\ q + 5 \in 1..(q + 5)
      OBVIOUS
    <2>2. g[q + 3] = s3[1] /\ g[q + 4] = s3[2] /\ g[q + 5] = s3[3]
      BY <1>14, <1>20, <2>1
    <2> QED BY <1>7, <2>2
  <1>26. g[q + 6] = <<"cpu">> /\ g[q + 7] = <<"cores">>
    <2>1. /\ 1 \in 1..2 /\ 2 \in 1..2 /\ 1 \in 1..(c + 2) /\ 2 \in 1..(c + 2)
          /\ q + 6 = q + 5 + 1 /\ q + 7 = q + 5 + 2
      OBVIOUS
    <2> QED BY <1>8, <1>13, <1>21, <2>1
  <1>27. \A k \in 0..(c - 1) : g[q + k + 8] = <<"core", k>>
    <2>1. \A k \in 0..(c - 1) : /\ k + 1 \in 1..c /\ 2 + (k + 1) \in 1..(c + 2)
                              /\ q + k + 8 = q + 5 + (2 + (k + 1)) /\ (k + 1) - 1 = k
      OBVIOUS
    <2>2. \A k \in 0..(c - 1) : g[q + k + 8] = s5[k + 1]
      BY <1>13, <1>21, <2>1
    <2> QED BY <1>9, <2>1, <2>2
  <1>28. g[q + c + 8] = <<"disk">> /\ g[q + c + 9] = <<"computer">>
    <2>1. /\ 1 \in 1..2 /\ 2 \in 1..2 /\ q + c + 8 = m + 1 /\ q + c + 9 = m + 2
          /\ m + 1 \in 1..(m + 2) /\ m + 2 \in 1..(m + 2)
      OBVIOUS
    <2> QED BY <1>10, <1>16, <1>17, <2>1
  <1>29. \A p \in 1..n : g[q + c + 9 + p] = <<"processStats", p>>
    <2>1. \A p \in 1..n : q + c + 9 + p = (m + 2) + p
      OBVIOUS
    <2> QED BY <1>11, <1>17, <2>1
  <1>30. Len(g) = q + c + 9 + n
    BY <1>17, <1>19
  <1> HIDE DEF m
  <1>31. InOrder(L, q, c, n)
    BY <1>b, <1>23, <1>24, <1>25, <1>26, <1>27, <1>28, <1>29, <1>30 DEF InOrder
  <1> QED BY <1>31 DEF L

LEMMA LaunchBlocksOrder ==
  ASSUME argv \in CommandLine, MandatoryOptions, processesInfo \in Seq(ProcessLines)
  PROVE  /\ argv.queues \in Nat \ {0} /\ argv.cores \in Nat \ {0}
         /\ Len(processesInfo) \in Nat /\ Procs = 1..Len(processesInfo)
         /\ InOrder(LaunchBlocks, argv.queues, argv.cores, Len(processesInfo))
  <1>1. argv.queues \in Nat \ {0} /\ argv.cores \in Nat \ {0}
    BY DEF MandatoryOptions, CommandLine
  <1>2. Len(processesInfo) \in Nat /\ Procs = 1..Len(processesInfo)
    BY LenProperties DEF Procs
  <1>3. LaunchBlocks = LaunchOrder(argv.queues, argv.cores, Len(processesInfo))
    BY <1>2 DEF LaunchBlocks, SchedulerBlocks, CPUBlocks, LaunchOrder
  <1>4. InOrder(LaunchOrder(argv.queues, argv.cores, Len(processesInfo)),
                argv.queues, argv.cores, Len(processesInfo))
    BY <1>1, <1>2, LaunchPlaces
  <1> QED BY <1>1, <1>2, <1>3, <1>4

\* parseArguments and the first steps of main leave the file alone.
LEMMA EarlyKeepsFile ==
  ASSUME ArgumentInvariant, FileInvariant, Running, UNCHANGED <<argv, fileVars>>,
         \/ ParseArguments
         \/ MainSteps /\ (InitGraph \/ InitGraphDisk \/ InitStats \/ OpenFile)
  PROVE  FileInvariant'
  <1>1. /\ UNCHANGED <<argv, file, line, counted, processesInfo, event, consumed, step>>
        /\ fault = "none"
    BY DEF fileVars, Running
  <1>2. /\ pc \in Early /\ pc' \in Early \cup {"count", "exit"}
    <2>1. CASE ParseArguments
      BY <2>1
      DEF ParseArguments, BadArguments, ArgumentsRead, TooManyLists, NewList, WriteBehind, NoArray, Exit,
          NotAnAlgorithm, SetAlgorithmType, ReadOption, ListRead, ArgumentsParsed, Early, Parsers
    <2>2. CASE InitGraph \/ InitGraphDisk \/ InitStats \/ OpenFile
      BY <2>2 DEF InitGraph, InitGraphDisk, InitStats, OpenFile, Allocate, GiveUp, Undefined, Exit,
                  Early
    <2> QED BY <2>1, <2>2
  <1>3. failures' \in 0..MaxFailures /\ fault' \in Faults
    BY FailuresTyped DEF FileInvariant
  <1>4. FileOK'
    BY <1>1, <1>3, SameFile DEF FileInvariant, FileOK
  <1>5. /\ line = 1 /\ counted = 0 /\ processesInfo = <<>> /\ consumed = {} /\ step = 1
        /\ Len(file) \in Nat /\ Len(processesInfo) = 0
        /\ Cardinality(LinesBelow(1))' = 0
    <2>1. pc \notin {"launch", "simulate", "end", "exit"}
      BY <1>2 DEF Early, Parsers
    <2> QED BY <1>1, <1>2, <2>1, LinesCounted, FileStays, EmptySeq DEF FileInvariant, FileFollowed
  <1>6. FileFollowed'
    <2>1. pc' \notin {"read", "launch"} \cup InLine \cup Ready
      BY <1>2 DEF Early, Parsers, InLine, Ready
    <2> QED BY <1>1, <1>2, <1>5, <2>1 DEF FileFollowed, InLine, Ready
  <1> QED BY <1>4, <1>6 DEF FileInvariant

LEMMA CountKeepsFile ==
  ASSUME FileInvariant, Running, UNCHANGED argv, MainSteps, CountLine \/ LineTooLong \/ ProcessesInfo
  PROVE  FileInvariant'
  <1>1. /\ pc = "count" /\ UNCHANGED <<argv, file, processesInfo, event, consumed, step>>
        /\ fault = "none" /\ pc' \in {"count", "read"}
    BY DEF CountLine, LineTooLong, ProcessesInfo, Running, fileVars, Allocate, Undefined
  <1>2. failures' \in 0..MaxFailures /\ fault' \in Faults
    BY FailuresTyped DEF FileInvariant
  <1>3. /\ FileOK /\ processesInfo = <<>> /\ consumed = {} /\ step = 1
        /\ counted = Cardinality(LinesBelow(line)) /\ Len(processesInfo) = 0
        /\ ToSet(processesInfo) = {}
    BY <1>1, EmptySeq DEF FileInvariant, FileFollowed, ToSet
  <1>4. /\ Len(file) \in Nat /\ line \in 1..(Len(file) + 1) /\ counted \in 0..Len(file)
        /\ \A l : LinesBelow(l)' = LinesBelow(l) /\ Cardinality(LinesBelow(l)) \in 0..Len(file)
        /\ ProcessLines' = ProcessLines
    BY <1>1, <1>3, LinesCounted, FileStays DEF FileOK, FileInvariant, FileFollowed, LinesBelow
  <1>5. pc' \notin InLine \cup Early \cup Ready \cup {"launch", "simulate", "end", "exit"}
    BY <1>1 DEF InLine, Early, Parsers, Ready
  <1>6. CASE CountLine
    <2>1. /\ line \in 1..Len(file) /\ line' = line + 1 /\ pc' = pc
          /\ counted' = IF file[line].skipped THEN counted ELSE counted + 1
      BY <1>4, <1>6 DEF CountLine
    <2>2. counted' = Cardinality(LinesBelow(line + 1))
      BY <1>3, <2>1, LinesCounted
    <2>3. counted' \in 0..Len(file) /\ line' \in 1..(Len(file) + 1)
      BY <1>4, <2>1, <2>2
    <2>4. counted' = Cardinality(LinesBelow(line))'
      BY <1>4, <2>1, <2>2
    <2>5. FileOK'
      BY <1>1, <1>2, <1>3, <2>3, SameFile DEF FileOK
    <2>6. FileFollowed'
      BY <1>1, <1>3, <1>4, <1>5, <2>1, <2>3, <2>4 DEF FileFollowed
    <2> QED BY <2>5, <2>6 DEF FileInvariant
  <1>7. CASE LineTooLong
    <2>1. /\ UNCHANGED <<line, counted, pc>> /\ fault' # "none"
      BY <1>7 DEF LineTooLong, Undefined, fileVars
    <2>2. FileOK'
      BY <1>1, <1>2, <1>3, <1>4, <2>1, SameFile DEF FileOK
    <2>3. FileFollowed'
      BY <1>1, <1>3, <1>4, <1>5, <2>1 DEF FileFollowed
    <2> QED BY <2>2, <2>3 DEF FileInvariant
  <1>8. CASE ProcessesInfo
    <2>1. /\ line > Len(file) /\ line' = 1 /\ counted' = counted
          /\ pc' = "count" => fault' # "none"
      BY <1>1, <1>8 DEF ProcessesInfo, Allocate, Undefined
    <2>2. line = Len(file) + 1
      BY <1>4, <2>1
    <2>3. FileOK'
      BY <1>1, <1>2, <1>3, <1>4, <2>1, SameFile DEF FileOK
    <2>4. counted = Cardinality(ProcessLines) /\ LinesBelow(1) = {} /\ Cardinality(LinesBelow(1)) = 0
      BY <1>3, <2>2, LinesCounted
    <2>5. /\ ToSet(processesInfo)' = {} /\ LinesBelow(line)' = {}
          /\ Cardinality(LinesBelow(line))' = 0
      BY <1>1, <1>3, <1>4, <2>1, <2>4, InfoStays
    <2>6. FileFollowed'
      <3>1. /\ counted' = Cardinality(ProcessLines)'
            /\ ToSet(processesInfo)' = LinesBelow(line)'
            /\ Len(processesInfo)' = Cardinality(LinesBelow(line))'
            /\ processesInfo' = <<>> /\ Len(processesInfo)' = 0 /\ consumed' = {} /\ step' = 1
            /\ counted' \in 0..Len(file)'
        BY <1>1, <1>3, <1>4, <2>1, <2>4, <2>5
      <3>2. Len(file)' \in Nat
        BY <1>1, <1>4
      <3> QED BY <1>1, <1>5, <2>1, <3>1, <3>2 DEF FileFollowed
    <2> QED BY <2>3, <2>6 DEF FileInvariant
  <1> QED BY <1>6, <1>7, <1>8

LEMMA ReadKeepsFile ==
  ASSUME FileInvariant, Running, UNCHANGED argv, MainSteps,
         \/ SkipLine \/ ReadInfo \/ ReadPCB \/ ReadFields \/ ReadEvent \/ NoEventBefore \/ LineRead \/ FileRead
  PROVE  FileInvariant'
  <1>1. /\ pc \in {"read"} \cup InLine /\ UNCHANGED <<argv, file, counted, consumed, step>>
        /\ fault = "none"
    BY DEF SkipLine, ReadInfo, ReadPCB, ReadFields, ReadEvent, NoEventBefore, LineRead, FileRead, Running,
           fileVars, InLine
  <1>2. failures' \in 0..MaxFailures /\ fault' \in Faults
    BY FailuresTyped DEF FileInvariant
  <1>3. /\ pc \notin Early \cup {"count", "launch", "simulate", "end", "exit"}
    BY <1>1 DEF InLine, Early, Parsers
  <1>4. /\ FileOK /\ consumed = {} /\ step = 1
        /\ counted = Cardinality(ProcessLines)
        /\ ToSet(processesInfo) = LinesBelow(line)
        /\ Len(processesInfo) = Cardinality(LinesBelow(line))
        /\ Len(processesInfo) <= counted /\ Len(processesInfo) <= Len(file) /\ counted <= Len(file)
    BY <1>1, <1>3 DEF FileInvariant, FileFollowed
  <1>5. /\ Len(file) \in Nat /\ line \in 1..(Len(file) + 1) /\ counted \in Nat
        /\ Len(processesInfo) \in Nat /\ event \in Nat
        /\ \A l : LinesBelow(l)' = LinesBelow(l)
        /\ ProcessLines' = ProcessLines /\ DOMAIN file = 1..Len(file)
    BY <1>1, <1>4, LinesCounted, FileStays, LenProperties DEF FileOK
  <1>6. CASE SkipLine
    <2>1. /\ pc = "read" /\ pc' = "read" /\ line \in 1..Len(file) /\ file[line].skipped
          /\ line' = line + 1 /\ UNCHANGED <<event, processesInfo, fault>>
      BY <1>5, <1>6 DEF SkipLine, Skipped
    <2>2. LinesBelow(line)' = LinesBelow(line)
      BY <1>4, <1>5, <2>1, LinesCounted
    <2>3. FileOK'
      BY <1>1, <1>2, <1>4, <1>5, <2>1, SameFile DEF FileOK
    <2>4. "read" \notin Early \cup InLine \cup Ready
      BY DEF InLine, Early, Parsers, Ready
    <2>5. ToSet(processesInfo)' = ToSet(processesInfo)
      BY <2>1, InfoStays
    <2>6. FileFollowed'
      BY <1>1, <1>4, <1>5, <2>1, <2>2, <2>4, <2>5 DEF FileFollowed
    <2> QED BY <2>3, <2>6 DEF FileInvariant
  <1>7. CASE ReadInfo \/ ReadPCB \/ ReadFields \/ ReadEvent \/ NoEventBefore
    <2>1. /\ UNCHANGED <<line, processesInfo>>
          /\ pc' \in InLine \cup {"read", "exit"}
          /\ pc' = "read" => pc = "read"
          /\ pc = "read" => line \in ProcessLines
          /\ pc' = "events" =>
               \/ (event' = 0 /\ file[line].fields /\ file[line].list # "missing")
               \/ (pc = "events" /\ event' = event + 1 /\ MoreEvents /\ file[line].list # "noBracket")
               \/ (pc = "events" /\ event' = event)
          /\ event' \in Nat
      <3>1. CASE ReadInfo
        <4>1. line \in ProcessLines
          BY <1>5, <3>1 DEF ReadInfo, Skipped, ProcessLines
        <4>2. pc' \in {"pcb", "exit", "read"} /\ pc = "read" /\ UNCHANGED <<line, processesInfo, event>>
          BY <3>1 DEF ReadInfo, fileVars, ReadFails, Allocate, GiveUp, Undefined, Exit
        <4> QED BY <1>5, <4>1, <4>2 DEF InLine
      <3>2. CASE ReadPCB
        BY <1>5, <3>2 DEF ReadPCB, fileVars, ReadFails, Allocate, GiveUp, Undefined, Exit, InLine
      <3>3. CASE ReadFields
        <4>1. /\ pc = "fields" /\ event' = 0 /\ UNCHANGED <<line, processesInfo>>
              /\ \/ (pc' = "events" /\ file[line].fields /\ file[line].list # "missing")
                 \/ pc' = "fields"
          BY <3>3 DEF ReadFields, Undefined
        <4>2. pc' \in InLine /\ event' \in Nat /\ pc # "read" /\ pc' # "read"
          BY <4>1 DEF InLine
        <4> QED BY <4>1, <4>2
      <3>4. CASE ReadEvent
        <4>1. /\ pc = "events" /\ UNCHANGED <<line, processesInfo>> /\ pc' \in {"events", "exit"}
              /\ \/ event' = event + 1 /\ MoreEvents /\ file[line].list # "noBracket"
                 \/ event' = event
          BY <3>4 DEF ReadEvent, ReadFails, Allocate, GiveUp, Undefined, Exit
        <4>2. /\ pc' \in InLine \cup {"exit"} /\ event' \in Nat /\ pc # "read" /\ pc' # "read"
          BY <1>5, <4>1 DEF InLine
        <4> QED BY <4>1, <4>2
      <3>5. CASE NoEventBefore
        <4>1. pc = "events" /\ pc' = "events" /\ UNCHANGED <<line, processesInfo, event>>
          BY <3>5 DEF NoEventBefore, Undefined, fileVars
        <4> QED BY <1>5, <4>1 DEF InLine
      <3> QED BY <1>7, <3>1, <3>2, <3>3, <3>4, <3>5
    <2>2. line \in ProcessLines
      BY <1>1, <2>1 DEF FileInvariant, FileFollowed
    <2>3. file[line].events \in Nat
      <3>1. file[line] \in Line
        BY <1>4, <2>2, LenProperties DEF FileOK, ProcessLines
      <3> QED BY <3>1 DEF Line
    <2>4. FileOK'
      BY <1>1, <1>2, <1>4, <1>5, <2>1, SameFile DEF FileOK
    <2>5. pc' \notin Early \cup Ready \cup {"count"}
      BY <2>1 DEF Early, Parsers, Ready, InLine
    <2>6. pc' = "events" =>
            /\ file[line].fields /\ file[line].list # "missing" /\ event' <= file[line].events
            /\ (file[line].list \in {"noBracket", "empty"} => event' = 0)
      BY <1>5, <2>1, <2>3 DEF FileInvariant, FileFollowed, MoreEvents
    <2>7. ToSet(processesInfo)' = ToSet(processesInfo)
      BY <2>1, InfoStays
    <2>8. FileFollowed'
      BY <1>1, <1>4, <1>5, <2>1, <2>2, <2>5, <2>6, <2>7 DEF FileFollowed, Ready
    <2> QED BY <2>4, <2>8 DEF FileInvariant
  <1>8. CASE LineRead
    <2>1. /\ pc = "events" /\ line \in ProcessLines /\ file[line].fields
          /\ file[line].list # "missing" /\ event' = event
      BY <1>8 DEF LineRead, FileInvariant, FileFollowed, InLine
    <2>2. line \in 1..Len(file) /\ file[line] \in Line /\ ~file[line].skipped
      BY <1>4, <1>5, <2>1, LenProperties DEF FileOK, ProcessLines
    <2>3. CASE UNCHANGED <<pc, line, processesInfo>>
      <3>1. FileOK'
        BY <1>1, <1>2, <1>4, <1>5, <2>1, <2>3, SameFile DEF FileOK
      <3>2. ToSet(processesInfo)' = ToSet(processesInfo)
        BY <2>3, InfoStays
      <3>3. "events" \notin Early \cup Ready
        BY DEF Early, Parsers, Ready
      <3>4. event <= file[line].events /\ (file[line].list \in {"noBracket", "empty"} => event = 0)
        BY <2>1 DEF FileInvariant, FileFollowed
      <3>6. LinesBelow(line)' = LinesBelow(line) /\ "events" \in InLine
        BY <1>5, <2>3 DEF InLine
      <3>7. /\ Len(file)' = Len(file) /\ Len(processesInfo)' = Len(processesInfo)
            /\ counted' = counted /\ line' = line /\ pc' = "events"
            /\ Cardinality(LinesBelow(line))' = Cardinality(LinesBelow(line))
            /\ Cardinality(ProcessLines)' = Cardinality(ProcessLines)
        BY <1>1, <1>5, <2>1, <2>3, <3>6
      <3>5. FileFollowed'
        <4>1. /\ counted' = Cardinality(ProcessLines)' /\ ToSet(processesInfo)' = LinesBelow(line)'
              /\ Len(processesInfo)' = Cardinality(LinesBelow(line))'
              /\ Len(processesInfo)' <= counted' /\ Len(processesInfo)' <= Len(file)'
              /\ counted' <= Len(file)' /\ consumed' = {} /\ step' = 1
          BY <1>1, <1>4, <3>2, <3>6, <3>7
        <4>2. line' \in ProcessLines' /\ file'[line'].fields /\ file'[line'].list # "missing"
          BY <1>1, <1>5, <2>1, <2>3
        <4>3. event' <= file'[line'].events /\ (file'[line'].list \in {"noBracket", "empty"} => event' = 0)
          BY <1>1, <2>1, <2>3, <3>4
        <4> QED BY <3>3, <3>6, <3>7, <4>1, <4>2, <4>3 DEF FileFollowed
      <3> QED BY <3>1, <3>5 DEF FileInvariant
    <2>4. CASE /\ file[line].list # "open" /\ processesInfo' = Append(processesInfo, line)
               /\ line' = line + 1 /\ pc' = "read"
      <3> DEFINE n == Len(processesInfo)
      <3>1. /\ processesInfo' \in Seq(ProcessLines) /\ Len(processesInfo') = n + 1
            /\ processesInfo'[n + 1] = line
            /\ \A k \in 1..n : processesInfo'[k] = processesInfo[k]
            /\ Procs = 1..n /\ Procs' = 1..(n + 1)
        <4>1. processesInfo \in Seq(ProcessLines)
          BY <1>4 DEF FileOK
        <4>2. /\ processesInfo' \in Seq(ProcessLines) /\ Len(processesInfo') = n + 1
              /\ processesInfo'[n + 1] = line
              /\ \A k \in 1..n : processesInfo'[k] = processesInfo[k]
          BY <2>1, <2>4, <4>1, AppendProperties
        <4> QED BY <4>1, <4>2, LenProperties DEF Procs
      <3>2. \A k \in 1..n : processesInfo[k] \in LinesBelow(line)
        BY <1>4, <3>1 DEF ToSet, Procs
      <3>3. \A k \in 1..n : processesInfo[k] < line
        BY <3>2 DEF LinesBelow
      <3>4. file[line].list \in {"closed", "empty"}
        <4>1. file[line].list = "noBracket" => event = 0
          BY <2>1 DEF FileInvariant, FileFollowed
        <4>2. file[line].events \in Nat \ {0}
          BY <2>2 DEF Line
        <4>3. file[line].list # "noBracket"
          BY <1>8, <4>1, <4>2 DEF LineRead, MoreEvents
        <4> QED BY <2>1, <2>2, <2>4, <4>3 DEF Line
      <3>5. FileOK'
        <4>1. \A j, k \in 1..(n + 1) : j < k => processesInfo'[j] < processesInfo'[k]
          <5>1. SUFFICES ASSUME NEW j \in 1..(n + 1), NEW k \in 1..(n + 1), j < k
                         PROVE  processesInfo'[j] < processesInfo'[k]
            OBVIOUS
          <5>2. j \in 1..n /\ (k \in 1..n \/ k = n + 1)
            BY <1>5, <5>1
          <5>3. \A x, y \in 1..n : x < y => processesInfo[x] < processesInfo[y]
            BY <1>4, <3>1 DEF FileOK
          <5>4. processesInfo'[j] = processesInfo[j]
            BY <3>1, <5>2
          <5>5. CASE k \in 1..n
            <6>1. processesInfo'[k] = processesInfo[k]
              BY <3>1, <5>5
            <6> QED BY <5>1, <5>2, <5>3, <5>4, <5>5, <6>1
          <5>6. CASE k = n + 1
            BY <3>1, <3>3, <5>2, <5>4, <5>6
          <5> QED BY <5>2, <5>5, <5>6
        <4>2. \A k \in 1..(n + 1) : /\ file[processesInfo'[k]].fields
                                   /\ file[processesInfo'[k]].list \in {"closed", "empty"}
          <5>1. \A k \in 1..n : /\ file[processesInfo[k]].fields
                               /\ file[processesInfo[k]].list \in {"closed", "empty"}
            BY <1>4, <3>1 DEF FileOK
          <5>2. \A k \in 1..(n + 1) : k \in 1..n \/ k = n + 1
            BY <1>5
          <5> QED BY <2>1, <3>1, <3>4, <5>1, <5>2
        <4>3. line' \in 1..(Len(file) + 1)
          BY <2>2, <2>4
        <4> QED BY <1>1, <1>2, <1>4, <1>5, <2>1, <3>1, <4>1, <4>2, <4>3 DEF FileOK
      <3>6. /\ LinesBelow(line)' = LinesBelow(line) \cup {line}
            /\ Cardinality(LinesBelow(line))' = Len(processesInfo')
            /\ Cardinality(LinesBelow(line))' <= Cardinality(ProcessLines)
            /\ Cardinality(ProcessLines) <= Len(file)
        BY <1>4, <1>5, <2>2, <2>4, <3>1, LinesCounted
      <3>7. ToSet(processesInfo)' = LinesBelow(line)'
        <4>1. ToSet(processesInfo) = {processesInfo[k] : k \in 1..n}
          BY <3>1 DEF ToSet, Procs
        <4>2. ToSet(processesInfo)' = {processesInfo'[k] : k \in 1..(n + 1)}
          BY <3>1 DEF ToSet, Procs
        <4>3. \A k \in 1..(n + 1) : k \in 1..n \/ k = n + 1
          BY <1>5
        <4>4. 1..n \subseteq 1..(n + 1) /\ n + 1 \in 1..(n + 1)
          BY <1>5
        <4>5. {processesInfo'[k] : k \in 1..(n + 1)} = {processesInfo[k] : k \in 1..n} \cup {line}
          <5> HIDE DEF n
          <5> QED BY <3>1, <4>3, <4>4
        <4> QED BY <1>4, <3>6, <4>1, <4>2, <4>5
      <3>8. "read" \notin Early \cup InLine \cup Ready
        BY DEF InLine, Early, Parsers, Ready
      <3>9. FileFollowed'
        BY <1>1, <1>4, <1>5, <2>4, <3>6, <3>7, <3>8 DEF FileFollowed
      <3> QED BY <3>5, <3>9 DEF FileInvariant
    <2> QED BY <1>8, <2>3, <2>4 DEF LineRead, Undefined
  <1>9. CASE FileRead
    <2>1. /\ pc' = "statsArray" /\ line = Len(file) + 1
          /\ UNCHANGED <<line, event, processesInfo, fault>>
      BY <1>5, <1>9 DEF FileRead, fileVars
    <2>2. FileOK'
      BY <1>1, <1>2, <1>4, <1>5, <2>1, SameFile DEF FileOK
    <2>3. LinesBelow(line) = ProcessLines
      BY <1>4, <2>1, LinesCounted
    <2>4. "statsArray" \notin Early \cup InLine \cup {"count", "read", "launch"}
      BY DEF InLine, Early, Parsers
    <2>5. ToSet(processesInfo)' = ToSet(processesInfo)
      BY <2>1, InfoStays
    <2>6. FileFollowed'
      BY <1>1, <1>4, <1>5, <2>1, <2>3, <2>4, <2>5 DEF FileFollowed
    <2> QED BY <2>2, <2>6 DEF FileInvariant
  <1> QED BY <1>6, <1>7, <1>8, <1>9

LEMMA LateKeepsFile ==
  ASSUME ArgumentInvariant, FileInvariant, Running, UNCHANGED argv, MainSteps,
         \/ SetNbProcessesInStats \/ Launch \/ Simulate \/ FreeAll
  PROVE  FileInvariant'
  <1>1. /\ pc \in Ready /\ UNCHANGED <<argv, file, line, counted, processesInfo, event>>
        /\ fault = "none" /\ pc' \in Ready \cup {"exit"}
        /\ pc' = "statsArray" => pc = "statsArray"
    BY DEF SetNbProcessesInStats, Launch, Simulate, FreeAll, Running, fileVars, Ready, GiveUp,
           Exit, Undefined, Allocate
  <1>2. failures' \in 0..MaxFailures /\ fault' \in Faults
    BY FailuresTyped DEF FileInvariant
  <1>3. /\ pc \notin Early \cup InLine \cup {"count", "read"}
        /\ pc' \notin Early \cup InLine \cup {"count", "read"}
    BY <1>1 DEF InLine, Early, Parsers, Ready
  <1>4. /\ FileOK /\ ToSet(processesInfo) = ProcessLines /\ Len(processesInfo) = counted
        /\ counted <= Len(file) /\ step \in Nat \ {0} /\ Len(processesInfo) \in Nat
    BY <1>1, LenProperties DEF FileInvariant, FileFollowed, FileOK
  <1>5. step' \in Nat \ {0}
    BY <1>4 DEF SetNbProcessesInStats, Launch, Simulate, FreeAll, fileVars
  <1>6. FileOK'
    BY <1>1, <1>2, <1>4, <1>5, SameFile DEF FileOK
  <1>7. MandatoryOptions /\ argv \in CommandLine
    BY <1>1, <1>3 DEF ArgumentInvariant, ControlOK, Early, Ready
  <1>8. Len(LaunchBlocks) \in Nat \ {0}
    <2>1. /\ argv.queues \in Nat \ {0} /\ argv.cores \in Nat \ {0}
          /\ Len(LaunchBlocks) = argv.queues + argv.cores + 9 + Len(processesInfo)
      BY <1>4, <1>7, LaunchBlocksOrder DEF FileOK, InOrder
    <2> QED BY <1>4, <2>1
  <1>9. /\ ToSet(processesInfo)' = ToSet(processesInfo) /\ LaunchBlocks' = LaunchBlocks
        /\ ProcessLines' = ProcessLines
    BY <1>1, InfoStays, FileStays
  <1>10. pc' = "launch" /\ fault' = "none" => step' <= Len(LaunchBlocks)
    <2>1. CASE SetNbProcessesInStats
      <3>1. step' = 1
        BY <2>1 DEF SetNbProcessesInStats, fileVars, FileInvariant, FileFollowed
      <3> QED BY <1>8, <3>1
    <2>2. CASE Launch
      <3>1. step <= Len(LaunchBlocks) /\ step' = step + 1
        BY <1>1, <2>2 DEF Launch, FileInvariant, FileFollowed
      <3>2. pc' = "launch" /\ fault' = "none" => step # Len(LaunchBlocks)
        BY <2>2 DEF Launch, Allocate, Undefined
      <3> QED BY <1>4, <1>8, <3>1, <3>2
    <2>3. CASE Simulate \/ FreeAll
      BY <2>3 DEF Simulate, FreeAll, GiveUp, Exit, Undefined
    <2> QED BY <2>1, <2>2, <2>3
  <1>11. pc' \notin {"launch", "simulate", "end", "exit"} => step' = 1 /\ step = 1
    BY <1>1 DEF Ready, SetNbProcessesInStats, Launch, Simulate, FreeAll, fileVars, FileInvariant,
                FileFollowed, Undefined, GiveUp, Exit, Allocate
  <1>12. pc' \notin {"end", "exit"} => consumed' = {}
    BY <1>1 DEF Ready, SetNbProcessesInStats, Launch, Simulate, FreeAll, fileVars, FileInvariant,
                FileFollowed, Undefined, GiveUp, Exit, Allocate
  <1>13. FileFollowed'
    <2>1. pc' \notin Early /\ pc' \notin Early \cup {"count"} /\ pc' \notin {"read"} \cup InLine
      BY <1>3
    <2>2. /\ Len(file)' = Len(file) /\ Len(processesInfo)' = Len(processesInfo)
          /\ counted' = counted /\ Len(LaunchBlocks)' = Len(LaunchBlocks)
      BY <1>1, <1>9
    <2>3. /\ ToSet(processesInfo)' = ProcessLines' /\ Len(processesInfo)' = counted'
          /\ counted' <= Len(file)' /\ Len(processesInfo)' <= Len(file)'
          /\ Len(processesInfo)' <= counted'
      BY <1>4, <1>9, <2>2
    <2>4. pc' # "count" /\ pc' \notin InLine /\ pc' # "events"
      BY <1>3 DEF InLine
    <2> QED BY <1>3, <1>9, <1>10, <1>11, <1>12, <2>1, <2>2, <2>3, <2>4 DEF FileFollowed
  <1> QED BY <1>6, <1>13 DEF FileInvariant

LEMMA FileStep ==
  ASSUME ArgumentInvariant, FileInvariant, [Next]_vars
  PROVE  FileInvariant'
  <1>1. CASE ParseArguments /\ UNCHANGED fileVars
    <2>1. Running /\ argv' = argv
      BY <1>1 DEF ParseArguments, BadArguments, ArgumentsRead, TooManyLists, NewList, WriteBehind, NoArray,
                  NotAnAlgorithm, SetAlgorithmType, ReadOption, ListRead, ArgumentsParsed
    <2> QED BY <1>1, <2>1, EarlyKeepsFile
  <1>2. CASE Running /\ MainSteps /\ UNCHANGED parsedVars
    <2>1. argv' = argv
      BY <1>2 DEF parsedVars
    <2>2. UNCHANGED fileVars \/ ~(InitGraph \/ InitGraphDisk \/ InitStats \/ OpenFile)
      BY DEF InitGraph, InitGraphDisk, InitStats, OpenFile
    <2> QED BY <1>2, <2>1, <2>2, EarlyKeepsFile, CountKeepsFile, ReadKeepsFile, LateKeepsFile
            DEF MainSteps
  <1>3. CASE UNCHANGED vars
    <2>1. /\ UNCHANGED <<argv, file, line, counted, processesInfo, event, consumed, step>>
          /\ UNCHANGED <<pc, failures, fault>>
      BY <1>3 DEF vars, argumentVars, fileVars
    <2>2. FileOK'
      BY <2>1, SameFile DEF FileInvariant, FileOK
    <2>3. FileFollowed'
      BY <2>1, FileStays, InfoStays DEF FileInvariant, FileFollowed
    <2> QED BY <2>2, <2>3 DEF FileInvariant
  <1> QED BY <1>1, <1>2, <1>3 DEF Next

LEMMA FileInvariance == Spec => []FileInvariant
  <1>1. Init => FileInvariant
    BY FileAtFirst
  <1>2. ArgumentInvariant /\ FileInvariant /\ [Next]_vars => FileInvariant'
    BY FileStep
  <1> QED BY <1>1, <1>2, ArgumentInvariance, PTL DEF Spec

(* The second pass over the file reads the processes the first has counted, *)
(* in the order of the file, and never writes behind the array.            *)
THEOREM TheTwoPassesAgree == Spec => []PassesAgree
  <1>1. FileInvariant => PassesAgree
    BY DEF FileInvariant, FileOK, FileFollowed, PassesAgree, Ready
  <1> QED BY <1>1, FileInvariance, PTL

(* Every variable of the front end has its type.                           *)
THEOREM TypesAreKept == Spec => []TypeOK
  <1>1. ArgumentInvariant /\ FileInvariant => TypeOK
    <2>1. SUFFICES ASSUME ArgumentInvariant, FileInvariant PROVE TypeOK
      OBVIOUS
    <2>2. /\ Len(lists) <= Len(argv.options) /\ i \in 1..(Len(argv.options) + 1)
          /\ lists \in Seq(List) /\ overrun \in BOOLEAN
          /\ exitCode \in {"running", "failure", "success"}
      BY <2>1 DEF ArgumentInvariant, ControlOK, ListsOK
    <2>3. Len(file) \in Nat /\ DOMAIN file = 1..Len(file) /\ ProcessLines \subseteq DOMAIN file
      BY <2>1, LenProperties DEF FileInvariant, FileOK, ProcessLines
    <2>4. /\ line \in 1..(Len(file) + 1) /\ counted \in 0..Len(file) /\ event \in Nat
          /\ failures \in 0..MaxFailures
          /\ fault \in Faults
      BY <2>1, <2>3 DEF FileInvariant, FileOK, FileFollowed
    <2>5. processesInfo \in Seq(DOMAIN file)
      BY <2>1, <2>3, SeqMonotonic DEF FileInvariant, FileOK
    <2> QED BY <2>2, <2>4, <2>5 DEF TypeOK, List
  <1> QED BY <1>1, ArgumentInvariance, FileInvariance, PTL

-----------------------------------------------------------------------------
(* 3. The heap                                                             *)

OptionBlocks == Algorithms \cup AlgorithmBlocks(Len(lists))

\* The options that are left when freeScheduler has freed those of the queues.
BehindQueues == {<<"algorithm", q>> : q \in argv.queues..(Len(lists) - 1)}

StatsTags == {"stats", "statsArray", "processStats"}

\* What is allocated for the line that is being read.
LineBlocks ==
  IF pc \notin InLine THEN {}
  ELSE {<<"info", line>>} \cup (IF pc = "pcb" THEN {} ELSE {<<"pcb", line>>})
         \cup (IF pc = "events" THEN {<<"event", line, n>> : n \in 1..event} ELSE {})

\* What launchSimulation frees of its own.
ComputerBlocks == FreeComputer \ (Algorithms \cup AlgorithmBlocks(argv.queues))

Launched == {LaunchBlocks[j] : j \in 1..(step - 1)}

\* The processes whose first event is known.
Whole == {k \in Procs : file[processesInfo[k]].list # "empty"}

\* What is allocated at least.
Present ==
  /\ pc \in Parsers \cup (Mains \ {"end"}) /\ lists # <<>> =>
       AlgorithmBlocks(Len(lists)) \subseteq heap /\ Algorithms \subseteq heap
  /\ pc \in Mains \ {"graph"} => <<"graph">> \in heap
  /\ pc \in Mains \ {"graph", "graphDisk"} => <<"graphDisk">> \in heap
  /\ pc \in {"count", "read"} \cup InLine \cup Ready => <<"workload">> \in heap
  /\ pc \in {"read"} \cup InLine \cup Ready =>
       /\ <<"processesInfo">> \in heap
       /\ \A k \in Whole : ProcessBlocks(processesInfo[k]) \subseteq heap
  /\ LineBlocks \subseteq heap
  /\ pc = "launch" => Launched \subseteq heap
  /\ pc = "simulate" => ComputerBlocks \subseteq heap

\* What is allocated at most.
Bounded ==
  \A b \in heap :
    \/ b \in OptionBlocks /\ pc # "arguments"
    \/ b \in Graph /\ pc \in Mains \ {"graph"}
    \/ b[1] \in StatsTags /\ pc \in {"open", "count", "read"} \cup InLine \cup Ready
    \/ b \in Workload /\ pc \in {"count", "read"} \cup InLine \cup Ready
    \/ b \in LineBlocks
    \/ b \in Launched /\ pc = "launch"
    \/ b \in ComputerBlocks /\ pc = "simulate"
    \/ pc = "exit" /\ b \in {<<"event", line, n>> : n \in 1..event}

\* While no allocation has failed.
NothingMissing ==
  /\ pc \in Parsers => Algorithms \subseteq heap
  /\ pc \in {"launch", "simulate"} => <<"statsArray">> \in heap
  /\ pc = "simulate" => \A p \in Procs : <<"processStats", p>> \in heap
  /\ pc = "end" => heap \cap OptionBlocks = BehindQueues
  /\ exitCode = "success" => heap = BehindQueues

HeapInvariant ==
  fault = "none" => Present /\ Bounded /\ (failures = 0 => NothingMissing)

\* What a fault is due to.
FaultsExplained ==
  /\ fault = "freed" => Len(lists) < argv.queues
  /\ fault = "behind" => Cardinality(Beginnings) > argv.queues
  /\ fault \in {"null", "uninitialised"} => failures > 0 \/ ~GoodFile

\* The program frees too much only when all lists are read.
ReadWhenFreed == fault = "freed" => Len(lists) = Cardinality(Beginnings)

Consistent ==
  ArgumentInvariant /\ FileInvariant /\ HeapInvariant /\ FaultsExplained /\ ReadWhenFreed

\* What the sets of blocks depend on.
LEMMA BlocksStay ==
  ASSUME UNCHANGED <<argv, lists, file, processesInfo, consumed>>
  PROVE  /\ OptionBlocks' = OptionBlocks /\ BehindQueues' = BehindQueues
         /\ Workload' = Workload /\ ComputerBlocks' = ComputerBlocks /\ Whole' = Whole
         /\ \A k : ProcessBlocks(k)' = ProcessBlocks(k)
         /\ LaunchBlocks' = LaunchBlocks /\ Procs' = Procs
         /\ (step' = step => Launched' = Launched)
         /\ (UNCHANGED <<pc, line, event>> => LineBlocks' = LineBlocks)
  <1>1. Procs' = Procs /\ LaunchBlocks' = LaunchBlocks
    BY InfoStays
  <1>2. \A k : ProcessBlocks(k)' = ProcessBlocks(k)
    BY DEF ProcessBlocks, EventBlocks
  <1>3. Whole' = Whole /\ Workload' = Workload
    BY <1>1, <1>2 DEF Whole, Workload
  <1>4. OptionBlocks' = OptionBlocks /\ BehindQueues' = BehindQueues
    BY DEF OptionBlocks, BehindQueues, AlgorithmBlocks
  <1>5. ComputerBlocks' = ComputerBlocks
    BY DEF ComputerBlocks, FreeComputer, FreeScheduler, FreeCPU, AlgorithmBlocks
  <1>6. step' = step => Launched' = Launched
    BY <1>1 DEF Launched
  <1>7. UNCHANGED <<pc, line, event>> => LineBlocks' = LineBlocks
    BY DEF LineBlocks
  <1> QED BY <1>1, <1>2, <1>3, <1>4, <1>5, <1>6, <1>7

LEMMA GoodFileStays ==
  ASSUME file' = file
  PROVE  GoodFile' <=> GoodFile
  BY DEF GoodFile, ProcessLines

OptionTags   == {"algorithms", "algorithm"}
GraphTags    == {"graph", "graphDisk"}
FileTags     == {"workload", "processesInfo", "info", "pcb", "event"}
ComputerTags == {"scheduler", "readyQueues", "readyQueue", "waitingQueues", "waitingQueue",
                 "queuesSizesBeforeRR", "cpu", "cores", "core", "disk", "computer"}

\* Blocks of different kinds are different.
LEMMA BlockTags ==
  /\ \A b \in Algorithms : b[1] \in OptionTags
  /\ \A n : \A b \in AlgorithmBlocks(n) : b[1] \in OptionTags
  /\ \A b \in OptionBlocks : b[1] \in OptionTags
  /\ \A b \in BehindQueues : b[1] \in OptionTags
  /\ \A b \in Graph : b[1] \in GraphTags
  /\ \A k : \A b \in ProcessBlocks(k) : b[1] \in FileTags
  /\ \A b \in Workload : b[1] \in FileTags
  /\ \A b \in LineBlocks : b[1] \in FileTags
  /\ \A b \in Stats : b[1] \in StatsTags
  <1>1. \A b \in Algorithms : b[1] \in OptionTags
    BY DEF Algorithms, OptionTags
  <1>2. \A n : \A b \in AlgorithmBlocks(n) : b[1] \in OptionTags
    BY DEF AlgorithmBlocks, OptionTags
  <1>3. \A b \in OptionBlocks : b[1] \in OptionTags
    BY <1>1, <1>2 DEF OptionBlocks
  <1>4. \A b \in BehindQueues : b[1] \in OptionTags
    BY DEF BehindQueues, OptionTags
  <1>5. \A b \in Graph : b[1] \in GraphTags
    BY DEF Graph, GraphTags
  <1>6. \A k : \A b \in ProcessBlocks(k) : b[1] \in FileTags
    BY DEF ProcessBlocks, EventBlocks, FileTags
  <1>7. \A b \in Workload : b[1] \in FileTags
    BY <1>6 DEF Workload, FileTags
  <1>8. \A b \in LineBlocks : b[1] \in FileTags
    BY DEF LineBlocks, FileTags
  <1>9. \A b \in Stats : b[1] \in StatsTags
    BY DEF Stats, StatsTags
  <1> QED BY <1>1, <1>2, <1>3, <1>4, <1>5, <1>6, <1>7, <1>8, <1>9

LEMMA TagsDiffer ==
  /\ OptionTags \cap GraphTags = {} /\ OptionTags \cap FileTags = {} /\ OptionTags \cap StatsTags = {}
  /\ OptionTags \cap ComputerTags = {} /\ GraphTags \cap FileTags = {} /\ GraphTags \cap StatsTags = {}
  /\ GraphTags \cap ComputerTags = {} /\ FileTags \cap StatsTags = {} /\ FileTags \cap ComputerTags = {}
  /\ StatsTags \cap ComputerTags = {}
  BY DEF OptionTags, GraphTags, FileTags, StatsTags, ComputerTags

\* One more list.
LEMMA NextAlgorithm ==
  ASSUME NEW n \in Nat
  PROVE  /\ AlgorithmBlocks(n + 1) = AlgorithmBlocks(n) \cup {<<"algorithm", n>>}
         /\ \A m \in Int : m <= n => AlgorithmBlocks(m) \subseteq AlgorithmBlocks(n)
         /\ AlgorithmBlocks(0) = {}
  <1>1. \A k : k \in 0..((n + 1) - 1) <=> k \in 0..(n - 1) \/ k = n
    OBVIOUS
  <1>2. \A m \in Int : m <= n => 0..(m - 1) \subseteq 0..(n - 1)
    OBVIOUS
  <1>3. 0..(0 - 1) = {}
    OBVIOUS
  <1> QED BY <1>1, <1>2, <1>3 DEF AlgorithmBlocks

-----------------------------------------------------------------------------
(* parseArguments allocates the options and nothing else.                  *)

LEMMA ParserHeap ==
  ASSUME Bounded, pc \in {"arguments", "graph"} \cup Parsers
  PROVE  /\ heap \subseteq OptionBlocks
         /\ pc = "arguments" => heap = {}
  <1>1. pc \notin Mains \ {"graph"} /\ pc \notin {"launch", "simulate", "exit"} /\ LineBlocks = {}
        /\ pc \notin {"count", "read"} \cup InLine \cup Ready
        /\ pc \notin {"open", "count", "read"} \cup InLine \cup Ready
    BY DEF Parsers, Mains, LineBlocks, InLine, Ready
  <1>2. ASSUME NEW b \in heap PROVE b \in OptionBlocks /\ pc # "arguments"
    BY <1>1, <1>2 DEF Bounded
  <1> QED BY <1>2

LEMMA ParserHeapNext ==
  ASSUME pc' \in {"graph", "exit"} \cup Parsers, heap' \subseteq OptionBlocks',
         pc' # "exit" /\ lists' # <<>> => OptionBlocks' \subseteq heap',
         failures' = 0 /\ pc' \in Parsers => Algorithms \subseteq heap',
         exitCode' # "success"
  PROVE  HeapInvariant'
  <1>1. LineBlocks' = {}
    BY DEF LineBlocks, InLine, Parsers
  <1>2. Present'
    BY <1>1 DEF Present, OptionBlocks, Parsers, Mains, InLine, Ready
  <1>3. Bounded'
    BY DEF Bounded, Parsers
  <1>4. failures' = 0 => NothingMissing'
    BY DEF NothingMissing, Parsers
  <1> QED BY <1>2, <1>3, <1>4 DEF HeapInvariant

LEMMA ParserExit ==
  ASSUME pc' = "exit", exitCode' = "failure", heap' \subseteq OptionBlocks'
  PROVE  HeapInvariant'
  <1>1. "exit" \notin Parsers
    BY DEF Parsers
  <1> QED BY <1>1, ParserHeapNext

\* A list behind the array: there are more of them than queues.
LEMMA ListBehind ==
  ASSUME ArgumentInvariant, WriteBehind
  PROVE  Cardinality(Beginnings) > argv.queues
  <1>1. pc = "lists" /\ OptionsLeft /\ Len(lists) = argv.queues
    BY DEF WriteBehind
  <1>2. argv \in CommandLine /\ ListsOK /\ ReadAsWritten /\ argv.queues >= 1
    BY <1>1 DEF ArgumentInvariant, ControlOK, MandatoryOptions
  <1>3. argv.queues \in Int /\ i \in DOMAIN argv.options /\ i \in Int
    <2>1. i \in 1..Len(argv.options)
      BY <1>1, <1>2, BeginningsAreFinite DEF ListsOK, OptionsLeft
    <2> QED BY <1>2, <2>1, BeginningsAreFinite DEF CommandLine
  <1>4. lists # <<>>
    BY <1>1, <1>2, EmptySeq
  <1>5. i \in Beginnings /\ i \notin BegunBelow(i)
    BY <1>1, <1>2, <1>3, <1>4 DEF ReadAsWritten, Beginnings, BegunBelow
  <1>6. /\ IsFiniteSet(Beginnings) /\ IsFiniteSet(BegunBelow(i))
        /\ Cardinality(Beginnings) \in Nat /\ Cardinality(BegunBelow(i)) \in Nat
    BY <1>2, BeginningsAreFinite DEF BegunBelow
  <1>7. Cardinality(BegunBelow(i)) = argv.queues
    BY <1>1, <1>2, <1>6 DEF ReadAsWritten
  <1>8. BegunBelow(i) \subseteq Beginnings /\ BegunBelow(i) # Beginnings
    BY <1>5 DEF BegunBelow
  <1>9. /\ Cardinality(BegunBelow(i)) <= Cardinality(Beginnings)
        /\ Cardinality(BegunBelow(i)) # Cardinality(Beginnings)
    BY <1>6, <1>8, FS_Subset, Zenon
  <1> QED BY <1>3, <1>6, <1>7, <1>9

LEMMA ParseKeepsHeap ==
  ASSUME Consistent, ParseArguments, UNCHANGED fileVars
  PROVE  HeapInvariant' /\ FaultsExplained' /\ fault' # "freed"
  <1>1. /\ Running /\ fault = "none" /\ exitCode = "running" /\ ListsOK /\ ControlOK
        /\ Present /\ Bounded /\ (failures = 0 => NothingMissing) /\ failures \in Nat
        /\ pc # "arguments" => MandatoryOptions
    BY DEF ParseArguments, Running, Consistent, ArgumentInvariant, ControlOK, HeapInvariant,
           FileInvariant, FileOK, BadArguments, ArgumentsRead, TooManyLists, NewList, WriteBehind, NoArray,
           NotAnAlgorithm, SetAlgorithmType, ReadOption, ListRead, ArgumentsParsed
  <1>2. pc \in {"arguments"} \cup Parsers
    BY DEF ParseArguments, BadArguments, ArgumentsRead, TooManyLists, NewList, WriteBehind, NoArray,
           NotAnAlgorithm, SetAlgorithmType, ReadOption, ListRead, ArgumentsParsed, Parsers
  <1>3. heap \subseteq OptionBlocks /\ (pc = "arguments" => heap = {})
    BY <1>1, <1>2, ParserHeap
  <1>4. /\ Len(lists) \in Nat /\ (lists = <<>> <=> Len(lists) = 0)
        /\ OptionBlocks = Algorithms \cup AlgorithmBlocks(Len(lists))
    BY <1>1, LenProperties, EmptySeq DEF ListsOK, OptionBlocks
  <1>5. pc \in Parsers /\ lists # <<>> => OptionBlocks \subseteq heap
    BY <1>1 DEF Present, OptionBlocks
  <1>6. AlgorithmBlocks(0) = {}
    BY NextAlgorithm
  <1>7. file' = file
    BY DEF fileVars
  <1>8. CASE BadArguments
    <2>1. pc = "arguments" /\ UNCHANGED <<heap, fault, failures, lists>> /\ pc' = "exit" /\ exitCode' = "failure"
      BY <1>8 DEF BadArguments, Exit
    <2>2. HeapInvariant'
      BY <1>3, <2>1, ParserExit
    <2> QED BY <1>1, <2>1, <2>2 DEF FaultsExplained
  <1>9. CASE ArgumentsRead
    <2>1. /\ pc = "arguments" /\ UNCHANGED <<fault, lists, exitCode>> /\ pc' = "lists"
          /\ lists = <<>>
          /\ \/ heap' = heap \cup {<<"algorithms">>} /\ failures' = failures
             \/ heap' = heap /\ failures' = failures + 1
      BY <1>1, <1>9 DEF ArgumentsRead, Allocated, AllocationFails, ListsOK
    <2>2. heap' \subseteq OptionBlocks'
      BY <1>3, <2>1 DEF OptionBlocks, Algorithms
    <2>3. failures' = 0 => Algorithms \subseteq heap'
      BY <1>1, <2>1 DEF Algorithms
    <2>4. "lists" \in Parsers
      BY DEF Parsers
    <2>5. HeapInvariant'
      BY <1>1, <2>1, <2>2, <2>3, <2>4, ParserHeapNext
    <2> QED BY <1>1, <2>1, <2>5 DEF FaultsExplained
  <1>10. CASE TooManyLists \/ NotAnAlgorithm
    <2>1. /\ pc \in Parsers /\ UNCHANGED <<lists, failures>> /\ pc' = "exit" /\ exitCode' = "failure"
          /\ Freed(AlgorithmBlocks(Len(lists)) \cup Algorithms)
      BY <1>10 DEF TooManyLists, NotAnAlgorithm, Exit, Parsers
    <2>2. lists # <<>>
      <3>1. CASE NotAnAlgorithm
        BY <1>1, <3>1 DEF NotAnAlgorithm, ListsOK
      <3>2. CASE TooManyLists
        <4>1. argv.queues \in Int /\ argv.queues >= 1 /\ Len(lists) > argv.queues
          BY <1>1, <3>2 DEF TooManyLists, TooMany, MandatoryOptions, ControlOK, CommandLine
        <4> QED BY <1>4, <4>1
      <3> QED BY <1>10, <3>1, <3>2
    <2>3. heap' \subseteq OptionBlocks' /\ fault' = "none"
      BY <1>3, <1>4, <1>5, <2>1, <2>2 DEF Freed, OptionBlocks
    <2>4. HeapInvariant'
      BY <2>1, <2>3, ParserExit
    <2> QED BY <2>3, <2>4 DEF FaultsExplained
  <1>11. CASE NewList
    <2>1. /\ pc = "lists" /\ pc \in Parsers /\ Algorithms \subseteq heap
      BY <1>11 DEF NewList, Parsers
    <2>2. OptionBlocks \subseteq heap
      BY <1>4, <1>5, <1>6, <2>1
    <2>3. CASE /\ Allocated(<<"algorithm", Len(lists)>>) /\ UNCHANGED exitCode
               /\ lists' = Append(lists, Default) /\ pc' = "algorithm"
      <3>1. Default \in List
        BY DEF Default, List, AlgorithmTypes, NO_LIMIT
      <3>2. Len(lists') = Len(lists) + 1
        BY <1>1, <2>3, <3>1, AppendProperties DEF ListsOK
      <3>3. OptionBlocks' = OptionBlocks \cup {<<"algorithm", Len(lists)>>}
        BY <1>4, <3>2, NextAlgorithm DEF OptionBlocks
      <3>4. heap' = heap \cup {<<"algorithm", Len(lists)>>} /\ fault' = "none"
        BY <1>1, <2>3 DEF Allocated
      <3>5. "algorithm" \in Parsers
        BY DEF Parsers
      <3>6. HeapInvariant'
        BY <1>1, <1>3, <2>1, <2>2, <2>3, <3>3, <3>4, <3>5, ParserHeapNext
      <3> QED BY <3>4, <3>6 DEF FaultsExplained
    <2>4. CASE /\ Freed(AlgorithmBlocks(Len(lists)) \cup Algorithms) /\ Exit("failure")
               /\ UNCHANGED lists
      <3>1. heap' \subseteq OptionBlocks' /\ fault' = "none"
        BY <1>3, <1>4, <2>2, <2>4 DEF Freed, OptionBlocks
      <3>2. HeapInvariant'
        BY <2>4, <3>1, ParserExit DEF Exit
      <3> QED BY <3>1, <3>2 DEF FaultsExplained
    <2> QED BY <1>11, <2>3, <2>4 DEF NewList
  <1>12. CASE NoArray
    <2>1. pc \in Parsers /\ ~(Algorithms \subseteq heap) /\ fault' = "null" /\ failures' = failures
      BY <1>12 DEF NoArray, Parsers
    <2>2. failures > 0
      BY <1>1, <2>1 DEF NothingMissing
    <2> QED BY <2>1, <2>2 DEF HeapInvariant, FaultsExplained
  <1>13. CASE WriteBehind
    <2>1. fault' = "behind" /\ argv' = argv
      BY <1>13 DEF WriteBehind
    <2>2. (Cardinality(Beginnings) > argv.queues)'
      BY <1>13, <2>1, ListBehind DEF Consistent, Beginnings
    <2> QED BY <2>1, <2>2 DEF HeapInvariant, FaultsExplained
  <1>14. CASE SetAlgorithmType \/ ReadOption \/ ListRead \/ ArgumentsParsed
    <2>1. /\ pc \in Parsers /\ UNCHANGED <<heap, fault, failures>>
          /\ \/ pc' = "exit" /\ exitCode' = "failure" /\ lists' = lists
             \/ /\ pc' \in Parsers \cup {"graph"} /\ exitCode' = "running"
                /\ Len(lists') = Len(lists)
      <3>1. CASE SetAlgorithmType
        <4>1. CASE argv.options[i].type \in AlgorithmTypes
          <5>1. lists' = [lists EXCEPT ![Len(lists)].type = argv.options[i].type] /\ pc' = "options"
                /\ UNCHANGED exitCode
            BY <3>1, <4>1 DEF SetAlgorithmType
          <5>2. Len(lists') = Len(lists)
            BY <1>1, <5>1 DEF ListsOK
          <5> QED BY <1>1, <3>1, <5>1, <5>2 DEF SetAlgorithmType, Parsers
        <4>2. CASE ~(argv.options[i].type \in AlgorithmTypes)
          BY <3>1, <4>2 DEF SetAlgorithmType, Exit, Parsers
        <4> QED BY <4>1, <4>2
      <3>2. CASE ReadOption
        <4>1. CASE argv.options[i].option # "unknown"
          <5>1. lists' = [lists EXCEPT ![Len(lists)] = WithOption(@, argv.options[i])]
                /\ UNCHANGED <<pc, exitCode>>
            BY <3>2, <4>1 DEF ReadOption
          <5>2. Len(lists') = Len(lists)
            BY <1>1, <5>1 DEF ListsOK
          <5> QED BY <1>1, <3>2, <5>1, <5>2 DEF ReadOption, Parsers
        <4>2. CASE argv.options[i].option = "unknown"
          BY <3>2, <4>2 DEF ReadOption, Exit, Parsers
        <4> QED BY <4>1, <4>2
      <3>3. CASE ListRead \/ ArgumentsParsed
        BY <1>1, <3>3 DEF ListRead, ArgumentsParsed, Parsers
      <3> QED BY <1>14, <3>1, <3>2, <3>3
    <2>2. OptionBlocks' = OptionBlocks
      BY <2>1 DEF OptionBlocks
    <2>3. lists' # <<>> /\ pc' # "exit" => lists # <<>>
      <3>1. SUFFICES ASSUME Len(lists') = Len(lists), lists = <<>> PROVE lists' = <<>>
        BY <2>1
      <3>2. lists' \in Seq(List)
        BY <1>1, ParseKeepsArguments DEF Consistent, ArgumentInvariant, ListsOK
      <3> QED BY <1>4, <3>1, <3>2, EmptySeq
    <2>4. failures' = 0 => Algorithms \subseteq heap'
      BY <1>1, <2>1 DEF NothingMissing
    <2>5. HeapInvariant'
      BY <1>3, <1>5, <2>1, <2>2, <2>3, <2>4, ParserHeapNext
    <2> QED BY <1>1, <2>1, <2>5 DEF FaultsExplained
  <1> QED BY <1>8, <1>9, <1>10, <1>11, <1>12, <1>13, <1>14 DEF ParseArguments

-----------------------------------------------------------------------------
(* main, up to the simulation                                              *)

\* What a step of main starts with, and what it does not change.
LEMMA MainStart ==
  ASSUME Consistent, Running, MainSteps, UNCHANGED parsedVars
  PROVE  /\ fault = "none" /\ exitCode = "running" /\ pc \in Mains /\ lists # <<>>
         /\ Present /\ Bounded /\ (failures = 0 => NothingMissing) /\ failures \in Nat
         /\ UNCHANGED <<argv, lists>> /\ file' = file
         /\ OptionBlocks' = OptionBlocks /\ (pc # "end" => OptionBlocks \subseteq heap)
         /\ (GoodFile' <=> GoodFile) /\ argv \in CommandLine /\ MandatoryOptions
         /\ FileOK /\ FileFollowed
  <1>1. /\ fault = "none" /\ exitCode = "running" /\ pc \in Mains
        /\ Present /\ Bounded /\ (failures = 0 => NothingMissing) /\ FileOK /\ FileFollowed
        /\ ListsOK /\ ControlOK
    BY MainControl DEF Running, Consistent, ArgumentInvariant, FileInvariant, HeapInvariant
  <1>2. UNCHANGED <<argv, lists>> /\ file' = file
    BY DEF parsedVars, MainSteps, fileVars, InitGraph, InitGraphDisk, InitStats,
           OpenFile, CountLine, LineTooLong, ProcessesInfo, SkipLine, ReadInfo, ReadPCB,
           ReadFields, ReadEvent, NoEventBefore, LineRead, FileRead, SetNbProcessesInStats, Launch, Simulate,
           FreeAll
  <1>3. lists # <<>> /\ MandatoryOptions /\ argv \in CommandLine /\ failures \in Nat
    <2>1. {"arguments", "exit"} \cap Mains = {}
      BY DEF Mains
    <2> QED BY <1>1, <2>1 DEF ListsOK, ControlOK, FileOK
  <1>4. pc # "end" => OptionBlocks \subseteq heap
    BY <1>1, <1>3 DEF Present, OptionBlocks
  <1>5. OptionBlocks' = OptionBlocks
    BY <1>2 DEF OptionBlocks
  <1> QED BY <1>1, <1>2, <1>3, <1>4, <1>5, GoodFileStays

\* A step of main that only allocates a block and goes on, or goes on without.
LEMMA StartsKeepHeap ==
  ASSUME Consistent, Running, MainSteps, UNCHANGED parsedVars,
         InitGraph \/ InitGraphDisk \/ InitStats \/ OpenFile
  PROVE  HeapInvariant' /\ FaultsExplained'
  <1>1. /\ fault = "none" /\ exitCode = "running" /\ lists # <<>> /\ failures \in Nat
        /\ Present /\ Bounded /\ (failures = 0 => NothingMissing)
        /\ UNCHANGED <<argv, lists>> /\ file' = file
        /\ OptionBlocks' = OptionBlocks /\ (GoodFile' <=> GoodFile)
    BY MainStart
  <1>2. pc \in {"graph", "graphDisk", "stats", "open"} /\ UNCHANGED fileVars
    BY DEF InitGraph, InitGraphDisk, InitStats, OpenFile
  <1>3. UNCHANGED <<argv, lists, file, processesInfo, consumed>>
    BY <1>1, <1>2 DEF fileVars
  <1>4. OptionBlocks \subseteq heap
    BY <1>2, MainStart
  <1>5. LineBlocks = {} /\ Workload' = Workload
    BY <1>2, <1>3, BlocksStay DEF LineBlocks, InLine
  <1>6. /\ pc = "graph" => heap \subseteq OptionBlocks
        /\ pc \in {"graphDisk", "stats"} => heap \subseteq OptionBlocks \cup Graph
        /\ pc = "open" => \A b \in heap : b \in OptionBlocks \cup Graph \/ b[1] \in StatsTags
    BY <1>1, <1>2, <1>5 DEF Bounded, InLine, Ready, Mains
  <1>7. /\ pc \in {"graphDisk", "stats", "open"} => <<"graph">> \in heap
        /\ pc \in {"stats", "open"} => <<"graphDisk">> \in heap
    BY <1>1, <1>2 DEF Present, Mains
  <1>8. CASE \/ InitGraph /\ Allocate(<<"graph">>, "graphDisk")
             \/ InitGraphDisk /\ Allocate(<<"graphDisk">>, "stats")
             \/ InitStats /\ Allocate(<<"stats">>, "open")
             \/ OpenFile /\ Allocate(<<"workload">>, "count")
    <2>1. /\ UNCHANGED <<fault, failures, exitCode>>
          /\ \/ pc = "graph" /\ heap' = heap \cup {<<"graph">>} /\ pc' = "graphDisk"
             \/ pc = "graphDisk" /\ heap' = heap \cup {<<"graphDisk">>} /\ pc' = "stats"
             \/ pc = "stats" /\ heap' = heap \cup {<<"stats">>} /\ pc' = "open"
             \/ pc = "open" /\ heap' = heap \cup {<<"workload">>} /\ pc' = "count"
      BY <1>8 DEF InitGraph, InitGraphDisk, InitStats, OpenFile, Allocate, Allocated
    <2>2. LineBlocks' = {} /\ pc' \in {"graphDisk", "stats", "open", "count"}
      BY <2>1 DEF LineBlocks, InLine
    <2>3. Present'
      <3>1. OptionBlocks' \subseteq heap'
        BY <1>1, <1>4, <2>1
      <3>2. /\ pc' \in {"graphDisk", "stats", "open", "count"} => <<"graph">> \in heap'
            /\ pc' \in {"stats", "open", "count"} => <<"graphDisk">> \in heap'
            /\ pc' = "count" => <<"workload">> \in heap'
        BY <1>7, <2>1
      <3> QED BY <2>2, <3>1, <3>2 DEF Present, OptionBlocks, Mains, InLine, Ready
    <2>4. Bounded'
      <3>1. <<"stats">>[1] \in StatsTags
        BY DEF StatsTags
      <3>2. <<"workload">> \in Workload'
        BY DEF Workload
      <3>3. <<"graph">> \in Graph /\ <<"graphDisk">> \in Graph
        BY DEF Graph
      <3>4. /\ pc' = "graphDisk" => heap' \subseteq OptionBlocks' \cup Graph
            /\ pc' = "stats" => heap' \subseteq OptionBlocks' \cup Graph
            /\ pc' = "open" => \A b \in heap' : b \in OptionBlocks' \cup Graph \/ b[1] \in StatsTags
            /\ pc' = "count" => \A b \in heap' : \/ b \in OptionBlocks' \cup Graph
                                                \/ b[1] \in StatsTags \/ b \in Workload'
        BY <1>1, <1>6, <2>1, <3>1, <3>2, <3>3
      <3>5. Graph' = Graph
        BY DEF Graph
      <3> QED BY <2>2, <3>4, <3>5 DEF Bounded, Mains
    <2>5. NothingMissing'
      BY <1>1, <2>1, <2>2 DEF NothingMissing, Parsers
    <2> QED BY <1>1, <2>1, <2>3, <2>4, <2>5 DEF HeapInvariant, FaultsExplained
  <1>9. CASE \/ InitGraph /\ GiveUp({})
             \/ InitStats /\ GiveUp(Graph)
             \/ OpenFile /\ GiveUp(Graph \cup Stats)
    <2>1. /\ pc' = "exit" /\ exitCode' = "failure"
          /\ \/ pc = "graph" /\ Freed({})
             \/ pc = "stats" /\ Freed(Graph)
             \/ pc = "open" /\ Freed(Graph \cup Stats)
      BY <1>9 DEF InitGraph, InitStats, OpenFile, GiveUp, Exit
    <2>2. pc \in {"stats", "open"} => Graph \subseteq heap
      BY <1>7 DEF Graph
    <2>3. Stats = {b \in heap : b[1] \in StatsTags}
      BY DEF Stats, StatsTags
    <2>4. fault' = "none" /\ heap' \subseteq OptionBlocks'
      BY <1>1, <1>6, <2>1, <2>2, <2>3 DEF Freed
    <2>5. HeapInvariant'
      BY <2>1, <2>4, ParserExit
    <2> QED BY <2>4, <2>5 DEF FaultsExplained
  <1>10. CASE InitGraphDisk /\ AllocationFails /\ Undefined("null")
    <2>1. fault' = "null" /\ failures' > 0
      BY <1>1, <1>10 DEF AllocationFails, Undefined
    <2> QED BY <2>1 DEF HeapInvariant, FaultsExplained
  <1> QED BY <1>2, <1>8, <1>9, <1>10 DEF InitGraph, InitGraphDisk, InitStats, OpenFile

-----------------------------------------------------------------------------
(* The two passes over the file                                            *)

Reading == {"read"} \cup InLine

\* The heap while the file is read.
LEMMA ReadingHeap ==
  ASSUME Consistent, Running, MainSteps, UNCHANGED parsedVars, pc \in {"count"} \cup Reading
  PROVE  /\ OptionBlocks \subseteq heap /\ Graph \subseteq heap /\ <<"workload">> \in heap
         /\ LineBlocks \subseteq heap
         /\ pc \in Reading => /\ <<"processesInfo">> \in heap
                              /\ \A k \in Whole : ProcessBlocks(processesInfo[k]) \subseteq heap
         /\ \A b \in heap : \/ b \in OptionBlocks \/ b \in Graph \/ b[1] \in StatsTags
                            \/ b \in Workload \/ b \in LineBlocks
         /\ consumed = {}
  <1>1. Present /\ Bounded /\ FileFollowed /\ OptionBlocks \subseteq heap
    <2>1. "end" \notin {"count"} \cup Reading
      BY DEF Reading, InLine
    <2> QED BY <2>1, MainStart
  <1>2. Graph \subseteq heap
    <2>1. pc \in Mains \ {"graph", "graphDisk"} /\ pc \in Mains \ {"graph"}
      BY DEF Mains, Reading, InLine
    <2> QED BY <1>1, <2>1 DEF Present, Graph
  <1>3. <<"workload">> \in heap /\ LineBlocks \subseteq heap
    BY <1>1 DEF Present, Reading
  <1>4. pc \in Reading => /\ <<"processesInfo">> \in heap
                          /\ \A k \in Whole : ProcessBlocks(processesInfo[k]) \subseteq heap
    BY <1>1 DEF Present, Reading
  <1>5. \A b \in heap : \/ b \in OptionBlocks \/ b \in Graph \/ b[1] \in StatsTags
                        \/ b \in Workload \/ b \in LineBlocks
    <2>1. pc \notin {"launch", "simulate", "exit"}
      BY DEF Reading, InLine
    <2> QED BY <1>1, <2>1, Zenon DEF Bounded
  <1>6. consumed = {}
    <2>1. pc \notin {"end", "exit"}
      BY DEF Reading, InLine
    <2> QED BY <1>1, <2>1 DEF FileFollowed
  <1> QED BY <1>1, <1>2, <1>3, <1>4, <1>5, <1>6

LEMMA ReadingHeapNext ==
  ASSUME pc' \in {"count", "statsArray"} \cup Reading, exitCode' = "running",
         OptionBlocks' \subseteq heap', Graph \subseteq heap', <<"workload">> \in heap',
         LineBlocks' \subseteq heap',
         pc' # "count" => /\ <<"processesInfo">> \in heap'
                          /\ \A k \in Whole' : ProcessBlocks(processesInfo[k])' \subseteq heap',
         \A b \in heap' : \/ b \in OptionBlocks' \/ b \in Graph \/ b[1] \in StatsTags
                          \/ b \in Workload' \/ b \in LineBlocks'
  PROVE  HeapInvariant'
  <1>1. /\ pc' \in {"count", "read"} \cup InLine \cup Ready /\ pc' \in Mains \ {"graph"}
        /\ pc' \in {"open", "count", "read"} \cup InLine \cup Ready
        /\ pc' \notin {"arguments", "launch", "simulate", "end", "exit"} /\ pc' \notin Parsers
    BY DEF Reading, InLine, Ready, Mains, Parsers
  <1>2. Graph' = Graph
    BY DEF Graph
  <1>3. Present'
    <2>1. /\ AlgorithmBlocks(Len(lists))' \subseteq heap' /\ Algorithms' \subseteq heap'
      BY DEF OptionBlocks, Algorithms
    <2>2. <<"graph">> \in heap' /\ <<"graphDisk">> \in heap'
      BY DEF Graph
    <2>3. pc' \in ({"read"} \cup InLine \cup Ready) => pc' # "count"
      BY DEF InLine, Ready
    <2> QED BY <1>1, <2>1, <2>2, <2>3 DEF Present
  <1>4. Bounded'
    BY <1>1, <1>2, Zenon DEF Bounded
  <1>5. NothingMissing'
    BY <1>1 DEF NothingMissing
  <1> QED BY <1>3, <1>4, <1>5 DEF HeapInvariant

\* A step that reads on and leaves the blocks alone.
LEMMA ReadingOn ==
  ASSUME Consistent, Running, MainSteps, UNCHANGED parsedVars, pc \in {"count"} \cup Reading,
         UNCHANGED <<heap, fault, failures, exitCode, processesInfo, consumed>>,
         pc' \in {"count", "statsArray"} \cup Reading, LineBlocks' = LineBlocks,
         pc = "count" => pc' = "count"
  PROVE  HeapInvariant' /\ FaultsExplained'
  <1>1. /\ fault = "none" /\ exitCode = "running" /\ UNCHANGED <<argv, lists>> /\ file' = file
        /\ OptionBlocks' = OptionBlocks
    BY MainStart
  <1>2. /\ OptionBlocks \subseteq heap /\ Graph \subseteq heap /\ <<"workload">> \in heap
        /\ LineBlocks \subseteq heap
        /\ pc \in Reading => /\ <<"processesInfo">> \in heap
                             /\ \A k \in Whole : ProcessBlocks(processesInfo[k]) \subseteq heap
        /\ \A b \in heap : \/ b \in OptionBlocks \/ b \in Graph \/ b[1] \in StatsTags
                           \/ b \in Workload \/ b \in LineBlocks
    BY ReadingHeap
  <1>3. /\ Workload' = Workload /\ Whole' = Whole
        /\ \A k : ProcessBlocks(k)' = ProcessBlocks(k)
    BY <1>1, BlocksStay
  <1>4. \A k \in Whole' : ProcessBlocks(processesInfo[k])' = ProcessBlocks(processesInfo[k])
    BY <1>3 DEF ProcessBlocks, EventBlocks
  <1>5. pc' # "count" => /\ <<"processesInfo">> \in heap'
                         /\ \A k \in Whole' : ProcessBlocks(processesInfo[k])' \subseteq heap'
    <2>1. pc' # "count" => pc \in Reading
      OBVIOUS
    <2> QED BY <1>2, <1>3, <1>4, <2>1
  <1>6. HeapInvariant'
    BY <1>1, <1>2, <1>3, <1>5, ReadingHeapNext
  <1> QED BY <1>1, <1>6 DEF FaultsExplained

LEMMA CountKeepsHeap ==
  ASSUME Consistent, Running, MainSteps, UNCHANGED parsedVars,
         CountLine \/ LineTooLong \/ ProcessesInfo
  PROVE  HeapInvariant' /\ FaultsExplained'
  <1>1. /\ fault = "none" /\ exitCode = "running" /\ failures \in Nat
        /\ UNCHANGED <<argv, lists>> /\ file' = file /\ OptionBlocks' = OptionBlocks
        /\ (GoodFile' <=> GoodFile) /\ FileOK /\ FileFollowed
    BY MainStart
  <1>2. pc = "count" /\ UNCHANGED <<processesInfo, consumed>>
    BY DEF CountLine, LineTooLong, ProcessesInfo, fileVars
  <1>3. /\ OptionBlocks \subseteq heap /\ Graph \subseteq heap /\ <<"workload">> \in heap
        /\ \A b \in heap : \/ b \in OptionBlocks \/ b \in Graph \/ b[1] \in StatsTags
                           \/ b \in Workload \/ b \in LineBlocks
    BY <1>2, ReadingHeap
  <1>4. LineBlocks = {}
    BY <1>2 DEF LineBlocks, InLine
  <1>5. Workload' = Workload /\ Whole' = Whole
    BY <1>1, <1>2, BlocksStay
  <1>6. CASE CountLine
    <2>1. pc' = "count" /\ UNCHANGED <<heap, fault, failures, exitCode>>
      BY <1>6 DEF CountLine
    <2>2. LineBlocks' = {}
      BY <1>2, <2>1 DEF LineBlocks, InLine
    <2> QED BY <1>2, <1>4, <2>1, <2>2, ReadingOn
  <1>7. CASE LineTooLong
    <2>1. fault' = "uninitialised" /\ line <= Len(file) /\ ~file[line].ends
      BY <1>7 DEF LineTooLong, Undefined
    <2>2. line \in DOMAIN file
      BY <1>1, <2>1, LenProperties DEF FileOK
    <2>3. ~GoodFile
      BY <2>1, <2>2 DEF GoodFile
    <2> QED BY <1>1, <2>1, <2>3 DEF HeapInvariant, FaultsExplained
  <1>8. CASE ProcessesInfo /\ Allocate(<<"processesInfo">>, "read")
    <2>1. /\ pc' = "read" /\ heap' = heap \cup {<<"processesInfo">>}
          /\ UNCHANGED <<fault, failures, exitCode>>
      BY <1>8 DEF Allocate, Allocated
    <2>2. LineBlocks' = {}
      BY <2>1 DEF LineBlocks, InLine
    <2>3. Whole' = {}
      <3>1. processesInfo = <<>>
        BY <1>1, <1>2 DEF FileFollowed
      <3> QED BY <1>2, <3>1 DEF Whole, Procs
    <2>4. <<"processesInfo">> \in Workload'
      BY DEF Workload
    <2>5. \A b \in heap' : \/ b \in OptionBlocks' \/ b \in Graph \/ b[1] \in StatsTags
                           \/ b \in Workload' \/ b \in LineBlocks'
      BY <1>1, <1>3, <1>4, <1>5, <2>1, <2>4
    <2>6. HeapInvariant'
      BY <1>1, <1>3, <2>1, <2>2, <2>3, <2>5, ReadingHeapNext DEF Reading
    <2> QED BY <1>1, <2>1, <2>6 DEF FaultsExplained
  <1>9. CASE ProcessesInfo /\ AllocationFails /\ Undefined("uninitialised")
    <2>1. fault' = "uninitialised" /\ failures' > 0
      BY <1>1, <1>9 DEF AllocationFails, Undefined
    <2> QED BY <2>1 DEF HeapInvariant, FaultsExplained
  <1> QED BY <1>6, <1>7, <1>8, <1>9 DEF ProcessesInfo

\* What a failed allocation in a line leaves: the events that have been read.
LEMMA ReadFailsKeepsHeap ==
  ASSUME Consistent, Running, MainSteps, UNCHANGED parsedVars, pc \in Reading,
         UNCHANGED <<line, event>>,
         NEW S, ReadFails(S), S \subseteq LineBlocks,
         LineBlocks \ S \subseteq {<<"event", line, n>> : n \in 1..event}
  PROVE  HeapInvariant' /\ FaultsExplained'
  <1>1. /\ fault = "none" /\ failures \in Nat /\ OptionBlocks' = OptionBlocks
    BY MainStart
  <1>2. /\ Graph \subseteq heap /\ <<"workload">> \in heap /\ LineBlocks \subseteq heap
        /\ <<"processesInfo">> \in heap
        /\ \A k \in Whole : ProcessBlocks(processesInfo[k]) \subseteq heap
        /\ \A b \in heap : \/ b \in OptionBlocks \/ b \in Graph \/ b[1] \in StatsTags
                           \/ b \in Workload \/ b \in LineBlocks
    BY ReadingHeap
  <1>3. failures' > 0
    BY <1>1 DEF ReadFails, AllocationFails
  <1>4. CASE NoFirstEvent
    <2>1. fault' = "uninitialised"
      BY <1>4 DEF ReadFails, Undefined
    <2> QED BY <1>3, <2>1 DEF HeapInvariant, FaultsExplained
  <1>5. CASE ~NoFirstEvent
    <2>1. /\ Freed(S \cup Workload \cup Graph \cup Stats)
          /\ pc' = "exit" /\ exitCode' = "failure"
      BY <1>5 DEF ReadFails, GiveUp, Exit
    <2>2. Whole = Procs
      BY <1>5 DEF Whole, NoFirstEvent
    <2>3. Workload \subseteq heap
      BY <1>2, <2>2 DEF Workload
    <2>4. Stats = {b \in heap : b[1] \in StatsTags}
      BY DEF Stats, StatsTags
    <2>5. fault' = "none"
      BY <1>2, <2>1, <2>3, <2>4 DEF Freed
    <2>6. heap' \subseteq OptionBlocks \cup {<<"event", line, n>> : n \in 1..event}
      BY <1>2, <2>1, <2>4 DEF Freed
    <2>7. Present'
      BY <2>1 DEF Present, Parsers, Mains, Ready, InLine, LineBlocks
    <2>8. Bounded'
      BY <1>1, <2>1, <2>6 DEF Bounded
    <2>9. NothingMissing'
      BY <2>1 DEF NothingMissing, Parsers
    <2> QED BY <2>5, <2>7, <2>8, <2>9 DEF HeapInvariant, FaultsExplained
  <1> QED BY <1>4, <1>5

\* A line that is no good when it is read.
LEMMA BadLine ==
  ASSUME FileOK, FileFollowed, pc \in InLine,
         ~(file[line].fields /\ file[line].list = "closed")
  PROVE  ~GoodFile
  <1>1. line \in ProcessLines
    BY DEF FileFollowed
  <1> QED BY <1>1 DEF GoodFile

\* One block more for the line.
LEMMA BlockOfLine ==
  ASSUME Consistent, Running, MainSteps, UNCHANGED parsedVars, pc \in Reading,
         UNCHANGED <<processesInfo, consumed>>,
         NEW b, NEW next \in InLine, Allocate(b, next), LineBlocks' = LineBlocks \cup {b}
  PROVE  HeapInvariant' /\ FaultsExplained'
  <1>1. /\ fault = "none" /\ exitCode = "running" /\ UNCHANGED <<argv, lists>> /\ file' = file
        /\ OptionBlocks' = OptionBlocks
    BY MainStart
  <1>2. /\ OptionBlocks \subseteq heap /\ Graph \subseteq heap /\ <<"workload">> \in heap
        /\ LineBlocks \subseteq heap /\ <<"processesInfo">> \in heap
        /\ \A k \in Whole : ProcessBlocks(processesInfo[k]) \subseteq heap
        /\ \A c \in heap : \/ c \in OptionBlocks \/ c \in Graph \/ c[1] \in StatsTags
                           \/ c \in Workload \/ c \in LineBlocks
    BY ReadingHeap
  <1>3. /\ pc' \in Reading /\ heap' = heap \cup {b} /\ UNCHANGED <<fault, failures, exitCode>>
    BY DEF Allocate, Allocated, Reading
  <1>4. /\ Workload' = Workload /\ Whole' = Whole
    BY <1>1, BlocksStay
  <1>5. \A k \in Whole' : ProcessBlocks(processesInfo[k])' = ProcessBlocks(processesInfo[k])
    BY <1>1 DEF ProcessBlocks, EventBlocks
  <1>6. \A k \in Whole' : ProcessBlocks(processesInfo[k])' \subseteq heap'
    BY <1>2, <1>3, <1>4, <1>5
  <1>7. \A c \in heap' : \/ c \in OptionBlocks' \/ c \in Graph \/ c[1] \in StatsTags
                         \/ c \in Workload' \/ c \in LineBlocks'
    BY <1>1, <1>2, <1>3, <1>4
  <1>8. HeapInvariant'
    BY <1>1, <1>2, <1>3, <1>6, <1>7, ReadingHeapNext
  <1> QED BY <1>1, <1>3, <1>8 DEF FaultsExplained

\* A line has become a process: its blocks belong to the workload.
LEMMA LineReadKeepsHeap ==
  ASSUME Consistent, Running, MainSteps, UNCHANGED parsedVars, LineRead
  PROVE  HeapInvariant' /\ FaultsExplained'
  <1>1. /\ fault = "none" /\ exitCode = "running" /\ UNCHANGED <<argv, lists>> /\ file' = file
        /\ OptionBlocks' = OptionBlocks /\ (GoodFile' <=> GoodFile) /\ FileOK /\ FileFollowed
    BY MainStart
  <1>2. /\ pc = "events" /\ pc \in InLine /\ pc \in Reading /\ ~MoreEvents
        /\ UNCHANGED <<failures, event, consumed>>
    BY DEF LineRead, InLine, Reading
  <1>3. CASE file[line].list = "open"
    <2>1. fault' = "null"
      BY <1>3 DEF LineRead, Undefined
    <2>2. ~GoodFile
      BY <1>1, <1>2, <1>3, BadLine
    <2> QED BY <1>1, <2>1, <2>2 DEF HeapInvariant, FaultsExplained
  <1>4. CASE file[line].list # "open"
    <2>1. /\ processesInfo' = Append(processesInfo, line) /\ pc' = "read"
          /\ UNCHANGED <<heap, fault, exitCode>>
      BY <1>4 DEF LineRead
    <2>2. /\ OptionBlocks \subseteq heap /\ Graph \subseteq heap /\ <<"workload">> \in heap
          /\ LineBlocks \subseteq heap /\ <<"processesInfo">> \in heap /\ consumed = {}
          /\ \A k \in Whole : ProcessBlocks(processesInfo[k]) \subseteq heap
          /\ \A b \in heap : \/ b \in OptionBlocks \/ b \in Graph \/ b[1] \in StatsTags
                             \/ b \in Workload \/ b \in LineBlocks
      BY <1>2, ReadingHeap
    <2>3. /\ line \in ProcessLines /\ processesInfo \in Seq(ProcessLines)
          /\ event \in Nat /\ event <= file[line].events
          /\ (file[line].list \in {"noBracket", "empty"} => event = 0) /\ file[line].list # "missing"
          /\ file[line].events \in Nat
      <3>1. line \in ProcessLines /\ processesInfo \in Seq(ProcessLines) /\ event \in Nat
            /\ file \in Seq(Line)
        BY <1>1, <1>2 DEF FileOK, FileFollowed
      <3>2. file[line] \in Line
        BY <3>1 DEF ProcessLines
      <3> QED BY <1>1, <1>2, <3>1, <3>2 DEF FileFollowed, Line
    <2> DEFINE n == Len(processesInfo)
    <2>4. /\ n \in Nat /\ Procs = 1..n /\ Procs' = 1..(n + 1)
          /\ \A k \in 1..n : processesInfo'[k] = processesInfo[k]
          /\ processesInfo'[n + 1] = line
      <3>1. Len(Append(processesInfo, line)) = n + 1
            /\ Append(processesInfo, line) \in Seq(ProcessLines)
            /\ \A k \in 1..n : Append(processesInfo, line)[k] = processesInfo[k]
            /\ Append(processesInfo, line)[n + 1] = line
        BY <2>3, AppendProperties
      <3> QED BY <2>1, <2>3, <3>1, LenProperties DEF Procs
    <2>5. \A k : ProcessBlocks(k)' = ProcessBlocks(k)
      BY <1>1, <1>2 DEF ProcessBlocks, EventBlocks
    <2>6. ProcessBlocks(line) = {<<"info", line>>, <<"pcb", line>>} \cup EventBlocks(line)
      BY <2>2 DEF ProcessBlocks
    <2>7. LineBlocks = {<<"info", line>>, <<"pcb", line>>}
                         \cup {<<"event", line, m>> : m \in 1..event}
      BY <1>2 DEF LineBlocks, InLine
    <2>8. LineBlocks \subseteq ProcessBlocks(line)
      <3>1. \A m \in 1..event : m \in 1..file[line].events
        BY <2>3
      <3> QED BY <2>6, <2>7, <3>1 DEF EventBlocks
    <2>9. file[line].list # "empty" => ProcessBlocks(line) \subseteq heap
      <3>1. SUFFICES ASSUME file[line].list # "empty"
                     PROVE  \A m \in 1..file[line].events : m \in 1..event
        BY <2>2, <2>6, <2>7 DEF EventBlocks
      <3>2. ~(event < file[line].events)
        BY <1>2, <3>1 DEF MoreEvents
      <3> QED BY <2>3, <3>2
    <2>10. \A k \in Whole' : ProcessBlocks(processesInfo[k])' \subseteq heap'
      <3>1. SUFFICES ASSUME NEW k \in Procs', file[processesInfo'[k]].list # "empty"
                     PROVE  ProcessBlocks(processesInfo'[k]) \subseteq heap
        BY <1>1, <1>2, <2>1 DEF Whole, ProcessBlocks, EventBlocks
      <3>2. CASE k \in 1..n
        BY <2>2, <2>4, <3>1, <3>2 DEF Whole
      <3>3. CASE k = n + 1
        BY <2>4, <2>9, <3>1, <3>3
      <3> QED BY <2>4, <3>2, <3>3
    <2>11. Workload \cup LineBlocks \subseteq Workload'
      <3>1. Workload' = {<<"workload">>, <<"processesInfo">>}
                          \cup UNION {ProcessBlocks(processesInfo'[k]) : k \in Procs'}
        BY <1>1, <1>2 DEF Workload, ProcessBlocks, EventBlocks
      <3>2. \A k \in Procs : k \in Procs' /\ processesInfo'[k] = processesInfo[k]
        BY <2>4
      <3>3. Workload \subseteq Workload'
        <4>1. \A k \in Procs : ProcessBlocks(processesInfo[k]) \subseteq Workload'
          BY <3>1, <3>2
        <4> QED BY <3>1, <4>1 DEF Workload
      <3>4. n + 1 \in Procs' /\ processesInfo'[n + 1] = line
        BY <2>4
      <3>5. ProcessBlocks(line) \subseteq Workload'
        BY <3>1, <3>4
      <3> QED BY <2>8, <3>3, <3>5
    <2>12. LineBlocks' = {}
      BY <2>1 DEF LineBlocks, InLine
    <2>13. \A b \in heap' : \/ b \in OptionBlocks' \/ b \in Graph \/ b[1] \in StatsTags
                            \/ b \in Workload' \/ b \in LineBlocks'
      BY <1>1, <2>1, <2>2, <2>11
    <2>14. HeapInvariant'
      BY <1>1, <2>1, <2>2, <2>10, <2>12, <2>13, ReadingHeapNext DEF Reading
    <2> QED BY <1>1, <2>1, <2>14 DEF FaultsExplained
  <1> QED BY <1>3, <1>4

LEMMA ReadKeepsHeap ==
  ASSUME Consistent, Running, MainSteps, UNCHANGED parsedVars,
         SkipLine \/ ReadInfo \/ ReadPCB \/ ReadFields \/ ReadEvent \/ NoEventBefore \/ LineRead \/ FileRead
  PROVE  HeapInvariant' /\ FaultsExplained'
  <1>1. /\ fault = "none" /\ exitCode = "running" /\ UNCHANGED <<argv, lists>> /\ file' = file
        /\ (GoodFile' <=> GoodFile) /\ FileOK /\ FileFollowed /\ failures \in Nat
    BY MainStart
  <1>2. pc \in Reading
    BY DEF SkipLine, ReadInfo, ReadPCB, ReadFields, ReadEvent, NoEventBefore, LineRead, FileRead, Reading, InLine
  <1>3. CASE SkipLine \/ FileRead
    <2>1. /\ pc = "read" /\ pc' \in {"read", "statsArray"}
          /\ UNCHANGED <<heap, fault, failures, exitCode, processesInfo, consumed>>
      BY <1>3 DEF SkipLine, FileRead, fileVars
    <2>2. LineBlocks = {} /\ LineBlocks' = {}
      BY <2>1 DEF LineBlocks, InLine
    <2> QED BY <1>2, <2>1, <2>2, ReadingOn DEF Reading
  <1>4. CASE ReadInfo
    <2>1. pc = "read" /\ UNCHANGED <<line, event, processesInfo, consumed>>
      BY <1>4 DEF ReadInfo, fileVars
    <2>2. LineBlocks = {}
      BY <2>1 DEF LineBlocks, InLine
    <2>3. CASE Allocate(<<"info", line>>, "pcb")
      <3>1. LineBlocks' = {<<"info", line>>}
        BY <2>1, <2>3 DEF LineBlocks, InLine, Allocate
      <3> QED BY <1>2, <2>1, <2>2, <2>3, <3>1, BlockOfLine DEF InLine
    <2>4. CASE ReadFails({})
      BY <1>2, <2>1, <2>2, <2>4, ReadFailsKeepsHeap
    <2> QED BY <1>4, <2>3, <2>4 DEF ReadInfo
  <1>5. CASE ReadPCB
    <2>1. pc = "pcb" /\ UNCHANGED <<line, event, processesInfo, consumed>>
      BY <1>5 DEF ReadPCB, fileVars
    <2>2. LineBlocks = {<<"info", line>>}
      BY <2>1 DEF LineBlocks, InLine
    <2>3. CASE Allocate(<<"pcb", line>>, "fields")
      <3>1. LineBlocks' = {<<"info", line>>} \cup {<<"pcb", line>>}
        BY <2>1, <2>3 DEF LineBlocks, InLine, Allocate
      <3> QED BY <1>2, <2>1, <2>2, <2>3, <3>1, BlockOfLine DEF InLine
    <2>4. CASE ReadFails({<<"info", line>>})
      BY <1>2, <2>1, <2>2, <2>4, ReadFailsKeepsHeap
    <2> QED BY <1>5, <2>3, <2>4 DEF ReadPCB
  <1>6. CASE ReadFields
    <2>1. /\ pc = "fields" /\ pc \in InLine /\ event' = 0
          /\ UNCHANGED <<failures, line, processesInfo, consumed>>
      BY <1>6 DEF ReadFields, InLine
    <2>2. CASE file[line].fields /\ file[line].list # "missing"
      <3>1. pc' = "events" /\ UNCHANGED <<heap, fault, exitCode>>
        BY <1>6, <2>2 DEF ReadFields
      <3>2. \A m \in 1..0 : FALSE
        OBVIOUS
      <3>3. LineBlocks = {<<"info", line>>, <<"pcb", line>>}
        BY <2>1 DEF LineBlocks, InLine
      <3>4. LineBlocks' = {<<"info", line>>, <<"pcb", line>>}
        BY <2>1, <3>1, <3>2 DEF LineBlocks, InLine
      <3> QED BY <1>2, <2>1, <3>1, <3>3, <3>4, ReadingOn DEF Reading, InLine
    <2>3. CASE ~(file[line].fields /\ file[line].list # "missing")
      <3>1. fault' = "null"
        BY <1>6, <2>3, Zenon DEF ReadFields, Undefined
      <3>2. ~(file[line].fields /\ file[line].list = "closed")
        BY <2>3
      <3>3. ~GoodFile
        BY <1>1, <2>1, <3>2, BadLine
      <3> QED BY <1>1, <3>1, <3>3 DEF HeapInvariant, FaultsExplained
    <2> QED BY <2>2, <2>3
  <1>7. CASE ReadEvent
    <2>1. pc = "events" /\ UNCHANGED <<line, processesInfo, consumed>> /\ event \in Nat
      BY <1>1, <1>7 DEF ReadEvent, FileOK
    <2>2. LineBlocks = {<<"info", line>>, <<"pcb", line>>}
                         \cup {<<"event", line, m>> : m \in 1..event}
      BY <2>1 DEF LineBlocks, InLine
    <2>3. CASE Allocate(<<"event", line, event + 1>>, "events") /\ event' = event + 1
      <3>1. LineBlocks' = {<<"info", line>>, <<"pcb", line>>}
                            \cup {<<"event", line, m>> : m \in 1..(event + 1)}
        BY <2>1, <2>3 DEF LineBlocks, InLine, Allocate
      <3>2. \A m : m \in 1..(event + 1) <=> m \in 1..event \/ m = event + 1
        BY <2>1
      <3>3. LineBlocks' = LineBlocks \cup {<<"event", line, event + 1>>}
        BY <2>2, <3>1, <3>2
      <3> QED BY <1>2, <2>1, <2>3, <3>3, BlockOfLine DEF InLine
    <2>4. CASE ReadFails({<<"info", line>>, <<"pcb", line>>}) /\ UNCHANGED event
      BY <1>2, <2>1, <2>2, <2>4, ReadFailsKeepsHeap
    <2> QED BY <1>7, <2>3, <2>4 DEF ReadEvent
  <1>8. CASE NoEventBefore
    <2>1. pc \in InLine /\ file[line].list # "closed" /\ fault' = "null"
      BY <1>8 DEF NoEventBefore, Undefined, InLine
    <2>2. ~GoodFile
      BY <1>1, <2>1, BadLine
    <2> QED BY <1>1, <2>1, <2>2 DEF HeapInvariant, FaultsExplained
  <1>9. CASE LineRead
    BY <1>9, LineReadKeepsHeap
  <1> QED BY <1>3, <1>4, <1>5, <1>6, <1>7, <1>8, <1>9

-----------------------------------------------------------------------------
(* launchSimulation                                                        *)

\* What the scheduler is made of, the options apart.
SchedulerParts(q) ==
  {<<"scheduler">>, <<"readyQueues">>, <<"waitingQueues">>, <<"waitingQueue">>,
   <<"queuesSizesBeforeRR">>} \cup {<<"readyQueue", k>> : k \in 0..(q - 1)}

\* What stands in front of place s.
Built(L, s) == {L[j] : j \in 1..(s - 1)}

BuiltInOrder(L, q, c, n) ==
  /\ Built(L, 1) = {}
  /\ Built(L, q + 5) = SchedulerParts(q) \ {<<"queuesSizesBeforeRR">>}
  /\ Built(L, q + 6) = SchedulerParts(q)
  /\ Built(L, q + 7) = SchedulerParts(q) \cup {<<"cpu">>}
  /\ \A k \in 0..c : Built(L, q + k + 8) = SchedulerParts(q) \cup FreeCPU(k)
  /\ Built(L, q + c + 9) = SchedulerParts(q) \cup FreeCPU(c) \cup {<<"disk">>}
  /\ \A p \in 0..n : Built(L, q + c + 10 + p) =
       (SchedulerParts(q) \cup FreeCPU(c) \cup {<<"disk">>, <<"computer">>})
         \cup {<<"processStats", m>> : m \in 1..p}

LEMMA BuiltBlocks ==
  ASSUME NEW q \in Nat \ {0}, NEW c \in Nat \ {0}, NEW n \in Nat, NEW L, InOrder(L, q, c, n)
  PROVE  BuiltInOrder(L, q, c, n)
  <1>1. /\ L[1] = <<"scheduler">> /\ L[2] = <<"readyQueues">>
        /\ \A k \in 0..(q - 1) : L[k + 3] = <<"readyQueue", k>>
        /\ L[q + 3] = <<"waitingQueues">> /\ L[q + 4] = <<"waitingQueue">>
        /\ L[q + 5] = <<"queuesSizesBeforeRR">>
        /\ L[q + 6] = <<"cpu">> /\ L[q + 7] = <<"cores">>
        /\ \A k \in 0..(c - 1) : L[q + k + 8] = <<"core", k>>
        /\ L[q + c + 8] = <<"disk">> /\ L[q + c + 9] = <<"computer">>
        /\ \A p \in 1..n : L[q + c + 9 + p] = <<"processStats", p>>
    BY DEF InOrder
  <1>2. Built(L, 1) = {}
    <2>1. 1..(1 - 1) = {}
      OBVIOUS
    <2> QED BY <2>1 DEF Built
  <1>3. \A s \in Nat \ {0} : Built(L, s + 1) = Built(L, s) \cup {L[s]}
    <2>1. ASSUME NEW s \in Nat \ {0}
          PROVE  \A j : j \in 1..((s + 1) - 1) <=> j \in 1..(s - 1) \/ j = s
      OBVIOUS
    <2> QED BY <2>1 DEF Built
  <1>4. Built(L, q + 3) = {<<"scheduler">>, <<"readyQueues">>}
                            \cup {<<"readyQueue", k>> : k \in 0..(q - 1)}
    <2>1. \A j : j \in 1..((q + 3) - 1) <=> j = 1 \/ j = 2 \/ \E k \in 0..(q - 1) : j = k + 3
      <3>1. \A j \in 1..((q + 3) - 1) : (j = 1 \/ j = 2) \/ (j - 3 \in 0..(q - 1) /\ j = (j - 3) + 3)
        OBVIOUS
      <3>2. \A k \in 0..(q - 1) : k + 3 \in 1..((q + 3) - 1)
        OBVIOUS
      <3>3. 1 \in 1..((q + 3) - 1) /\ 2 \in 1..((q + 3) - 1)
        OBVIOUS
      <3> QED BY <3>1, <3>2, <3>3
    <2>2. ASSUME NEW b \in Built(L, q + 3)
          PROVE  b = L[1] \/ b = L[2] \/ \E k \in 0..(q - 1) : b = L[k + 3]
      <3>1. PICK j \in 1..((q + 3) - 1) : b = L[j]
        BY DEF Built
      <3> QED BY <2>1, <3>1
    <2>3. \A j \in 1..((q + 3) - 1) : L[j] \in Built(L, q + 3)
      BY DEF Built
    <2>4. L[1] \in Built(L, q + 3) /\ L[2] \in Built(L, q + 3)
      BY <2>1, <2>3, Zenon
    <2>5. \A k \in 0..(q - 1) : L[k + 3] \in Built(L, q + 3)
      BY <2>1, <2>3
    <2>6. \A k \in 0..(q - 1) : L[k + 3] = <<"readyQueue", k>>
      BY <1>1
    <2>7. L[1] = <<"scheduler">> /\ L[2] = <<"readyQueues">>
      BY <1>1
    <2>8. \A b \in Built(L, q + 3) :
            b \in {<<"scheduler">>, <<"readyQueues">>} \cup {<<"readyQueue", k>> : k \in 0..(q - 1)}
      BY <2>2, <2>6, <2>7
    <2>9. \A k \in 0..(q - 1) : <<"readyQueue", k>> \in Built(L, q + 3)
      BY <2>5, <2>6
    <2> QED BY <2>4, <2>7, <2>8, <2>9
  <1>5. /\ Built(L, q + 4) = Built(L, q + 3) \cup {<<"waitingQueues">>}
        /\ Built(L, q + 5) = Built(L, q + 4) \cup {<<"waitingQueue">>}
        /\ Built(L, q + 6) = Built(L, q + 5) \cup {<<"queuesSizesBeforeRR">>}
        /\ Built(L, q + 7) = Built(L, q + 6) \cup {<<"cpu">>}
        /\ Built(L, q + 8) = Built(L, q + 7) \cup {<<"cores">>}
    <2>1. /\ q + 3 \in Nat \ {0} /\ (q + 3) + 1 = q + 4 /\ q + 4 \in Nat \ {0} /\ (q + 4) + 1 = q + 5
          /\ q + 5 \in Nat \ {0} /\ (q + 5) + 1 = q + 6 /\ q + 6 \in Nat \ {0} /\ (q + 6) + 1 = q + 7
          /\ q + 7 \in Nat \ {0} /\ (q + 7) + 1 = q + 8
      OBVIOUS
    <2>2. Built(L, q + 4) = Built(L, q + 3) \cup {L[q + 3]}
      BY <1>3, <2>1, Zenon
    <2>3. Built(L, q + 5) = Built(L, q + 4) \cup {L[q + 4]}
      BY <1>3, <2>1, Zenon
    <2>4. Built(L, q + 6) = Built(L, q + 5) \cup {L[q + 5]}
      BY <1>3, <2>1, Zenon
    <2>5. Built(L, q + 7) = Built(L, q + 6) \cup {L[q + 6]}
      BY <1>3, <2>1, Zenon
    <2>6. Built(L, q + 8) = Built(L, q + 7) \cup {L[q + 7]}
      BY <1>3, <2>1, Zenon
    <2> QED BY <1>1, <2>2, <2>3, <2>4, <2>5, <2>6, Zenon
  <1>6. \A k \in 0..c : Built(L, q + k + 8) =
                          Built(L, q + 8) \cup {<<"core", m>> : m \in 0..(k - 1)}
    <2>1. SUFFICES ASSUME NEW k \in 0..c
                   PROVE  Built(L, q + k + 8) = Built(L, q + 8) \cup {<<"core", m>> : m \in 0..(k - 1)}
      OBVIOUS
    <2>2. \A j : j \in 1..((q + k + 8) - 1) <=>
                   j \in 1..((q + 8) - 1) \/ \E m \in 0..(k - 1) : j = q + m + 8
      <3>1. \A j \in 1..((q + k + 8) - 1) :
              j \in 1..((q + 8) - 1) \/ (j - (q + 8) \in 0..(k - 1) /\ j = q + (j - (q + 8)) + 8)
        OBVIOUS
      <3>2. \A m \in 0..(k - 1) : q + m + 8 \in 1..((q + k + 8) - 1)
        OBVIOUS
      <3>3. \A j \in 1..((q + 8) - 1) : j \in 1..((q + k + 8) - 1)
        OBVIOUS
      <3> QED BY <3>1, <3>2, <3>3
    <2>3. \A b : b \in Built(L, q + k + 8) <=>
                   b \in Built(L, q + 8) \/ \E m \in 0..(k - 1) : b = L[q + m + 8]
      <3>1. ASSUME NEW b \in Built(L, q + k + 8)
            PROVE  b \in Built(L, q + 8) \/ \E m \in 0..(k - 1) : b = L[q + m + 8]
        <4>1. PICK j \in 1..((q + k + 8) - 1) : b = L[j]
          BY DEF Built
        <4> QED BY <2>2, <4>1 DEF Built
      <3>2. \A j \in 1..((q + k + 8) - 1) : L[j] \in Built(L, q + k + 8)
        BY DEF Built
      <3>3. \A b \in Built(L, q + 8) : b \in Built(L, q + k + 8)
        BY <2>2, <3>2 DEF Built
      <3>4. \A m \in 0..(k - 1) : L[q + m + 8] \in Built(L, q + k + 8)
        BY <2>2, <3>2
      <3> QED BY <3>1, <3>3, <3>4
    <2>4. \A m \in 0..(k - 1) : L[q + m + 8] = <<"core", m>>
      <3>1. \A m \in 0..(k - 1) : m \in 0..(c - 1)
        OBVIOUS
      <3> QED BY <1>1, <3>1, Zenon
    <2> QED BY <2>3, <2>4
  <1>7. /\ Built(L, q + c + 9) = Built(L, q + c + 8) \cup {<<"disk">>}
        /\ Built(L, q + c + 10) = Built(L, q + c + 9) \cup {<<"computer">>}
    <2>1. /\ q + c + 8 \in Nat \ {0} /\ (q + c + 8) + 1 = q + c + 9
          /\ q + c + 9 \in Nat \ {0} /\ (q + c + 9) + 1 = q + c + 10
      OBVIOUS
    <2>2. Built(L, q + c + 9) = Built(L, q + c + 8) \cup {L[q + c + 8]}
      BY <1>3, <2>1, Zenon
    <2>3. Built(L, q + c + 10) = Built(L, q + c + 9) \cup {L[q + c + 9]}
      BY <1>3, <2>1, Zenon
    <2> QED BY <1>1, <2>2, <2>3, Zenon
  <1>8. \A p \in 0..n : Built(L, q + c + 10 + p) =
                          Built(L, q + c + 10) \cup {<<"processStats", m>> : m \in 1..p}
    <2>1. SUFFICES ASSUME NEW p \in 0..n
                   PROVE  Built(L, q + c + 10 + p) =
                            Built(L, q + c + 10) \cup {<<"processStats", m>> : m \in 1..p}
      OBVIOUS
    <2>2. \A j : j \in 1..((q + c + 10 + p) - 1) <=>
                   j \in 1..((q + c + 10) - 1) \/ \E m \in 1..p : j = q + c + 9 + m
      <3>1. \A j \in 1..((q + c + 10 + p) - 1) :
              j \in 1..((q + c + 10) - 1) \/ (j - (q + c + 9) \in 1..p /\ j = q + c + 9 + (j - (q + c + 9)))
        OBVIOUS
      <3>2. \A m \in 1..p : q + c + 9 + m \in 1..((q + c + 10 + p) - 1)
        OBVIOUS
      <3>3. \A j \in 1..((q + c + 10) - 1) : j \in 1..((q + c + 10 + p) - 1)
        OBVIOUS
      <3> QED BY <3>1, <3>2, <3>3
    <2>3. \A b : b \in Built(L, q + c + 10 + p) <=>
                   b \in Built(L, q + c + 10) \/ \E m \in 1..p : b = L[q + c + 9 + m]
      <3>1. ASSUME NEW b \in Built(L, q + c + 10 + p)
            PROVE  b \in Built(L, q + c + 10) \/ \E m \in 1..p : b = L[q + c + 9 + m]
        <4>1. PICK j \in 1..((q + c + 10 + p) - 1) : b = L[j]
          BY DEF Built
        <4> QED BY <2>2, <4>1 DEF Built
      <3>2. \A j \in 1..((q + c + 10 + p) - 1) : L[j] \in Built(L, q + c + 10 + p)
        BY DEF Built
      <3>3. \A b \in Built(L, q + c + 10) : b \in Built(L, q + c + 10 + p)
        BY <2>2, <3>2 DEF Built
      <3>4. \A m \in 1..p : L[q + c + 9 + m] \in Built(L, q + c + 10 + p)
        BY <2>2, <3>2
      <3> QED BY <3>1, <3>3, <3>4
    <2>4. \A m \in 1..p : L[q + c + 9 + m] = <<"processStats", m>>
      <3>1. \A m \in 1..p : m \in 1..n
        OBVIOUS
      <3> QED BY <1>1, <3>1, Zenon
    <2>5. \A b : b \in {<<"processStats", m>> : m \in 1..p} <=>
                   \E m \in 1..p : b = L[q + c + 9 + m]
      BY <2>4
    <2> QED BY <2>3, <2>5
  <1>9. Built(L, q + 6) = SchedulerParts(q)
    BY <1>4, <1>5 DEF SchedulerParts
  <1>10. Built(L, q + 5) = SchedulerParts(q) \ {<<"queuesSizesBeforeRR">>}
    BY <1>4, <1>5 DEF SchedulerParts
  <1>11. \A k \in 0..c : Built(L, q + k + 8) = SchedulerParts(q) \cup FreeCPU(k)
    BY <1>5, <1>6, <1>9 DEF FreeCPU
  <1>12. Built(L, q + c + 8) = SchedulerParts(q) \cup FreeCPU(c)
    BY <1>11
  <1>13. Built(L, q + c + 10) = SchedulerParts(q) \cup FreeCPU(c) \cup {<<"disk">>, <<"computer">>}
    BY <1>7, <1>12
  <1> QED BY <1>2, <1>5, <1>7, <1>8, <1>9, <1>10, <1>11, <1>12, <1>13 DEF BuiltInOrder

\* What stands at place s.
LEMMA BlockAtPlace ==
  ASSUME NEW q \in Nat \ {0}, NEW c \in Nat \ {0}, NEW n \in Nat, NEW L, InOrder(L, q, c, n),
         NEW s \in 1..Len(L)
  PROVE  \/ s = 1 /\ L[s] = <<"scheduler">>
         \/ L[s][1] \in Untested
         \/ s = q + 5 /\ L[s] = <<"queuesSizesBeforeRR">>
         \/ s = q + 6 /\ L[s] = <<"cpu">>
         \/ s = q + 7 /\ L[s] = <<"cores">>
         \/ \E k \in 0..(c - 1) : s = q + k + 8 /\ L[s] = <<"core", k>>
         \/ s = q + c + 8 /\ L[s] = <<"disk">>
         \/ s = q + c + 9 /\ L[s] = <<"computer">>
         \/ \E p \in 1..n : s = q + c + 9 + p /\ L[s] = <<"processStats", p>>
  <1>1. /\ Len(L) = q + c + 9 + n
        /\ L[1] = <<"scheduler">> /\ L[2] = <<"readyQueues">>
        /\ \A k \in 0..(q - 1) : L[k + 3] = <<"readyQueue", k>>
        /\ L[q + 3] = <<"waitingQueues">> /\ L[q + 4] = <<"waitingQueue">>
        /\ L[q + 5] = <<"queuesSizesBeforeRR">>
        /\ L[q + 6] = <<"cpu">> /\ L[q + 7] = <<"cores">>
        /\ \A k \in 0..(c - 1) : L[q + k + 8] = <<"core", k>>
        /\ L[q + c + 8] = <<"disk">> /\ L[q + c + 9] = <<"computer">>
        /\ \A p \in 1..n : L[q + c + 9 + p] = <<"processStats", p>>
    BY DEF InOrder
  <1>2. \/ s = 1 \/ s = 2 \/ (s - 3 \in 0..(q - 1) /\ s = (s - 3) + 3)
        \/ s = q + 3 \/ s = q + 4 \/ s = q + 5 \/ s = q + 6 \/ s = q + 7
        \/ (s - (q + 8) \in 0..(c - 1) /\ s = q + (s - (q + 8)) + 8)
        \/ s = q + c + 8 \/ s = q + c + 9
        \/ (s - (q + c + 9) \in 1..n /\ s = q + c + 9 + (s - (q + c + 9)))
    BY <1>1
  <1>3. CASE s = 2 \/ (s - 3 \in 0..(q - 1) /\ s = (s - 3) + 3) \/ s = q + 3 \/ s = q + 4
    <2>1. \/ L[s] = <<"readyQueues">> \/ L[s] = <<"readyQueue", s - 3>>
          \/ L[s] = <<"waitingQueues">> \/ L[s] = <<"waitingQueue">>
      BY <1>1, <1>3
    <2> QED BY <2>1 DEF Untested
  <1>4. CASE s - (q + 8) \in 0..(c - 1) /\ s = q + (s - (q + 8)) + 8
    BY <1>1, <1>4
  <1>5. CASE s - (q + c + 9) \in 1..n /\ s = q + c + 9 + (s - (q + c + 9))
    BY <1>1, <1>5
  <1> QED BY <1>1, <1>2, <1>3, <1>4, <1>5

\* What freeComputer frees, without the options.
LEMMA ComputerParts ==
  /\ FreeScheduler = SchedulerParts(argv.queues) \cup (Algorithms \cup AlgorithmBlocks(argv.queues))
  /\ ComputerBlocks = SchedulerParts(argv.queues) \cup FreeCPU(argv.cores)
                        \cup {<<"disk">>, <<"computer">>}
  /\ FreeComputer = ComputerBlocks \cup (Algorithms \cup AlgorithmBlocks(argv.queues))
  /\ \A b \in ComputerBlocks : b[1] \in ComputerTags
  <1>1. FreeScheduler = SchedulerParts(argv.queues) \cup (Algorithms \cup AlgorithmBlocks(argv.queues))
    BY DEF FreeScheduler, SchedulerParts
  <1>2. \A b \in SchedulerParts(argv.queues) : b[1] \in ComputerTags
    BY DEF SchedulerParts, ComputerTags
  <1>3. \A b \in FreeCPU(argv.cores) : b[1] \in ComputerTags
    BY DEF FreeCPU, ComputerTags
  <1>4. \A b \in {<<"disk">>, <<"computer">>} : b[1] \in ComputerTags
    BY DEF ComputerTags
  <1> DEFINE O == Algorithms \cup AlgorithmBlocks(argv.queues)
             P == SchedulerParts(argv.queues) \cup FreeCPU(argv.cores) \cup {<<"disk">>, <<"computer">>}
  <1>5. \A b \in O : b[1] \in OptionTags
    BY BlockTags
  <1>6. \A b \in P : b[1] \in ComputerTags
    BY <1>2, <1>3, <1>4
  <1>7. FreeComputer = P \cup O
    BY <1>1 DEF FreeComputer
  <1>8. ComputerBlocks = FreeComputer \ O
    BY DEF ComputerBlocks
  <1> HIDE DEF O, P
  <1>9. ComputerBlocks = P
    BY <1>5, <1>6, <1>7, <1>8, TagsDiffer
  <1> QED BY <1>1, <1>6, <1>7, <1>9 DEF O, P

\* What has been allocated when the next block is, and what is freed when that fails.
LEMMA Unwinding ==
  ASSUME argv \in CommandLine, MandatoryOptions, processesInfo \in Seq(ProcessLines),
         step \in Nat \ {0}, step <= Len(LaunchBlocks), NEW b, b = LaunchBlocks[step]
  PROVE  /\ b \in ComputerBlocks \/ b[1] = "processStats"
         /\ \A x \in Launched : x \in ComputerBlocks \/ x[1] = "processStats"
         /\ b[1] = "scheduler" => Launched = {} /\ Unwound(b) = {}
         /\ b[1] = "processStats" => ComputerBlocks \subseteq Launched /\ Unwound(b) = {}
         /\ b[1] \notin Untested \cup {"scheduler", "processStats"} =>
              Unwound(b) = Launched \cup (Algorithms \cup AlgorithmBlocks(argv.queues))
         /\ step = Len(LaunchBlocks) =>
              /\ ComputerBlocks \subseteq Launched \cup {b}
              /\ \A p \in Procs : <<"processStats", p>> \in Launched \cup {b}
  <1> DEFINE q == argv.queues
             c == argv.cores
             n == Len(processesInfo)
             L == LaunchBlocks
             O == Algorithms \cup AlgorithmBlocks(argv.queues)
  <1>1. /\ q \in Nat \ {0} /\ c \in Nat \ {0} /\ n \in Nat /\ Procs = 1..n /\ InOrder(L, q, c, n)
    BY LaunchBlocksOrder
  <1>2. Launched = Built(L, step) /\ b = L[step] /\ step \in Nat \ {0} /\ step <= Len(L)
    BY DEF Launched, Built
  <1>3. /\ FreeScheduler = SchedulerParts(q) \cup O
        /\ ComputerBlocks = SchedulerParts(q) \cup FreeCPU(c) \cup {<<"disk">>, <<"computer">>}
        /\ \A x \in O : x[1] \in OptionTags
    BY ComputerParts, BlockTags
  <1>4. Unwound(b) =
          CASE b[1] \in {"scheduler", "processStats"} -> {}
            [] b[1] = "queuesSizesBeforeRR" -> FreeScheduler \ {b}
            [] b[1] = "cpu"                 -> FreeScheduler
            [] b[1] = "cores"               -> FreeScheduler \cup {<<"cpu">>}
            [] b[1] = "core"                -> FreeScheduler \cup FreeCPU(b[2])
            [] b[1] = "disk"                -> FreeScheduler \cup FreeCPU(c)
            [] b[1] = "computer"            -> FreeScheduler \cup FreeCPU(c) \cup {<<"disk">>}
    BY DEF Unwound
  <1> HIDE DEF q, c, n, L, O
  <1>5. Len(L) = q + c + 9 + n
    BY <1>1 DEF InOrder
  <1>6. /\ Built(L, 1) = {}
        /\ Built(L, q + 5) = SchedulerParts(q) \ {<<"queuesSizesBeforeRR">>}
        /\ Built(L, q + 6) = SchedulerParts(q)
        /\ Built(L, q + 7) = SchedulerParts(q) \cup {<<"cpu">>}
        /\ \A k \in 0..c : Built(L, q + k + 8) = SchedulerParts(q) \cup FreeCPU(k)
        /\ Built(L, q + c + 9) = SchedulerParts(q) \cup FreeCPU(c) \cup {<<"disk">>}
        /\ \A p \in 0..n : Built(L, q + c + 10 + p) =
             (SchedulerParts(q) \cup FreeCPU(c) \cup {<<"disk">>, <<"computer">>})
               \cup {<<"processStats", m>> : m \in 1..p}
    <2>1. BuiltInOrder(L, q, c, n)
      BY <1>1, BuiltBlocks
    <2> QED BY <2>1 DEF BuiltInOrder
  <1>7. Built(L, q + c + 10 + n) = ComputerBlocks \cup {<<"processStats", m>> : m \in 1..n}
    <2>1. n \in 0..n
      BY <1>1
    <2> QED BY <1>3, <1>6, <2>1
  <1>8. step \in 1..Len(L)
    BY <1>1, <1>2, <1>5
  <1>9. \A j \in 1..Len(L) : L[j] \in ComputerBlocks \/ L[j][1] = "processStats"
    <2>1. ASSUME NEW j \in 1..Len(L) PROVE L[j] \in Built(L, q + c + 10 + n)
      <3>1. j \in 1..((q + c + 10 + n) - 1)
        BY <1>1, <1>5
      <3> QED BY <3>1 DEF Built
    <2> QED BY <1>7, <2>1
  <1>10. \A x \in Launched : x \in ComputerBlocks \/ x[1] = "processStats"
    <2>1. \A j \in 1..(step - 1) : j \in 1..Len(L)
      BY <1>1, <1>2, <1>5
    <2> QED BY <1>2, <1>9, <2>1 DEF Built
  <1>11. \/ step = 1 /\ b = <<"scheduler">>
         \/ b[1] \in Untested
         \/ step = q + 5 /\ b = <<"queuesSizesBeforeRR">>
         \/ step = q + 6 /\ b = <<"cpu">>
         \/ step = q + 7 /\ b = <<"cores">>
         \/ \E k \in 0..(c - 1) : step = q + k + 8 /\ b = <<"core", k>>
         \/ step = q + c + 8 /\ b = <<"disk">>
         \/ step = q + c + 9 /\ b = <<"computer">>
         \/ \E p \in 1..n : step = q + c + 9 + p /\ b = <<"processStats", p>>
    BY <1>1, <1>2, <1>8, BlockAtPlace
  <1>12. b[1] = "scheduler" => Launched = {} /\ Unwound(b) = {}
    BY <1>2, <1>4, <1>6, <1>11 DEF Untested
  <1>13. b[1] = "processStats" => ComputerBlocks \subseteq Launched /\ Unwound(b) = {}
    <2>1. SUFFICES ASSUME b[1] = "processStats" PROVE ComputerBlocks \subseteq Launched
      BY <1>4
    <2>2. PICK p \in 1..n : step = q + c + 9 + p
      BY <1>11, <2>1 DEF Untested
    <2>3. p - 1 \in 0..n /\ step = q + c + 10 + (p - 1)
      BY <1>1, <2>2
    <2> QED BY <1>2, <1>3, <1>6, <2>3
  <1>14. ASSUME b[1] \notin Untested \cup {"scheduler", "processStats"}
         PROVE  Unwound(b) = Launched \cup O
    <2>1. CASE step = q + 5 /\ b = <<"queuesSizesBeforeRR">>
      <3>1. Unwound(b) = (SchedulerParts(q) \cup O) \ {<<"queuesSizesBeforeRR">>}
        BY <1>3, <1>4, <2>1
      <3>2. <<"queuesSizesBeforeRR">> \notin O
        BY <1>3 DEF OptionTags
      <3> QED BY <1>2, <1>6, <2>1, <3>1, <3>2
    <2>2. CASE step = q + 6 /\ b = <<"cpu">>
      BY <1>2, <1>3, <1>4, <1>6, <2>2
    <2>3. CASE step = q + 7 /\ b = <<"cores">>
      BY <1>2, <1>3, <1>4, <1>6, <2>3
    <2>4. CASE \E k \in 0..(c - 1) : step = q + k + 8 /\ b = <<"core", k>>
      <3>1. PICK k \in 0..(c - 1) : step = q + k + 8 /\ b = <<"core", k>>
        BY <2>4
      <3>2. Unwound(b) = (SchedulerParts(q) \cup O) \cup FreeCPU(k)
        BY <1>3, <1>4, <3>1
      <3>3. Launched = SchedulerParts(q) \cup FreeCPU(k)
        BY <1>1, <1>2, <1>6, <3>1
      <3> QED BY <3>2, <3>3
    <2>5. CASE step = q + c + 8 /\ b = <<"disk">>
      <3>1. Unwound(b) = (SchedulerParts(q) \cup O) \cup FreeCPU(c)
        BY <1>3, <1>4, <2>5
      <3>2. Launched = SchedulerParts(q) \cup FreeCPU(c)
        <4>1. c \in 0..c
          BY <1>1
        <4> QED BY <1>2, <1>6, <2>5, <4>1
      <3> QED BY <3>1, <3>2
    <2>6. CASE step = q + c + 9 /\ b = <<"computer">>
      <3>1. Unwound(b) = (SchedulerParts(q) \cup O) \cup FreeCPU(c) \cup {<<"disk">>}
        BY <1>3, <1>4, <2>6
      <3>2. Launched = SchedulerParts(q) \cup FreeCPU(c) \cup {<<"disk">>}
        BY <1>1, <1>2, <1>6, <2>6
      <3> QED BY <3>1, <3>2
    <2> QED BY <1>11, <1>14, <2>1, <2>2, <2>3, <2>4, <2>5, <2>6
  <1>15. ASSUME step = Len(L)
         PROVE  /\ ComputerBlocks \subseteq Launched \cup {b}
                /\ \A p \in Procs : <<"processStats", p>> \in Launched \cup {b}
    <2>1. \A j : j \in 1..((q + c + 10 + n) - 1) => j \in 1..(step - 1) \/ j = step
      BY <1>1, <1>5, <1>15
    <2>2. Built(L, q + c + 10 + n) \subseteq Launched \cup {b}
      BY <1>2, <2>1 DEF Built
    <2> QED BY <1>1, <1>7, <2>2
  <1> QED BY <1>2, <1>8, <1>9, <1>10, <1>12, <1>13, <1>14, <1>15 DEF q, O, L

\* The heap from the file on.
LEMMA ReadyHeap ==
  ASSUME Consistent, Running, MainSteps, UNCHANGED parsedVars, pc \in Ready
  PROVE  /\ pc # "end" => OptionBlocks \subseteq heap
         /\ Graph \subseteq heap /\ {<<"workload">>, <<"processesInfo">>} \subseteq heap
         /\ \A k \in Whole : ProcessBlocks(processesInfo[k]) \subseteq heap
         /\ pc = "launch" => Launched \subseteq heap
         /\ pc = "simulate" => ComputerBlocks \subseteq heap
         /\ \A b \in heap : \/ b \in OptionBlocks \/ b \in Graph \/ b[1] \in StatsTags
                            \/ b \in Workload \/ (b \in Launched /\ pc = "launch")
                            \/ (b \in ComputerBlocks /\ pc = "simulate")
         /\ pc # "end" => consumed = {}
  <1>1. Present /\ Bounded /\ FileFollowed /\ (pc # "end" => OptionBlocks \subseteq heap)
    BY MainStart
  <1>2. /\ pc \in Mains \ {"graph"} /\ pc \in Mains \ {"graph", "graphDisk"}
        /\ pc \in {"count", "read"} \cup InLine \cup Ready /\ pc \in {"read"} \cup InLine \cup Ready
        /\ pc \notin InLine /\ pc # "exit"
    BY DEF Mains, Ready, InLine
  <1>3. Graph \subseteq heap
    BY <1>1, <1>2 DEF Present, Graph
  <1>4. /\ {<<"workload">>, <<"processesInfo">>} \subseteq heap
        /\ \A k \in Whole : ProcessBlocks(processesInfo[k]) \subseteq heap
    BY <1>1, <1>2 DEF Present
  <1>5. /\ pc = "launch" => Launched \subseteq heap
        /\ pc = "simulate" => ComputerBlocks \subseteq heap
    BY <1>1 DEF Present
  <1>6. LineBlocks = {}
    BY <1>2 DEF LineBlocks
  <1>7. \A b \in heap : \/ b \in OptionBlocks \/ b \in Graph \/ b[1] \in StatsTags
                        \/ b \in Workload \/ (b \in Launched /\ pc = "launch")
                        \/ (b \in ComputerBlocks /\ pc = "simulate")
    BY <1>1, <1>2, <1>6 DEF Bounded
  <1>8. pc # "end" => consumed = {}
    BY <1>1, <1>2 DEF FileFollowed
  <1> QED BY <1>1, <1>3, <1>4, <1>5, <1>7, <1>8

LEMMA ReadyHeapNext ==
  ASSUME pc' \in {"launch", "simulate", "end"}, exitCode' = "running",
         pc' # "end" => OptionBlocks' \subseteq heap',
         Graph \subseteq heap', {<<"workload">>, <<"processesInfo">>} \subseteq heap',
         \A k \in Whole' : ProcessBlocks(processesInfo[k])' \subseteq heap',
         pc' = "launch" => Launched' \subseteq heap',
         pc' = "simulate" => ComputerBlocks' \subseteq heap',
         \A b \in heap' : \/ b \in OptionBlocks' \/ b \in Graph \/ b[1] \in StatsTags
                          \/ b \in Workload' \/ (b \in Launched' /\ pc' = "launch")
                          \/ (b \in ComputerBlocks' /\ pc' = "simulate"),
         failures' = 0 => NothingMissing'
  PROVE  HeapInvariant'
  <1>1. /\ pc' \in Mains \ {"graph"} /\ pc' \in {"count", "read"} \cup InLine \cup Ready
        /\ pc' \in {"open", "count", "read"} \cup InLine \cup Ready
        /\ pc' \notin InLine /\ pc' # "arguments" /\ pc' \notin Parsers
    BY DEF Mains, Ready, InLine, Parsers
  <1>2. Graph' = Graph /\ Algorithms' = Algorithms
    BY DEF Graph, Algorithms
  <1>3. LineBlocks' = {}
    BY <1>1 DEF LineBlocks
  <1>4. Present'
    <2>1. pc' # "end" => AlgorithmBlocks(Len(lists))' \subseteq heap' /\ Algorithms' \subseteq heap'
      BY <1>2 DEF OptionBlocks
    <2>2. <<"graph">> \in heap' /\ <<"graphDisk">> \in heap'
      BY DEF Graph
    <2> QED BY <1>1, <1>3, <2>1, <2>2 DEF Present
  <1>5. Bounded'
    BY <1>1, <1>2 DEF Bounded
  <1> QED BY <1>4, <1>5 DEF HeapInvariant

LEMMA StatsArrayKeepsHeap ==
  ASSUME Consistent, Running, MainSteps, UNCHANGED parsedVars, SetNbProcessesInStats
  PROVE  HeapInvariant' /\ FaultsExplained'
  <1>1. /\ fault = "none" /\ exitCode = "running" /\ failures \in Nat
        /\ UNCHANGED <<argv, lists>> /\ file' = file /\ OptionBlocks' = OptionBlocks
        /\ FileFollowed
    BY MainStart
  <1>2. /\ pc = "statsArray" /\ pc' = "launch" /\ UNCHANGED <<fault, exitCode, processesInfo, consumed, step>>
        /\ \/ heap' = heap \cup {<<"statsArray">>}
           \/ heap' = heap /\ failures' = failures + 1
    BY DEF SetNbProcessesInStats, Allocate, Allocated, AllocationFails, fileVars
  <1>3. /\ OptionBlocks \subseteq heap /\ Graph \subseteq heap
        /\ {<<"workload">>, <<"processesInfo">>} \subseteq heap
        /\ \A k \in Whole : ProcessBlocks(processesInfo[k]) \subseteq heap
        /\ \A b \in heap : \/ b \in OptionBlocks \/ b \in Graph \/ b[1] \in StatsTags
                           \/ b \in Workload
    BY <1>2, ReadyHeap DEF Ready
  <1>4. Workload' = Workload /\ Whole' = Whole
    BY <1>1, <1>2, BlocksStay
  <1>5. \A k \in Whole' : ProcessBlocks(processesInfo[k])' \subseteq heap'
    BY <1>1, <1>2, <1>3, <1>4 DEF ProcessBlocks, EventBlocks
  <1>6. Launched' = {}
    <2>1. step' = 1
      BY <1>1, <1>2 DEF FileFollowed
    <2>2. 1..(1 - 1) = {}
      OBVIOUS
    <2> QED BY <2>1, <2>2 DEF Launched
  <1>7. <<"statsArray">>[1] \in StatsTags
    BY DEF StatsTags
  <1>8. \A b \in heap' : \/ b \in OptionBlocks' \/ b \in Graph \/ b[1] \in StatsTags
                         \/ b \in Workload'
    BY <1>1, <1>2, <1>3, <1>4, <1>7
  <1>9. failures' = 0 => NothingMissing'
    BY <1>1, <1>2 DEF NothingMissing, Parsers
  <1>10. HeapInvariant'
    BY <1>1, <1>2, <1>3, <1>5, <1>6, <1>8, <1>9, ReadyHeapNext
  <1> QED BY <1>1, <1>2, <1>10 DEF FaultsExplained

\* What freeScheduler frees of the options is there if every queue has some.
LEMMA OptionsFreed ==
  ASSUME ListsOK, argv \in CommandLine, MandatoryOptions
  PROVE  /\ Len(lists) \in Nat /\ argv.queues \in Nat \ {0}
         /\ ~(Len(lists) < argv.queues) =>
              (Algorithms \cup AlgorithmBlocks(argv.queues)) \subseteq OptionBlocks
         /\ OptionBlocks \ (Algorithms \cup AlgorithmBlocks(argv.queues)) = BehindQueues
  <1>1. Len(lists) \in Nat /\ argv.queues \in Nat \ {0}
    BY LenProperties DEF ListsOK, CommandLine, MandatoryOptions
  <1>2. ~(Len(lists) < argv.queues) => AlgorithmBlocks(argv.queues) \subseteq AlgorithmBlocks(Len(lists))
    BY <1>1, NextAlgorithm
  <1>3. \A k : k \in argv.queues..(Len(lists) - 1) <=>
                 k \in 0..(Len(lists) - 1) /\ k \notin 0..(argv.queues - 1)
    BY <1>1
  <1>4. \A k : <<"algorithm", k>> \notin Algorithms
    BY DEF Algorithms
  <1>5. OptionBlocks \ (Algorithms \cup AlgorithmBlocks(argv.queues)) = BehindQueues
    BY <1>3, <1>4 DEF OptionBlocks, BehindQueues, AlgorithmBlocks
  <1> QED BY <1>1, <1>2, <1>5 DEF OptionBlocks

LEMMA LaunchKeepsHeap ==
  ASSUME Consistent, Running, MainSteps, UNCHANGED parsedVars, Launch
  PROVE  HeapInvariant' /\ FaultsExplained'
  <1>1. /\ fault = "none" /\ exitCode = "running" /\ failures \in Nat
        /\ UNCHANGED <<argv, lists>> /\ file' = file /\ OptionBlocks' = OptionBlocks
        /\ FileFollowed /\ FileOK /\ (failures = 0 => NothingMissing) /\ ListsOK
        /\ argv \in CommandLine /\ MandatoryOptions
    BY MainStart DEF Consistent, ArgumentInvariant
  <1> DEFINE b == LaunchBlocks[step]
             O == Algorithms \cup AlgorithmBlocks(argv.queues)
             noArray == b[1] = "processStats" /\ <<"statsArray">> \notin heap
  <1>2. /\ pc = "launch" /\ step' = step + 1 /\ UNCHANGED <<processesInfo, consumed>>
        /\ \/ ~noArray /\ Allocate(b, IF step = Len(LaunchBlocks) THEN "simulate" ELSE "launch")
           \/ noArray /\ Undefined("null") /\ UNCHANGED failures
           \/ /\ AllocationFails
              /\ IF b[1] \in Untested THEN Undefined("null")
                 ELSE /\ Freed(Unwound(b))
                      /\ pc' = IF b[1] = "processStats" THEN "simulate" ELSE "end"
                      /\ UNCHANGED exitCode
    BY DEF Launch
  <1>3. step \in Nat \ {0} /\ step <= Len(LaunchBlocks) /\ processesInfo \in Seq(ProcessLines)
    BY <1>1, <1>2 DEF FileOK, FileFollowed
  <1>4. /\ b \in ComputerBlocks \/ b[1] = "processStats"
        /\ \A x \in Launched : x \in ComputerBlocks \/ x[1] = "processStats"
        /\ b[1] = "scheduler" => Launched = {} /\ Unwound(b) = {}
        /\ b[1] = "processStats" => ComputerBlocks \subseteq Launched /\ Unwound(b) = {}
        /\ b[1] \notin Untested \cup {"scheduler", "processStats"} => Unwound(b) = Launched \cup O
        /\ step = Len(LaunchBlocks) =>
             /\ ComputerBlocks \subseteq Launched \cup {b}
             /\ \A p \in Procs : <<"processStats", p>> \in Launched \cup {b}
    BY <1>1, <1>3, Unwinding
  <1>5. /\ OptionBlocks \subseteq heap /\ Graph \subseteq heap
        /\ {<<"workload">>, <<"processesInfo">>} \subseteq heap
        /\ \A k \in Whole : ProcessBlocks(processesInfo[k]) \subseteq heap
        /\ Launched \subseteq heap
        /\ \A x \in heap : \/ x \in OptionBlocks \/ x \in Graph \/ x[1] \in StatsTags
                           \/ x \in Workload \/ x \in Launched
    BY <1>2, ReadyHeap DEF Ready
  <1>6. /\ Workload' = Workload /\ Whole' = Whole /\ ComputerBlocks' = ComputerBlocks
        /\ LaunchBlocks' = LaunchBlocks /\ Procs' = Procs
    BY <1>1, <1>2, BlocksStay
  <1>7. \A k \in Whole' : ProcessBlocks(processesInfo[k])' = ProcessBlocks(processesInfo[k])
    BY <1>1, <1>2 DEF ProcessBlocks, EventBlocks
  <1>8. Launched' = Launched \cup {b}
    <2>1. \A j : j \in 1..((step + 1) - 1) <=> j \in 1..(step - 1) \/ j = step
      BY <1>3
    <2> QED BY <1>2, <1>6, <2>1 DEF Launched
  <1>9. "processStats" \in StatsTags
    BY DEF StatsTags
  <1> HIDE DEF b, O
  <1>10. CASE ~noArray /\ Allocate(b, IF step = Len(LaunchBlocks) THEN "simulate" ELSE "launch")
    <2>1. /\ heap' = heap \cup {b} /\ UNCHANGED <<fault, failures, exitCode>>
          /\ \/ pc' = "simulate" /\ step = Len(LaunchBlocks)
             \/ pc' = "launch"
      BY <1>10 DEF Allocate, Allocated
    <2>2. \A k \in Whole' : ProcessBlocks(processesInfo[k])' \subseteq heap'
      BY <1>5, <1>6, <1>7, <2>1
    <2>3. pc' = "simulate" => ComputerBlocks' \subseteq heap'
      BY <1>4, <1>5, <1>6, <2>1
    <2>4. pc' = "launch" => Launched' \subseteq heap'
      BY <1>5, <1>8, <2>1
    <2>5. \A x \in heap' : \/ x \in OptionBlocks' \/ x \in Graph \/ x[1] \in StatsTags
                           \/ x \in Workload' \/ (x \in Launched' /\ pc' = "launch")
                           \/ (x \in ComputerBlocks' /\ pc' = "simulate")
      BY <1>1, <1>4, <1>5, <1>6, <1>8, <1>9, <2>1
    <2>6. failures' = 0 => NothingMissing'
      <3>1. SUFFICES ASSUME failures = 0
                     PROVE  /\ <<"statsArray">> \in heap'
                            /\ pc' = "simulate" => \A p \in Procs' : <<"processStats", p>> \in heap'
        BY <1>1, <2>1 DEF NothingMissing, Parsers
      <3>2. <<"statsArray">> \in heap'
        BY <1>1, <1>2, <2>1, <3>1 DEF NothingMissing
      <3> QED BY <1>4, <1>5, <1>6, <2>1, <3>2
    <2>7. HeapInvariant'
      BY <1>1, <1>5, <2>1, <2>2, <2>3, <2>4, <2>5, <2>6, ReadyHeapNext
    <2> QED BY <1>1, <2>1, <2>7 DEF FaultsExplained
  <1>11. CASE noArray /\ Undefined("null") /\ UNCHANGED failures
    <2>1. fault' = "null" /\ failures' = failures /\ <<"statsArray">> \notin heap
      BY <1>11 DEF Undefined
    <2>2. failures > 0
      BY <1>1, <1>2, <2>1 DEF NothingMissing
    <2> QED BY <2>1, <2>2 DEF HeapInvariant, FaultsExplained
  <1>12. CASE AllocationFails /\ b[1] \in Untested
    <2>1. fault' = "null" /\ failures' > 0
      BY <1>1, <1>2, <1>12 DEF Undefined, AllocationFails, Allocate, Allocated
    <2> QED BY <2>1 DEF HeapInvariant, FaultsExplained
  <1>13. CASE AllocationFails /\ Freed(Unwound(b)) /\ UNCHANGED exitCode /\ b[1] \notin Untested
              /\ pc' = IF b[1] = "processStats" THEN "simulate" ELSE "end"
    <2>1. failures' > 0
      BY <1>1, <1>13 DEF AllocationFails
    <2>2. CASE b[1] = "processStats"
      <3>1. pc' = "simulate" /\ heap' = heap /\ fault' = "none"
        BY <1>4, <1>13, <2>2 DEF Freed
      <3>2. \A x \in heap' : \/ x \in OptionBlocks' \/ x \in Graph \/ x[1] \in StatsTags
                             \/ x \in Workload' \/ (x \in Launched' /\ pc' = "launch")
                             \/ (x \in ComputerBlocks' /\ pc' = "simulate")
        BY <1>1, <1>4, <1>5, <1>6, <1>9, <3>1
      <3>3. HeapInvariant'
        BY <1>1, <1>4, <1>5, <1>6, <1>7, <1>13, <2>1, <2>2, <3>1, <3>2, ReadyHeapNext
      <3> QED BY <3>1, <3>3 DEF FaultsExplained
    <2>3. CASE b[1] # "processStats"
      <3>1. /\ pc' = "end" /\ heap' = heap \ Unwound(b)
            /\ fault' = IF Unwound(b) \subseteq heap THEN "none" ELSE "freed"
        BY <1>13, <2>3 DEF Freed
      <3>2. Unwound(b) = Launched \/ Unwound(b) = Launched \cup O
        BY <1>4, <1>13, <2>3
      <3>3. fault' # "none" => Len(lists) < argv.queues
        <4>1. ~(Len(lists) < argv.queues) => O \subseteq OptionBlocks
          BY <1>1, OptionsFreed DEF O
        <4> QED BY <1>5, <3>1, <3>2, <4>1
      <3>4. \A x \in Unwound(b) : x[1] \in OptionTags \cup ComputerTags \cup {"processStats"}
        <4>1. \A x \in O : x[1] \in OptionTags
          BY BlockTags DEF O
        <4> QED BY <1>4, <3>2, <4>1, ComputerParts
      <3>5. Graph \subseteq heap' /\ {<<"workload">>, <<"processesInfo">>} \subseteq heap'
        <4>1. \A x \in Graph \cup {<<"workload">>, <<"processesInfo">>} : x[1] \in GraphTags \cup FileTags
          BY BlockTags DEF FileTags
        <4>2. "processStats" \notin GraphTags \cup FileTags
          BY DEF GraphTags, FileTags
        <4> QED BY <1>5, <3>1, <3>4, <4>1, <4>2, TagsDiffer
      <3>6. \A k \in Whole' : ProcessBlocks(processesInfo[k])' \subseteq heap'
        <4>1. \A k : \A x \in ProcessBlocks(k) : x[1] \in FileTags
          BY BlockTags
        <4>2. "processStats" \notin FileTags
          BY DEF FileTags
        <4> QED BY <1>5, <1>6, <1>7, <3>1, <3>4, <4>1, <4>2, TagsDiffer
      <3>7. \A x \in heap' : \/ x \in OptionBlocks' \/ x \in Graph \/ x[1] \in StatsTags
                             \/ x \in Workload'
        BY <1>1, <1>5, <1>6, <3>1, <3>2
      <3>8. HeapInvariant'
        BY <1>1, <1>13, <2>1, <3>1, <3>5, <3>6, <3>7, ReadyHeapNext
      <3>9. fault' \in {"none", "freed"}
        BY <3>1
      <3> QED BY <1>1, <3>3, <3>8, <3>9 DEF FaultsExplained
    <2> QED BY <2>2, <2>3
  <1> QED BY <1>2, <1>10, <1>11, <1>12, <1>13

\* An empty list is not that of a good file.
LEMMA NoFirstEventIsBad ==
  ASSUME FileOK, NoFirstEvent
  PROVE  ~GoodFile
  <1>1. PICK k \in Procs : file[processesInfo[k]].list = "empty"
    BY DEF NoFirstEvent
  <1>2. processesInfo[k] \in ProcessLines
    BY <1>1 DEF FileOK, Procs
  <1> QED BY <1>1, <1>2 DEF GoodFile

LEMMA SimulateKeepsHeap ==
  ASSUME Consistent, Running, MainSteps, UNCHANGED parsedVars, Simulate
  PROVE  HeapInvariant' /\ FaultsExplained'
  <1>1. /\ fault = "none" /\ exitCode = "running" /\ failures \in Nat
        /\ UNCHANGED <<argv, lists>> /\ file' = file /\ OptionBlocks' = OptionBlocks
        /\ FileOK /\ (failures = 0 => NothingMissing) /\ ListsOK
        /\ argv \in CommandLine /\ MandatoryOptions /\ (GoodFile' <=> GoodFile)
    BY MainStart DEF Consistent, ArgumentInvariant
  <1>2. pc = "simulate" /\ UNCHANGED <<failures, processesInfo>>
    BY DEF Simulate
  <1>3. /\ OptionBlocks \subseteq heap /\ Graph \subseteq heap
        /\ {<<"workload">>, <<"processesInfo">>} \subseteq heap
        /\ \A k \in Whole : ProcessBlocks(processesInfo[k]) \subseteq heap
        /\ ComputerBlocks \subseteq heap /\ consumed = {}
        /\ \A b \in heap : \/ b \in OptionBlocks \/ b \in Graph \/ b[1] \in StatsTags
                           \/ b \in Workload \/ b \in ComputerBlocks
    BY <1>2, ReadyHeap DEF Ready
  <1>4. CASE NoFirstEvent /\ Undefined("uninitialised")
    <2>1. ~GoodFile /\ fault' = "uninitialised"
      BY <1>1, <1>4, NoFirstEventIsBad DEF Undefined
    <2> QED BY <1>1, <2>1 DEF HeapInvariant, FaultsExplained
  <1>5. CASE \E p \in Procs : <<"processStats", p>> \notin heap /\ Undefined("null")
    <2>1. fault' = "null" /\ \E p \in Procs : <<"processStats", p>> \notin heap
      BY <1>5 DEF Undefined
    <2>2. failures > 0
      BY <1>1, <1>2, <2>1 DEF NothingMissing
    <2> QED BY <1>2, <2>1, <2>2 DEF HeapInvariant, FaultsExplained
  <1>6. CASE /\ ~NoFirstEvent /\ consumed' \in Consumed /\ Freed(consumed' \cup FreeComputer)
             /\ pc' = "end" /\ UNCHANGED exitCode
    <2> DEFINE O == Algorithms \cup AlgorithmBlocks(argv.queues)
    <2>1. Whole = Procs /\ Whole' = Whole /\ Procs' = Procs
      <3>1. Whole = Procs
        BY <1>6 DEF Whole, NoFirstEvent
      <3>2. Procs' = Procs
        BY <1>2, InfoStays
      <3> QED BY <1>1, <1>2, <3>1, <3>2 DEF Whole
    <2>2. \A k \in Procs : EventBlocks(processesInfo[k]) \subseteq heap
      <3>1. \A k : EventBlocks(k) \subseteq ProcessBlocks(k)
        BY <1>3 DEF ProcessBlocks
      <3> QED BY <1>3, <2>1, <3>1
    <2>3. consumed' \subseteq UNION {EventBlocks(processesInfo[k]) : k \in Procs}
      <3> DEFINE most == Max({0} \cup {file[k].events : k \in DOMAIN file})
      <3>1. PICK come \in [Procs -> 0..most] :
                  /\ \A p \in Procs : come[p] <= file[processesInfo[p]].events
                  /\ consumed' = UNION {{<<"event", processesInfo[p], n>> : n \in 1..come[p]} : p \in Procs}
        BY <1>6 DEF Consumed
      <3> HIDE DEF most
      <3>2. \A p \in Procs : come[p] \in Int
        BY <3>1
      <3>3. \A p \in Procs : file[processesInfo[p]].events \in Int
        <4>1. \A p \in Procs : processesInfo[p] \in ProcessLines
          BY <1>1 DEF FileOK, Procs
        <4>2. \A k \in ProcessLines : file[k] \in Line
          BY <1>1 DEF FileOK, ProcessLines
        <4> QED BY <4>1, <4>2 DEF Line
      <3>4. ASSUME NEW p \in Procs, NEW n \in 1..come[p]
            PROVE  <<"event", processesInfo[p], n>> \in EventBlocks(processesInfo[p])
        <4>1. come[p] <= file[processesInfo[p]].events
          BY <3>1
        <4>2. n \in 1..file[processesInfo[p]].events
          BY <3>2, <3>3, <4>1
        <4> QED BY <4>2 DEF EventBlocks
      <3> QED BY <3>1, <3>4
    <2>4. consumed' \subseteq heap /\ \A b \in consumed' : b[1] \in FileTags
      <3>1. \A k : \A b \in EventBlocks(k) : b[1] \in FileTags
        BY DEF EventBlocks, FileTags
      <3> QED BY <2>2, <2>3, <3>1
    <2>5. FreeComputer = ComputerBlocks \cup O /\ \A b \in ComputerBlocks : b[1] \in ComputerTags
      BY ComputerParts
    <2>6. \A b \in O : b[1] \in OptionTags
      BY BlockTags
    <2>7. /\ ~(Len(lists) < argv.queues) => O \subseteq OptionBlocks
          /\ OptionBlocks \ O = BehindQueues
      BY <1>1, OptionsFreed
    <2> HIDE DEF O
    <2>8. heap' = heap \ (consumed' \cup FreeComputer)
          /\ fault' = IF consumed' \cup FreeComputer \subseteq heap THEN "none" ELSE "freed"
      BY <1>6 DEF Freed
    <2>9. fault' # "none" => fault' = "freed" /\ Len(lists) < argv.queues
      BY <1>3, <2>4, <2>5, <2>7, <2>8
    <2>10. Graph \subseteq heap'
      <3>1. \A b \in Graph : b[1] \in GraphTags
        BY BlockTags
      <3> QED BY <1>3, <2>4, <2>5, <2>6, <2>8, <3>1, TagsDiffer
    <2>11. {<<"workload">>, <<"processesInfo">>} \subseteq heap'
      <3>1. \A b \in {<<"workload">>, <<"processesInfo">>} : b[1] \in FileTags /\ b \notin consumed'
        BY <2>3 DEF FileTags, EventBlocks
      <3> QED BY <1>3, <2>5, <2>6, <2>8, <3>1, TagsDiffer
    <2>12. \A k : ProcessBlocks(k)' = {<<"info", k>>, <<"pcb", k>>} \cup (EventBlocks(k) \ consumed')
      BY <1>1 DEF ProcessBlocks, EventBlocks
    <2>13. \A k \in Procs : {<<"info", processesInfo[k]>>, <<"pcb", processesInfo[k]>>} \subseteq heap
      BY <1>3, <2>1 DEF ProcessBlocks
    <2>14. \A k \in Procs : ProcessBlocks(processesInfo[k])' \subseteq heap'
      <3>1. \A k : /\ {<<"info", k>>, <<"pcb", k>>} \cap consumed' = {}
                   /\ \A b \in {<<"info", k>>, <<"pcb", k>>} \cup EventBlocks(k) : b[1] \in FileTags
        BY <2>3 DEF FileTags, EventBlocks
      <3>2. ASSUME NEW k \in Procs
            PROVE  {<<"info", processesInfo[k]>>, <<"pcb", processesInfo[k]>>}
                     \cup (EventBlocks(processesInfo[k]) \ consumed') \subseteq heap'
        BY <2>2, <2>5, <2>6, <2>8, <2>13, <3>1, TagsDiffer
      <3>3. \A k \in Procs : ProcessBlocks(processesInfo[k])' =
              {<<"info", processesInfo[k]>>, <<"pcb", processesInfo[k]>>}
                \cup (EventBlocks(processesInfo[k]) \ consumed')
        BY <1>1, <1>2 DEF ProcessBlocks, EventBlocks
      <3> QED BY <3>2, <3>3
    <2>15. Workload \subseteq Workload' \cup consumed'
      <3>1. \A k \in Procs : ProcessBlocks(processesInfo[k])
                               \subseteq ProcessBlocks(processesInfo[k])' \cup consumed'
        BY <1>1, <1>2 DEF ProcessBlocks, EventBlocks
      <3>2. Workload' = {<<"workload">>, <<"processesInfo">>}
                          \cup UNION {ProcessBlocks(processesInfo[k])' : k \in Procs}
        BY <1>2, <2>1 DEF Workload
      <3> QED BY <3>1, <3>2 DEF Workload
    <2>16. \A b \in heap' : \/ b \in OptionBlocks' \/ b \in Graph \/ b[1] \in StatsTags
                            \/ b \in Workload'
      BY <1>1, <1>3, <2>5, <2>8, <2>15
    <2>17. NothingMissing'
      <3>1. heap' \cap OptionBlocks = BehindQueues
        <4>1. \A b \in OptionBlocks : b[1] \in OptionTags
          BY BlockTags
        <4> QED BY <1>3, <2>4, <2>5, <2>7, <2>8, <4>1, TagsDiffer
      <3>2. OptionBlocks' = OptionBlocks /\ BehindQueues' = BehindQueues
        BY <1>1 DEF BehindQueues
      <3> QED BY <1>1, <1>6, <3>1, <3>2 DEF NothingMissing, Parsers
    <2>18. HeapInvariant'
      BY <1>1, <1>6, <2>1, <2>10, <2>11, <2>14, <2>16, <2>17, ReadyHeapNext
    <2> QED BY <1>1, <2>9, <2>18 DEF FaultsExplained
  <1> QED BY <1>4, <1>5, <1>6 DEF Simulate

LEMMA FreeAllKeepsHeap ==
  ASSUME Consistent, Running, MainSteps, UNCHANGED parsedVars, FreeAll
  PROVE  HeapInvariant' /\ FaultsExplained'
  <1>1. /\ fault = "none" /\ exitCode = "running" /\ failures \in Nat
        /\ UNCHANGED <<argv, lists>> /\ file' = file /\ OptionBlocks' = OptionBlocks
        /\ FileOK /\ (failures = 0 => NothingMissing) /\ (GoodFile' <=> GoodFile)
    BY MainStart
  <1>2. pc = "end" /\ UNCHANGED failures
    BY DEF FreeAll
  <1>3. /\ Graph \subseteq heap /\ {<<"workload">>, <<"processesInfo">>} \subseteq heap
        /\ \A k \in Whole : ProcessBlocks(processesInfo[k]) \subseteq heap
        /\ \A b \in heap : \/ b \in OptionBlocks \/ b \in Graph \/ b[1] \in StatsTags
                           \/ b \in Workload
    BY <1>2, ReadyHeap DEF Ready
  <1>4. CASE NoFirstEvent
    <2>1. ~GoodFile /\ fault' = "uninitialised"
      BY <1>1, <1>4, NoFirstEventIsBad DEF FreeAll, Undefined
    <2> QED BY <1>1, <2>1 DEF HeapInvariant, FaultsExplained
  <1>5. CASE ~NoFirstEvent
    <2>1. Freed(Graph \cup Stats \cup Workload) /\ pc' = "exit" /\ exitCode' = "success"
      BY <1>5 DEF FreeAll, Exit
    <2>2. Whole = Procs
      BY <1>5 DEF Whole, NoFirstEvent
    <2>3. Workload \subseteq heap
      BY <1>3, <2>2 DEF Workload
    <2>4. Stats = {b \in heap : b[1] \in StatsTags}
      BY DEF Stats, StatsTags
    <2>5. fault' = "none"
      BY <1>3, <2>1, <2>3, <2>4 DEF Freed
    <2>6. heap' \subseteq OptionBlocks
      BY <1>3, <2>1, <2>4 DEF Freed
    <2>7. Present'
      BY <2>1 DEF Present, Parsers, Mains, Ready, InLine, LineBlocks
    <2>8. Bounded'
      BY <1>1, <2>1, <2>6 DEF Bounded
    <2>9. failures' = 0 => NothingMissing'
      <3>1. SUFFICES ASSUME failures = 0 PROVE heap' = BehindQueues'
        BY <1>2, <2>1 DEF NothingMissing, Parsers
      <3>2. heap \cap OptionBlocks = BehindQueues
        BY <1>1, <1>2, <3>1 DEF NothingMissing
      <3>3. heap' = heap \cap OptionBlocks
        <4>1. \A b \in OptionBlocks : b[1] \in OptionTags
          BY BlockTags
        <4>2. \A b \in Graph \cup Stats \cup Workload : b[1] \in GraphTags \cup StatsTags \cup FileTags
          BY BlockTags
        <4>3. heap' = heap \ (Graph \cup Stats \cup Workload)
          BY <2>1 DEF Freed
        <4> QED BY <2>6, <4>1, <4>2, <4>3, TagsDiffer
      <3>4. BehindQueues' = BehindQueues
        BY <1>1 DEF BehindQueues
      <3> QED BY <3>2, <3>3, <3>4
    <2> QED BY <2>5, <2>7, <2>8, <2>9 DEF HeapInvariant, FaultsExplained
  <1> QED BY <1>4, <1>5

-----------------------------------------------------------------------------
LEMMA HeapAtFirst == ASSUME Init PROVE HeapInvariant /\ FaultsExplained /\ ReadWhenFreed
  <1>1. /\ pc = "arguments" /\ heap = {} /\ fault = "none" /\ exitCode = "running" /\ lists = <<>>
    BY DEF Init, ArgumentInit
  <1>2. Present
    BY <1>1 DEF Present, Parsers, Mains, InLine, Ready, LineBlocks
  <1>3. Bounded
    BY <1>1 DEF Bounded
  <1>4. NothingMissing
    BY <1>1 DEF NothingMissing, Parsers
  <1> QED BY <1>1, <1>2, <1>3, <1>4 DEF HeapInvariant, FaultsExplained, ReadWhenFreed

LEMMA HeapStep ==
  ASSUME Consistent, [Next]_vars
  PROVE  HeapInvariant' /\ FaultsExplained'
  <1>1. CASE ParseArguments /\ UNCHANGED fileVars
    BY <1>1, ParseKeepsHeap
  <1>2. CASE Running /\ MainSteps /\ UNCHANGED parsedVars
    <2>1. CASE InitGraph \/ InitGraphDisk \/ InitStats \/ OpenFile
      BY <1>2, <2>1, StartsKeepHeap
    <2>2. CASE CountLine \/ LineTooLong \/ ProcessesInfo
      BY <1>2, <2>2, CountKeepsHeap
    <2>3. CASE SkipLine \/ ReadInfo \/ ReadPCB \/ ReadFields \/ ReadEvent \/ NoEventBefore \/ LineRead \/ FileRead
      BY <1>2, <2>3, ReadKeepsHeap
    <2>4. CASE SetNbProcessesInStats
      BY <1>2, <2>4, StatsArrayKeepsHeap
    <2>5. CASE Launch
      BY <1>2, <2>5, LaunchKeepsHeap
    <2>6. CASE Simulate
      BY <1>2, <2>6, SimulateKeepsHeap
    <2>7. CASE FreeAll
      BY <1>2, <2>7, FreeAllKeepsHeap
    <2> QED BY <1>2, <2>1, <2>2, <2>3, <2>4, <2>5, <2>6, <2>7 DEF MainSteps
  <1>3. CASE UNCHANGED vars
    <2>1. UNCHANGED <<argv, pc, lists, heap, failures, fault, exitCode, file, line, processesInfo,
                      event, consumed, step>>
      BY <1>3 DEF vars, argumentVars, fileVars
    <2>2. /\ OptionBlocks' = OptionBlocks /\ BehindQueues' = BehindQueues /\ Workload' = Workload
          /\ ComputerBlocks' = ComputerBlocks /\ Whole' = Whole /\ Procs' = Procs
          /\ Launched' = Launched /\ LineBlocks' = LineBlocks /\ Graph' = Graph
          /\ (GoodFile' <=> GoodFile)
      BY <2>1, BlocksStay, GoodFileStays DEF Graph
    <2>3. \A k \in Whole : ProcessBlocks(processesInfo[k])' = ProcessBlocks(processesInfo[k])
      BY <2>1 DEF ProcessBlocks, EventBlocks
    <2>4. Algorithms' = Algorithms /\ AlgorithmBlocks(Len(lists))' = AlgorithmBlocks(Len(lists))
      BY <2>1 DEF Algorithms, AlgorithmBlocks
    <2>5. Present => Present'
      BY <2>1, <2>2, <2>3, <2>4 DEF Present
    <2>6. Bounded => Bounded'
      BY <2>1, <2>2 DEF Bounded
    <2>7. NothingMissing => NothingMissing'
      BY <2>1, <2>2, <2>4 DEF NothingMissing
    <2>8. Consistent => HeapInvariant /\ FaultsExplained
      BY DEF Consistent
    <2>9. HeapInvariant'
      BY <2>1, <2>5, <2>6, <2>7, <2>8 DEF HeapInvariant
    <2>10. FaultsExplained'
      BY <2>1, <2>2, <2>8 DEF FaultsExplained, Beginnings
    <2> QED BY <2>9, <2>10
  <1> QED BY <1>1, <1>2, <1>3 DEF Next

LEMMA FreedAfterParsing ==
  ASSUME Consistent, [Next]_vars
  PROVE  ReadWhenFreed'
  <1>1. CASE ParseArguments /\ UNCHANGED fileVars
    BY <1>1, ParseKeepsHeap DEF ReadWhenFreed
  <1>2. CASE Running /\ MainSteps /\ UNCHANGED parsedVars
    <2>1. ArgumentInvariant /\ ~Parsing
      BY <1>2, MainControl DEF Consistent, Parsing, Mains
    <2>2. Len(lists) = Cardinality(Beginnings)
      BY <2>1, ParsedText
    <2>3. lists' = lists /\ Beginnings' = Beginnings
      BY <1>2 DEF parsedVars, Beginnings
    <2> QED BY <2>2, <2>3 DEF ReadWhenFreed
  <1>3. CASE UNCHANGED vars
    <2>1. UNCHANGED <<fault, lists>> /\ Beginnings' = Beginnings
      BY <1>3 DEF vars, argumentVars, Beginnings
    <2> QED BY <2>1 DEF Consistent, ReadWhenFreed
  <1> QED BY <1>1, <1>2, <1>3 DEF Next

LEMMA Consistency == Spec => []Consistent
  <1>1. Init => Consistent
    BY ArgumentsAtFirst, FileAtFirst, HeapAtFirst DEF Consistent
  <1>2. Consistent /\ [Next]_vars => Consistent'
    BY ArgumentStep, FileStep, HeapStep, FreedAfterParsing DEF Consistent
  <1> QED BY <1>1, <1>2, PTL DEF Spec

(* No way out of main frees a block that is not allocated, but for the     *)
(* options of queues that were given none: whatever the input, however     *)
(* many allocations fail and at whichever one.                             *)
THEOREM NothingElseIsFreed == Spec => []FreesOnlyAllocated
  <1>1. Consistent => FreesOnlyAllocated
    BY DEF Consistent, FaultsExplained, FreesOnlyAllocated
  <1> QED BY <1>1, Consistency, PTL

(* A good file read without a failed allocation, with exactly one list of  *)
(* options for every queue, meets no undefined behaviour between main and  *)
(* exit: lists are written in the array only, and freeScheduler frees as   *)
(* many as have been allocated.                                            *)
THEOREM GoodInputIsRunThrough == Spec => []GoodInputIsSafe
  <1>1. Consistent => GoodInputIsSafe
    <2>1. SUFFICES ASSUME Consistent, GoodFile, failures = 0,
                          Cardinality(Beginnings) = argv.queues
                   PROVE  fault = "none"
      BY DEF GoodInputIsSafe
    <2>2. /\ fault \in Faults
          /\ FaultsExplained /\ ReadWhenFreed /\ argv.queues \in Int
      BY <2>1 DEF Consistent, ArgumentInvariant, ControlOK, CommandLine, FileInvariant, FileOK
    <2>3. fault \in {"freed", "behind"} => FALSE
      BY <2>1, <2>2 DEF FaultsExplained, ReadWhenFreed
    <2>4. fault \in {"null", "uninitialised"} => FALSE
      BY <2>1, <2>2 DEF FaultsExplained
    <2> QED BY <2>2, <2>3, <2>4 DEF Faults
  <1> QED BY <1>1, Consistency, PTL

(* What is never freed: a list behind the array when the run succeeds, at  *)
(* most the options and the events of one line when it fails.              *)
THEOREM LeaksAreKnown == Spec => []OnlyKnownLeaks
  <1>1. Consistent => OnlyKnownLeaks
    <2>1. SUFFICES ASSUME Consistent, exitCode # "running", fault = "none" PROVE OnlyKnownLeaks
      BY DEF OnlyKnownLeaks, Ended
    <2>2. pc = "exit" /\ Bounded /\ (failures = 0 => NothingMissing)
      BY <2>1 DEF Consistent, ArgumentInvariant, ControlOK, HeapInvariant
    <2>3. ASSUME exitCode = "success", failures = 0
          PROVE  heap = {<<"algorithm", q>> : q \in argv.queues..(Len(lists) - 1)}
      BY <2>2, <2>3 DEF NothingMissing, BehindQueues
    <2>4. ASSUME NEW b \in heap
          PROVE  b \in Algorithms \cup AlgorithmBlocks(Len(lists))
                   \cup {<<"event", line, n>> : n \in 1..event}
      <3>1. pc \notin {"graph", "open", "count", "read", "launch", "simulate"} \cup InLine \cup Ready
            /\ pc \notin Mains
        BY <2>2 DEF InLine, Ready, Mains
      <3>2. LineBlocks = {}
        BY <3>1 DEF LineBlocks
      <3> QED BY <2>2, <2>4, <3>1, <3>2 DEF Bounded, OptionBlocks
    <2> QED BY <2>3, <2>4 DEF OnlyKnownLeaks
  <1> QED BY <1>1, Consistency, PTL
=============================================================================
