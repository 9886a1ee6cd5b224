---------------------------- MODULE QueuesProofs ----------------------------
(***************************************************************************)
(* What the list operations of queues.c return, for every queue.           *)
(***************************************************************************)
EXTENDS Queues, SequenceTheorems, WellFoundedInduction, TLAPS

-----------------------------------------------------------------------------
(* A set of natural numbers that is not empty has a least element.         *)
LEMMA LeastElement ==
  ASSUME NEW T \in SUBSET Nat, T # {}
  PROVE  \E k \in T : \A j \in T : k <= j
<1>1. PICK k \in T : \A j \in T : ~(<<j, k>> \in OpToRel(<, Nat))
  BY NatLessThanWellFounded, WFMin
<1>2. ASSUME NEW j \in T, j < k PROVE <<j, k>> \in OpToRel(<, Nat)
  BY <1>2 DEF OpToRel
<1>3. \A j \in T : ~(j < k)
  BY <1>1, <1>2
<1> QED
  BY <1>3

(* The loops of enqueueNodePriority and enqueueNodeSJF end: the position   *)
(* they link the node at is in the list, or right behind it.               *)
LEMMA SortedPositionInRange ==
  ASSUME NEW S, NEW q \in Seq(S), NEW p \in S, NEW key \in [S -> Int]
  PROVE  SortedPosition(q, p, key) \in 1..(Len(q) + 1)
<1>1. Len(q) \in Nat /\ (q # <<>> => Len(q) # 0)
  BY EmptySeq, LenProperties
<1>2. \A k \in 1..Len(q) : q[k] \in S
  BY ElementOfSeq
<1>3. CASE q = <<>> \/ key[p] < key[q[1]]
  BY <1>1, <1>3 DEF SortedPosition
<1>4. CASE ~(q = <<>> \/ key[p] < key[q[1]]) /\ key[p] >= key[q[Len(q)]]
  BY <1>1, <1>4 DEF SortedPosition
<1>5. CASE ~(q = <<>> \/ key[p] < key[q[1]]) /\ ~(key[p] >= key[q[Len(q)]])
  <2> DEFINE T == {k \in 2..Len(q) : key[p] < key[q[k]]}
  <2>1. Len(q) # 0 /\ q[1] \in S /\ q[Len(q)] \in S
    BY <1>1, <1>2, <1>5
  <2>2. key[p] < key[q[Len(q)]] /\ Len(q) # 1
    BY <2>1, <1>5
  <2>3. Len(q) \in T
    <3>1. Len(q) \in Nat /\ Len(q) # 0 /\ Len(q) # 1
      BY <1>1, <2>1, <2>2
    <3>2. \A n \in Nat : n # 0 /\ n # 1 => n \in 2..n
      OBVIOUS
    <3>3. Len(q) \in 2..Len(q)
      BY <3>1, <3>2
    <3> QED BY <2>2, <3>3
  <2>4. T \in SUBSET Nat
    OBVIOUS
  <2>5. PICK k \in T : \A j \in T : k <= j
    <3> HIDE DEF T
    <3> QED BY <2>3, <2>4, LeastElement
  <2>6. ASSUME NEW j \in 2..(k - 1) PROVE key[p] >= key[q[j]]
    <3>1. k \in 2..Len(q)
      OBVIOUS
    <3>2. j \notin T /\ j \in 2..Len(q) /\ q[j] \in S
      BY <1>1, <1>2, <2>5, <3>1
    <3> QED BY <3>2
  <2>7. SortedPosition(q, p, key) \in 2..Len(q)
    BY <1>5, <2>6 DEF SortedPosition
  <2> QED
    BY <1>1, <2>7
<1> QED
  BY <1>3, <1>4, <1>5

(* putprocessInQueue links the node in the list or right behind it,        *)
(* whatever the type of the queue.                                         *)
LEMMA InsertPositionInRange ==
  ASSUME NEW S, NEW q \in Seq(S), NEW p \in S,
         NEW priority \in [S -> Int], NEW execution \in [S -> Int],
         NEW type \in {"FCFS", "SJF", "RR", "PRIORITY"}
  PROVE  InsertPosition(type, q, p, priority, execution) \in 1..(Len(q) + 1)
<1>1. Len(q) + 1 \in 1..(Len(q) + 1)
  BY LenProperties
<1>2. /\ SortedPosition(q, p, priority) \in 1..(Len(q) + 1)
      /\ SortedPosition(q, p, execution) \in 1..(Len(q) + 1)
  BY SortedPositionInRange
<1> QED
  BY <1>1, <1>2 DEF InsertPosition

(* Two lists of nodes make a list of nodes when one is put behind the other. *)
LEMMA ConcatIsSeq ==
  ASSUME NEW S
  PROVE  \A s, t \in Seq(S) : s \o t \in Seq(S) /\ Len(s \o t) = Len(s) + Len(t)
BY ConcatProperties

(* Linking a node adds exactly that node to the list.                      *)
LEMMA InsertAtIsSeq ==
  ASSUME NEW S, NEW q \in Seq(S), NEW p \in S, NEW k \in 1..(Len(q) + 1)
  PROVE  /\ InsertAt(q, k, p) \in Seq(S)
         /\ Len(InsertAt(q, k, p)) = Len(q) + 1
<1>1. Len(q) \in Nat /\ \A i \in 1..Len(q) : q[i] \in S
  BY LenProperties, ElementOfSeq
<1> DEFINE before == SubSeq(q, 1, k - 1)
           behind == SubSeq(q, k, Len(q))
<1>2. before \in Seq(S) /\ Len(before) = k - 1
  <2>1. \A i \in 1..(k - 1) : q[i] \in S
    BY <1>1
  <2> QED BY <1>1, <2>1, SubSeqProperties
<1>3. behind \in Seq(S) /\ Len(behind) = Len(q) - k + 1
  <2>1. \A i \in k..Len(q) : q[i] \in S
    BY <1>1
  <2> QED BY <1>1, <2>1, SubSeqProperties
<1>4. <<p>> \in Seq(S) /\ Len(<<p>>) = 1
  OBVIOUS
<1> HIDE DEF before, behind
<1>5. before \o <<p>> \in Seq(S) /\ Len(before \o <<p>>) = Len(before) + Len(<<p>>)
  BY <1>2, <1>4, ConcatIsSeq
<1>6. /\ (before \o <<p>>) \o behind \in Seq(S)
      /\ Len((before \o <<p>>) \o behind) = Len(before \o <<p>>) + Len(behind)
  BY <1>3, <1>5, ConcatIsSeq
<1>7. Len((before \o <<p>>) \o behind) = Len(q) + 1
  <2> DEFINE both == before \o <<p>>
  <2>1. Len(both) = k
    BY <1>2, <1>4, <1>5
  <2>2. Len(both \o behind) = Len(both) + Len(behind)
    BY <1>6
  <2> HIDE DEF both
  <2>3. Len(both \o behind) = Len(q) + 1
    BY <1>1, <1>3, <2>1, <2>2
  <2> QED BY <2>3 DEF both
<1> QED
  BY <1>6, <1>7 DEF InsertAt, before, behind

(* The position of a linked node is in the list.                           *)
LEMMA PositionInQueue ==
  ASSUME NEW S, NEW q \in Seq(S), NEW p, ProcessInQueue(q, p)
  PROVE  PositionOf(q, p) \in 1..Len(q) /\ q[PositionOf(q, p)] = p
BY LenProperties DEF ProcessInQueue, PositionOf

(* removeNode unlinks exactly one node.                                    *)
LEMMA RemoveNodeIsSeq ==
  ASSUME NEW S, NEW q \in Seq(S), NEW p, ProcessInQueue(q, p)
  PROVE  /\ RemoveNode(q, p) \in Seq(S)
         /\ Len(RemoveNode(q, p)) = Len(q) - 1
<1>1. Len(q) \in Nat /\ \A i \in 1..Len(q) : q[i] \in S
  BY LenProperties, ElementOfSeq
<1> DEFINE k == PositionOf(q, p)
           before == SubSeq(q, 1, k - 1)
           behind == SubSeq(q, k + 1, Len(q))
<1>2. k \in 1..Len(q)
  BY PositionInQueue
<1> HIDE DEF k
<1>3. before \in Seq(S) /\ Len(before) = k - 1
  <2>1. \A i \in 1..(k - 1) : q[i] \in S
    BY <1>1, <1>2
  <2> QED BY <1>1, <1>2, <2>1, SubSeqProperties
<1>4. behind \in Seq(S) /\ Len(behind) = Len(q) - k
  <2>1. \A i \in (k + 1)..Len(q) : q[i] \in S
    BY <1>1, <1>2
  <2> QED BY <1>1, <1>2, <2>1, SubSeqProperties
<1> HIDE DEF before, behind
<1>5. before \o behind \in Seq(S) /\ Len(before \o behind) = Len(before) + Len(behind)
  BY <1>3, <1>4, ConcatIsSeq
<1>6. Len(before \o behind) = Len(q) - 1
  BY <1>1, <1>2, <1>3, <1>4, <1>5
<1> QED
  BY <1>5, <1>6 DEF RemoveNode, RemoveAt, k, before, behind

(* The head and the successor of a linked node are linked nodes, or NULL.  *)
LEMMA TopAndNextNode ==
  ASSUME NEW S, NEW q \in Seq(S), NEW p
  PROVE  /\ TopNode(q) \in S \cup {NULL}
         /\ q # <<>> => TopNode(q) \in S
         /\ NextNode(q, p) \in S \cup {NULL}
<1>1. Len(q) \in Nat /\ (q # <<>> => Len(q) # 0)
  BY EmptySeq, LenProperties
<1>2. \A i \in 1..Len(q) : q[i] \in S
  BY ElementOfSeq
<1>3. q # <<>> => q[1] \in S
  BY <1>1, <1>2
<1>4. ASSUME ProcessInQueue(q, p), PositionOf(q, p) < Len(q)
      PROVE  q[PositionOf(q, p) + 1] \in S
  <2>1. PositionOf(q, p) \in 1..Len(q)
    BY <1>4, PositionInQueue
  <2> QED BY <1>1, <1>2, <1>4, <2>1
<1> QED
  BY <1>3, <1>4 DEF TopNode, NextNode

(* The nodes whose prev is wrong after removeNode are nodes of the list,   *)
(* or were wrong before.                                                   *)
LEMMA StaleAfterRemoveIsSet ==
  ASSUME NEW S, NEW q \in Seq(S), NEW p, ProcessInQueue(q, p), NEW stale \in SUBSET S
  PROVE  StaleAfterRemove(q, p, stale) \in SUBSET S
<1> DEFINE k == PositionOf(q, p)
<1>1. Len(q) \in Nat /\ \A i \in 1..Len(q) : q[i] \in S
  BY LenProperties, ElementOfSeq
<1>2. k \in 1..Len(q)
  BY PositionInQueue
<1>3. StaleAfterRemove(q, p, stale) \subseteq
        stale \cup (IF k < Len(q) THEN {q[k + 1]} ELSE {})
  BY DEF StaleAfterRemove
<1> HIDE DEF k
<1>4. k < Len(q) => q[k + 1] \in S
  BY <1>1, <1>2
<1> QED
  BY <1>3, <1>4

-----------------------------------------------------------------------------
(* What is at each position of a list after a node was linked in it: the   *)
(* nodes before it are where they were, those behind it one further.       *)
LEMMA InsertAtElements ==
  ASSUME NEW S, NEW q \in Seq(S), NEW p \in S, NEW k \in 1..(Len(q) + 1)
  PROVE  \A j \in 1..(Len(q) + 1) :
           InsertAt(q, k, p)[j] = IF j < k THEN q[j] ELSE IF j = k THEN p ELSE q[j - 1]
<1>1. Len(q) \in Nat /\ \A i \in 1..Len(q) : q[i] \in S
  BY LenProperties, ElementOfSeq
<1> DEFINE before == SubSeq(q, 1, k - 1)
           behind == SubSeq(q, k, Len(q))
<1>2. /\ before \in Seq(S) /\ Len(before) = k - 1
      /\ \A i \in 1..(k - 1) : before[i] = q[i]
  <2>1. \A i \in 1..(k - 1) : q[i] \in S
    BY <1>1
  <2>2. \A i \in 1..(k - 1) : before[i] = q[1 + i - 1]
    BY <1>1, <2>1, SubSeqProperties
  <2> QED BY <1>1, <2>1, <2>2, SubSeqProperties
<1>3. /\ behind \in Seq(S) /\ Len(behind) = Len(q) - k + 1
      /\ \A i \in 1..(Len(q) - k + 1) : behind[i] = q[k + i - 1]
  <2>1. \A i \in k..Len(q) : q[i] \in S
    BY <1>1
  <2> QED BY <1>1, <2>1, SubSeqProperties
<1>4. <<p>> \in Seq(S) /\ Len(<<p>>) = 1 /\ <<p>>[1] = p
  OBVIOUS
<1> HIDE DEF before, behind
<1> DEFINE both == before \o <<p>>
<1>5. /\ both \in Seq(S) /\ Len(both) = k
      /\ \A i \in 1..k : both[i] = IF i < k THEN q[i] ELSE p
  <2>1. /\ both \in Seq(S) /\ Len(both) = Len(before) + Len(<<p>>)
        /\ \A i \in 1..(Len(before) + Len(<<p>>)) :
             both[i] = IF i <= Len(before) THEN before[i] ELSE <<p>>[i - Len(before)]
    BY <1>2, <1>4, ConcatProperties
  <2>2. ASSUME NEW i \in 1..k PROVE both[i] = IF i < k THEN q[i] ELSE p
    <3>1. both[i] = IF i <= k - 1 THEN before[i] ELSE <<p>>[i - (k - 1)]
      BY <1>1, <1>2, <1>4, <2>1
    <3>2. CASE i < k
      BY <1>1, <1>2, <3>1, <3>2
    <3>3. CASE ~(i < k)
      <4>1. i = k /\ ~(i <= k - 1) /\ i - (k - 1) = 1
        BY <1>1, <3>3
      <4>2. both[i] = <<p>>[1]
        BY <3>1, <4>1
      <4> QED BY <1>4, <3>3, <4>2
    <3> QED BY <3>2, <3>3
  <2> QED BY <1>1, <1>2, <1>4, <2>1, <2>2
<1> HIDE DEF both
<1>6. \A i \in 1..(Len(both) + Len(behind)) :
        (both \o behind)[i] = IF i <= Len(both) THEN both[i] ELSE behind[i - Len(both)]
  BY <1>3, <1>5, ConcatProperties
<1>7. ASSUME NEW j \in 1..(Len(q) + 1)
      PROVE  (both \o behind)[j] = IF j < k THEN q[j] ELSE IF j = k THEN p ELSE q[j - 1]
  <2>1. (both \o behind)[j] = IF j <= k THEN both[j] ELSE behind[j - k]
    BY <1>1, <1>3, <1>5, <1>6
  <2>2. CASE j <= k
    BY <1>1, <1>5, <2>1, <2>2
  <2>3. CASE ~(j <= k)
    <3>1. j - k \in 1..(Len(q) - k + 1) /\ k + (j - k) - 1 = j - 1
      BY <1>1, <2>3
    <3>2. ~(j < k) /\ j # k
      BY <1>1, <2>3
    <3> QED BY <1>3, <2>1, <2>3, <3>1, <3>2
  <2> QED BY <2>2, <2>3
<1> QED
  BY <1>7 DEF InsertAt, both, before, behind

(* What is at each position of a list after a node was unlinked: the nodes *)
(* behind it are one further to the front.                                 *)
LEMMA RemoveNodeElements ==
  ASSUME NEW S, NEW q \in Seq(S), NEW p, ProcessInQueue(q, p)
  PROVE  \A j \in 1..(Len(q) - 1) :
           RemoveNode(q, p)[j] = IF j < PositionOf(q, p) THEN q[j] ELSE q[j + 1]
<1>1. Len(q) \in Nat /\ \A i \in 1..Len(q) : q[i] \in S
  BY LenProperties, ElementOfSeq
<1> DEFINE k == PositionOf(q, p)
           before == SubSeq(q, 1, k - 1)
           behind == SubSeq(q, k + 1, Len(q))
<1>2. k \in 1..Len(q)
  BY PositionInQueue
<1> HIDE DEF k
<1>3. /\ before \in Seq(S) /\ Len(before) = k - 1
      /\ \A i \in 1..(k - 1) : before[i] = q[i]
  <2>1. \A i \in 1..(k - 1) : q[i] \in S
    BY <1>1, <1>2
  <2>2. \A i \in 1..(k - 1) : before[i] = q[1 + i - 1]
    BY <1>1, <1>2, <2>1, SubSeqProperties
  <2> QED BY <1>1, <1>2, <2>1, <2>2, SubSeqProperties
<1>4. /\ behind \in Seq(S) /\ Len(behind) = Len(q) - k
      /\ \A i \in 1..(Len(q) - k) : behind[i] = q[k + i]
  <2>1. \A i \in (k + 1)..Len(q) : q[i] \in S
    BY <1>1, <1>2
  <2>2. \A i \in 1..(Len(q) - (k + 1) + 1) : behind[i] = q[(k + 1) + i - 1]
    BY <1>1, <1>2, <2>1, SubSeqProperties
  <2> QED BY <1>1, <1>2, <2>1, <2>2, SubSeqProperties
<1> HIDE DEF before, behind
<1>5. \A i \in 1..(Len(before) + Len(behind)) :
        (before \o behind)[i] =
          IF i <= Len(before) THEN before[i] ELSE behind[i - Len(before)]
  BY <1>3, <1>4, ConcatProperties
<1>6. ASSUME NEW j \in 1..(Len(q) - 1)
      PROVE  (before \o behind)[j] = IF j < k THEN q[j] ELSE q[j + 1]
  <2>1. (before \o behind)[j] = IF j <= k - 1 THEN before[j] ELSE behind[j - (k - 1)]
    BY <1>1, <1>2, <1>3, <1>4, <1>5
  <2>2. CASE j < k
    BY <1>1, <1>2, <1>3, <2>1, <2>2
  <2>3. CASE ~(j < k)
    <3>1. ~(j <= k - 1) /\ j - (k - 1) \in 1..(Len(q) - k) /\ k + (j - (k - 1)) = j + 1
      BY <1>1, <1>2, <2>3
    <3> QED BY <1>4, <2>1, <2>3, <3>1
  <2> QED BY <2>2, <2>3
<1> QED
  BY <1>6 DEF RemoveNode, RemoveAt, k, before, behind

(* The four ways a sorted insertion chooses its position.                  *)
LEMMA SortedPositionCases ==
  ASSUME NEW S, NEW q \in Seq(S), NEW p \in S, NEW key \in [S -> Int]
  PROVE  /\ q = <<>> => SortedPosition(q, p, key) = 1
         /\ q # <<>> /\ key[p] < key[q[1]] => SortedPosition(q, p, key) = 1
         /\ q # <<>> /\ key[p] >= key[q[1]] /\ key[p] >= key[q[Len(q)]]
              => SortedPosition(q, p, key) = Len(q) + 1
         /\ \A k \in 2..Len(q) :
              /\ q # <<>> /\ key[p] >= key[q[1]] /\ key[p] < key[q[Len(q)]]
              /\ key[p] < key[q[k]] /\ \A j \in 2..(k - 1) : key[p] >= key[q[j]]
              => SortedPosition(q, p, key) = k
<1>1. Len(q) \in Nat /\ (q # <<>> => Len(q) # 0)
  BY EmptySeq, LenProperties
<1>2. \A k \in 1..Len(q) : key[q[k]] \in Int
  BY ElementOfSeq
<1>3. q # <<>> => key[q[1]] \in Int /\ key[q[Len(q)]] \in Int
  BY <1>1, <1>2
<1>4. key[p] \in Int
  OBVIOUS
<1>5. ASSUME NEW k \in 2..Len(q),
             q # <<>>, key[p] >= key[q[1]], key[p] < key[q[Len(q)]],
             key[p] < key[q[k]], \A j \in 2..(k - 1) : key[p] >= key[q[j]]
      PROVE  SortedPosition(q, p, key) = k
  <2> DEFINE First(i) == /\ key[p] < key[q[i]]
                         /\ \A j \in 2..(i - 1) : key[p] >= key[q[j]]
  <2>1. First(k)
    BY <1>5
  <2>2. ASSUME NEW i \in 2..Len(q), First(i) PROVE i = k
    <3>1. ~(i < k)
      <4> SUFFICES ASSUME i < k PROVE FALSE
        OBVIOUS
      <4>1. i \in 2..(k - 1) /\ i \in 1..Len(q)
        BY <1>1
      <4>2. key[p] >= key[q[i]] /\ key[p] < key[q[i]]
        BY <1>5, <2>2, <4>1
      <4> QED BY <1>2, <1>4, <4>1, <4>2
    <3>2. ~(k < i)
      <4> SUFFICES ASSUME k < i PROVE FALSE
        OBVIOUS
      <4>1. k \in 2..(i - 1) /\ k \in 1..Len(q)
        BY <1>1
      <4>2. key[p] >= key[q[k]] /\ key[p] < key[q[k]]
        BY <1>5, <2>2, <4>1
      <4> QED BY <1>2, <1>4, <4>1, <4>2
    <3> QED BY <1>1, <3>1, <3>2
  <2>3. ~(q = <<>> \/ key[p] < key[q[1]]) /\ ~(key[p] >= key[q[Len(q)]])
    BY <1>3, <1>4, <1>5
  <2>4. SortedPosition(q, p, key) = CHOOSE i \in 2..Len(q) : First(i)
    BY <2>3 DEF SortedPosition
  <2> HIDE DEF First
  <2> QED
    BY <2>1, <2>2, <2>4
<1> QED
  BY <1>1, <1>3, <1>4, <1>5 DEF SortedPosition
=============================================================================
