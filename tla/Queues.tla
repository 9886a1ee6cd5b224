------------------------------- MODULE Queues -------------------------------
(***************************************************************************)
(* The list operations of queues.c, seen through the forward chain         *)
(* head -> next -> ... of a queue: a sequence of the processes whose nodes *)
(* are linked.  A process has one node for its whole life (initNode in     *)
(* processArrived, freeNode when it terminates), so the process stands for *)
(* its node.                                                               *)
(*                                                                         *)
(* The backward chain is the forward chain reversed, with one exception:   *)
(* removeNode, unlinking a node that is neither head nor tail, leaves the  *)
(* prev pointer of the successor on the node it removed.  The set of the   *)
(* nodes whose prev is wrong in this way is the only thing a model needs   *)
(* beside the sequences; the Stale operators say how it changes.           *)
(***************************************************************************)
EXTENDS Integers, Sequences, SequencesExt

\* The null pointer; processes are numbered from 1.
NULL == 0

\* topNode: the head, without unlinking it.
TopNode(q) == IF q = <<>> THEN NULL ELSE q[1]

\* processInQueue: the node of p is linked in q.
ProcessInQueue(q, p) == \E k \in DOMAIN q : q[k] = p

PositionOf(q, p) == CHOOSE k \in DOMAIN q : q[k] = p

\* node->next of the node of p: NULL for the tail of q.
NextNode(q, p) ==
  IF ProcessInQueue(q, p) /\ PositionOf(q, p) < Len(q) THEN q[PositionOf(q, p) + 1] ELSE NULL

-----------------------------------------------------------------------------
\* Where enqueueNodePriority and enqueueNodeSJF put p in q: before the first
\* node with a larger key, so after the nodes whose key is equal.
SortedPosition(q, p, key) ==
  IF q = <<>> \/ key[p] < key[q[1]] THEN 1
  ELSE IF key[p] >= key[q[Len(q)]] THEN Len(q) + 1
  ELSE CHOOSE k \in 2..Len(q) : /\ key[p] < key[q[k]]
                                /\ \A j \in 2..(k - 1) : key[p] >= key[q[j]]

\* putprocessInQueue: the position at which a queue of the given type links p.
\* `priority` and `execution` give the two sort keys of every process.
InsertPosition_noSJF(type, q, p, priority, execution) ==     \* mutant: a missing case
  IF type = "PRIORITY" THEN SortedPosition(q, p, priority) ELSE Len(q) + 1

InsertPosition(type, q, p, priority, execution) ==
  CASE type \in {"FCFS", "RR"} -> Len(q) + 1
    [] type = "SJF"            -> SortedPosition(q, p, execution)
    [] type = "PRIORITY"       -> SortedPosition(q, p, priority)

\* Linking before position k reads (tmp->prev)->next when k is in the middle.
InsertIsSound(q, k, stale) == k \in 2..Len(q) => q[k] \notin stale

\* Linking p sets its own prev, and the prev of the node it is put before.
StaleAfterInsert(q, k, p, stale) ==
  stale \ (IF k \in DOMAIN q THEN {p, q[k]} ELSE {p})

-----------------------------------------------------------------------------
\* removeNode follows p->prev unless p is the head.
RemoveIsSound(q, p, stale) ==
  ProcessInQueue(q, p) /\ (TopNode(q) = p \/ p \notin stale)

RemoveNode(q, p) == RemoveAt(q, PositionOf(q, p))

\* A new head gets prev = NULL; the successor of a node unlinked from the
\* middle keeps pointing back to it.
StaleAfterRemove(q, p, stale) ==
  LET k == PositionOf(q, p)
  IN IF k = 1 THEN stale \ {p, NextNode(q, p)}
     ELSE IF k < Len(q) THEN (stale \ {p}) \cup {q[k + 1]}
     ELSE stale \ {p}

\* dequeueTopNode: unlinks the head and sets prev = NULL in the next one.
DequeueTopNode_peek(q) == q                \* mutant: topNode is called instead

DequeueTopNode(q) == Tail(q)

StaleAfterDequeue(q, stale) == stale \ {NextNode(q, q[1])}
=============================================================================
