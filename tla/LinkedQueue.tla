----------------------------- MODULE LinkedQueue -----------------------------
(***************************************************************************)
(* The doubly linked lists of queues.c, pointer by pointer: head, tail and *)
(* size of every queue, prev and next of every node.  A node is in one     *)
(* queue at a time and moves between queues, so what one call leaves in    *)
(* its pointers is there when the next call of another queue reads them.   *)
(*                                                                         *)
(* Two history variables say what the lists are meant to hold, in the      *)
(* terms of module Queues: the sequence of each queue, and the nodes whose *)
(* prev pointer is wrong.  That the pointers represent them is what makes  *)
(* Queues, and with it the scheduler's model, an abstraction of queues.c.  *)
(*                                                                         *)
(* Callers link a node that is in no queue and unlink one that is: the     *)
(* scheduler's model (fault "relinked") watches over this.                 *)
(***************************************************************************)
EXTENDS Queues, FiniteSets

CONSTANTS
    Nodes,       \* one for each process
    QueueIds,    \* the ready queues and the wait queue
    SortedIds,   \* those filled by enqueueNodePriority or enqueueNodeSJF
    Keys         \* the values of pcb->priority or executionTime

ASSUME NodeAssumption ==
  NULL \notin Nodes /\ SortedIds \subseteq QueueIds /\ Keys \subseteq Int

VARIABLES
    head, tail, size,   \* of each Queue
    prev, next, key,    \* of each Node
    call,               \* the sorted insertion whose loop is running
    chain,              \* history: the nodes of each queue, in order
    stale,              \* history: the nodes whose prev is wrong
    sound               \* history: no wrong prev has been followed

pointers == <<head, tail, size, prev, next>>
vars == <<pointers, key, call, chain, stale, sound>>

NoCall == [queue |-> NULL, node |-> NULL, tmp |-> NULL]

Init ==
  /\ head = [q \in QueueIds |-> NULL] /\ tail = [q \in QueueIds |-> NULL]
  /\ size = [q \in QueueIds |-> 0]
  /\ prev = [n \in Nodes |-> NULL] /\ next = [n \in Nodes |-> NULL]
  /\ key \in [Nodes -> Keys]
  /\ call = NoCall
  /\ chain = [q \in QueueIds |-> <<>>] /\ stale = {} /\ sound = TRUE

-----------------------------------------------------------------------------
(* Histories *)

LinkedIn(q, n) == ProcessInQueue(chain[q], n)

Unlinked(n) == \A q \in QueueIds : ~LinkedIn(q, n)

\* n is put before position k of q.
Inserted(q, n, k) ==
  /\ chain' = [chain EXCEPT ![q] = InsertAt(@, k, n)]
  /\ stale' = StaleAfterInsert(chain[q], k, n, stale)
  /\ sound' = InsertIsSound(chain[q], k, stale)

\* The next call may begin.
Ready == call = NoCall /\ sound

-----------------------------------------------------------------------------
(* enqueueNodeFCFS, and enqueueNodePriority and enqueueNodeSJF at one end  *)
(* of the list                                                             *)

LinkOnly(q, n) ==
  /\ head[q] = NULL
  /\ head' = [head EXCEPT ![q] = n] /\ tail' = [tail EXCEPT ![q] = n]
  /\ prev' = [prev EXCEPT ![n] = NULL] /\ next' = [next EXCEPT ![n] = NULL]

LinkBack(q, n) ==
  /\ head[q] # NULL
  /\ prev' = [prev EXCEPT ![n] = tail[q]]
  /\ next' = [next EXCEPT ![n] = NULL, ![tail[q]] = n]
  /\ tail' = [tail EXCEPT ![q] = n]
  /\ UNCHANGED head

\* mutant: the old head gets no prev
LinkFront_noPrev(q, n) ==
  /\ head[q] # NULL
  /\ prev' = [prev EXCEPT ![n] = NULL]
  /\ next' = [next EXCEPT ![n] = head[q]]
  /\ head' = [head EXCEPT ![q] = n]
  /\ UNCHANGED tail

LinkFront(q, n) ==
  /\ head[q] # NULL
  /\ prev' = [prev EXCEPT ![n] = NULL, ![head[q]] = n]
  /\ next' = [next EXCEPT ![n] = head[q]]
  /\ head' = [head EXCEPT ![q] = n]
  /\ UNCHANGED tail

SizeIncremented(q) == size' = [size EXCEPT ![q] = @ + 1]

EnqueueNodeFCFS(q, n) ==
  /\ Ready /\ q \notin SortedIds /\ Unlinked(n)
  /\ LinkOnly(q, n) \/ LinkBack(q, n)
  /\ SizeIncremented(q)
  /\ Inserted(q, n, Len(chain[q]) + 1)
  /\ UNCHANGED <<key, call>>

\* The key of a node is its priority, or was stored before the call.
EnqueueNodeSorted(q, n, k) ==
  /\ Ready /\ q \in SortedIds /\ Unlinked(n)
  /\ key' = [key EXCEPT ![n] = k]
  /\ \/ LinkOnly(q, n)
     \/ head[q] # NULL /\ k < key[head[q]] /\ LinkFront(q, n)
     \/ head[q] # NULL /\ k >= key[head[q]] /\ k >= key[tail[q]] /\ LinkBack(q, n)
  /\ SizeIncremented(q)
  /\ Inserted(q, n, SortedPosition(chain[q], n, key'))
  /\ UNCHANGED call

\* In the middle of the list: `tmp` goes from the second node to the first one
\* with a larger key, and the node is linked before it.
SearchFromSecond(q, n, k) ==
  /\ Ready /\ q \in SortedIds /\ Unlinked(n)
  /\ head[q] # NULL /\ k >= key[head[q]] /\ k < key[tail[q]]
  /\ key' = [key EXCEPT ![n] = k]
  /\ call' = [queue |-> q, node |-> n, tmp |-> next[head[q]]]
  /\ UNCHANGED <<pointers, chain, stale, sound>>

\* mutant: the loop does not look at the keys
SearchOn_anyKey ==
  /\ call # NoCall
  /\ call' = [call EXCEPT !.tmp = next[@]]
  /\ UNCHANGED <<pointers, key, chain, stale, sound>>

SearchOn ==
  /\ call # NoCall /\ key[call.node] >= key[call.tmp]
  /\ call' = [call EXCEPT !.tmp = next[@]]
  /\ UNCHANGED <<pointers, key, chain, stale, sound>>

\* (tmp->prev)->next is written before node->prev is read from tmp.
LinkBefore ==
  LET q   == call.queue
      n   == call.node
      tmp == call.tmp
  IN /\ call # NoCall /\ key[n] < key[tmp]
     /\ next' = [next EXCEPT ![prev[tmp]] = n, ![n] = tmp]
     /\ prev' = [prev EXCEPT ![n] = prev[tmp], ![tmp] = n]
     /\ SizeIncremented(q)
     /\ Inserted(q, n, SortedPosition(chain[q], n, key))
     /\ call' = NoCall
     /\ UNCHANGED <<head, tail, key>>

-----------------------------------------------------------------------------
(* dequeueTopNode *)

AfterDequeue(q) ==
  IF next[head[q]] = NULL
  THEN tail' = [tail EXCEPT ![q] = NULL] /\ UNCHANGED prev
  ELSE prev' = [prev EXCEPT ![next[head[q]]] = NULL] /\ UNCHANGED tail

UnlinkTop(q) ==
  /\ Ready /\ head[q] # NULL
  /\ head' = [head EXCEPT ![q] = next[head[q]]]
  /\ AfterDequeue(q)
  /\ size' = [size EXCEPT ![q] = @ - 1]
  /\ chain' = [chain EXCEPT ![q] = DequeueTopNode(@)]
  /\ stale' = StaleAfterDequeue(chain[q], stale)
  /\ UNCHANGED <<next, key, call, sound>>

\* The wait queue is asked for its first node also when it has none.
DequeueNothing(q) ==
  /\ Ready /\ head[q] = NULL
  /\ tail' = [tail EXCEPT ![q] = NULL]
  /\ UNCHANGED <<head, size, prev, next, key, call, chain, stale, sound>>

-----------------------------------------------------------------------------
(* removeNode *)

\* The head: tail is left alone, also when the queue becomes empty.
UnlinkHead(q, n) ==
  /\ head[q] = n
  /\ head' = [head EXCEPT ![q] = next[n]]
  /\ prev' = IF next[n] = NULL THEN prev ELSE [prev EXCEPT ![next[n]] = NULL]
  /\ UNCHANGED <<tail, next>>

UnlinkTail(q, n) ==
  /\ head[q] # n /\ tail[q] = n
  /\ tail' = [tail EXCEPT ![q] = prev[n]]
  /\ next' = [next EXCEPT ![prev[n]] = NULL]
  /\ UNCHANGED <<head, prev>>

\* mutant: the successor is linked back to the head of the list
UnlinkMiddle_head(q, n) ==
  /\ head[q] # n /\ tail[q] # n
  /\ next' = [next EXCEPT ![prev[n]] = next[n]]
  /\ prev' = [prev EXCEPT ![next[n]] = head[q]]
  /\ UNCHANGED <<head, tail>>

\* The loop finds the node; the prev of its successor is set to the node itself.
UnlinkMiddle(q, n) ==
  /\ head[q] # n /\ tail[q] # n
  /\ next' = [next EXCEPT ![prev[n]] = next[n]]
  /\ prev' = [prev EXCEPT ![next[n]] = n]
  /\ UNCHANGED <<head, tail>>

SizeDecremented(q) == size' = [size EXCEPT ![q] = @ - 1]

Unlink(q, n) ==
  /\ Ready /\ LinkedIn(q, n)
  /\ UnlinkHead(q, n) \/ UnlinkTail(q, n) \/ UnlinkMiddle(q, n)
  /\ SizeDecremented(q)
  /\ chain' = [chain EXCEPT ![q] = RemoveNode(@, n)]
  /\ stale' = StaleAfterRemove(chain[q], n, stale)
  /\ sound' = RemoveIsSound(chain[q], n, stale)
  /\ UNCHANGED <<key, call>>

\* A wrong prev has been followed: nothing is known of what happens next.
Stop == ~sound /\ UNCHANGED vars

-----------------------------------------------------------------------------
Next ==
  \/ \E q \in QueueIds, n \in Nodes :
       \/ EnqueueNodeFCFS(q, n)
       \/ \E k \in Keys : EnqueueNodeSorted(q, n, k) \/ SearchFromSecond(q, n, k)
       \/ Unlink(q, n)
  \/ SearchOn \/ LinkBefore
  \/ \E q \in QueueIds : UnlinkTop(q) \/ DequeueNothing(q)
  \/ Stop

\* Calls are made in any order.
Spec == Init /\ [][Next]_vars

-----------------------------------------------------------------------------
(* Types: pointers are nodes or NULL. *)
TypeOK ==
  /\ head \in [QueueIds -> Nodes \cup {NULL}] /\ tail \in [QueueIds -> Nodes \cup {NULL}]
  /\ size \in [QueueIds -> Int]
  /\ prev \in [Nodes -> Nodes \cup {NULL}] /\ next \in [Nodes -> Nodes \cup {NULL}]
  /\ key \in [Nodes -> Keys]
  /\ call = NoCall \/ call \in [queue : SortedIds, node : Nodes, tmp : Nodes]
  /\ chain \in [QueueIds -> Seq(Nodes)] /\ stale \subseteq Nodes /\ sound \in BOOLEAN

\* The pointers of queue q hold the sequence s, and every prev but the stale
\* ones points to the predecessor.
Represents(q, s) ==
  /\ size[q] = Len(s)
  /\ Len(s) = 0 => head[q] = NULL
  /\ Len(s) > 0 => head[q] = s[1] /\ tail[q] = s[Len(s)]
  /\ \A k \in 1..Len(s) : next[s[k]] = (IF k < Len(s) THEN s[k + 1] ELSE NULL)
  /\ \A k \in 2..Len(s) : s[k] \notin stale <=> prev[s[k]] = s[k - 1]

(* queues.c implements the sequences of module Queues: after every call,   *)
(* in whatever order queues are filled and emptied, the pointers represent *)
(* the sequence the operators of Queues compute, and the prev pointers     *)
(* that are wrong are those removeNode left wrong.                         *)
ImplementsSequences == sound => \A q \in QueueIds : Represents(q, chain[q])

(* The condition under which the model of the scheduler stops ("stalePrev")*)
(* is no false alarm: once a stale prev has been followed, the pointers    *)
(* represent the lists no more.                                            *)
StalePrevIsFatal == sound \/ \E q \in QueueIds : ~Represents(q, chain[q])

(* A sorted insertion stops at the right node: it never runs off the list, *)
(* and every node it has passed has a key that is not larger.              *)
SearchInOrder ==
  call # NoCall =>
    \E k \in 2..Len(chain[call.queue]) :
      /\ call.tmp = chain[call.queue][k]
      /\ \A j \in 1..(k - 1) : key[chain[call.queue][j]] <= key[call.node]
      /\ key[call.node] < key[tail[call.queue]]

\* The nodes found from the head of q, following next.
Forward(q) ==
  LET walk[k \in 0..Cardinality(Nodes)] ==
        IF k = 0 THEN {head[q]}
        ELSE walk[k - 1] \cup {next[n] : n \in walk[k - 1] \ {NULL}}
  IN walk[Cardinality(Nodes)] \ {NULL}

(* removeNode, as queues.h:111 describes it: "Dequeue a specific Node from *)
(* the given queue (if present)".  Afterwards the node is not found in the *)
(* queue, and every other node of it still is.                             *)
RemoveNodeUnlinks ==
  [][\A q \in QueueIds, n \in Nodes :
       Unlink(q, n) => Forward(q)' = Forward(q) \ {n}]_vars
=============================================================================
