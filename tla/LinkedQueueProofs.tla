-------------------------- MODULE LinkedQueueProofs --------------------------
(***************************************************************************)
(* queues.c implements the sequences of module Queues: for any number of   *)
(* nodes, queues and keys, and any order of calls.                         *)
(*                                                                         *)
(* That the pointers represent the sequences is not inductive alone.  A    *)
(* call on one queue leaves the pointers of the others alone only because  *)
(* a node is in one queue, once; the loop of a sorted insertion links at   *)
(* the right place because of the nodes it has passed.                     *)
(***************************************************************************)
EXTENDS LinkedQueue, QueuesProofs

\* A node is linked once, in one queue.
DistinctNodes ==
  \A q, r \in QueueIds : \A i \in 1..Len(chain[q]), j \in 1..Len(chain[r]) :
    chain[q][i] = chain[r][j] => q = r /\ i = j

\* The node of a running insertion is in no queue.
CallOK == call # NoCall => sound /\ Unlinked(call.node)

LInv == TypeOK /\ DistinctNodes /\ ImplementsSequences /\ SearchInOrder /\ CallOK

-----------------------------------------------------------------------------
(* What the invariant says of one queue.                                   *)
LEMMA ChainFacts ==
  ASSUME TypeOK, NEW q \in QueueIds
  PROVE  /\ chain[q] \in Seq(Nodes) /\ Len(chain[q]) \in Nat
         /\ \A j \in 1..Len(chain[q]) : chain[q][j] \in Nodes /\ chain[q][j] # NULL
         /\ DOMAIN chain[q] = 1..Len(chain[q])
<1>1. chain[q] \in Seq(Nodes)
  BY DEF TypeOK
<1>2. Len(chain[q]) \in Nat /\ DOMAIN chain[q] = 1..Len(chain[q])
  BY <1>1, LenProperties
<1>3. \A j \in 1..Len(chain[q]) : chain[q][j] \in Nodes
  BY <1>1, ElementOfSeq
<1> QED
  BY <1>1, <1>2, <1>3, NodeAssumption

(* A node that is in no queue is at no position of a queue.                *)
LEMMA UnlinkedFacts ==
  ASSUME TypeOK, NEW n, Unlinked(n), NEW q \in QueueIds
  PROVE  \A j \in 1..Len(chain[q]) : chain[q][j] # n
BY ChainFacts DEF Unlinked, LinkedIn, ProcessInQueue

(* What the pointers of a queue have to be after a call.                   *)
LEMMA RepresentsAfter ==
  ASSUME NEW q, NEW m,
         Len(chain'[q]) = m, size'[q] = m,
         m = 0 => head'[q] = NULL,
         m > 0 => head'[q] = chain'[q][1] /\ tail'[q] = chain'[q][m],
         \A j \in 1..m : next'[chain'[q][j]] = IF j < m THEN chain'[q][j + 1] ELSE NULL,
         \A j \in 2..m : chain'[q][j] \notin stale' <=> prev'[chain'[q][j]] = chain'[q][j - 1]
  PROVE  Represents(q, chain[q])'
BY DEF Represents

(* A queue whose pointers, nodes and links a call leaves alone is still    *)
(* represented.                                                            *)
LEMMA OtherQueue ==
  ASSUME NEW r \in QueueIds, Represents(r, chain[r]), chain'[r] = chain[r],
         head'[r] = head[r], tail'[r] = tail[r], size'[r] = size[r],
         \A j \in 1..Len(chain[r]) :
           /\ next'[chain[r][j]] = next[chain[r][j]]
           /\ prev'[chain[r][j]] = prev[chain[r][j]]
           /\ chain[r][j] \in stale' <=> chain[r][j] \in stale,
         Len(chain[r]) \in Nat
  PROVE  Represents(r, chain[r])'
BY DEF Represents

(* Linking a node that is in no queue: the node is where it belongs, the   *)
(* others keep their order, the other queues are what they were, and every *)
(* node is still linked once.                                              *)
LEMMA InsertedFacts ==
  ASSUME TypeOK, DistinctNodes, NEW q \in QueueIds, NEW n \in Nodes, Unlinked(n),
         NEW k \in 1..(Len(chain[q]) + 1), Inserted(q, n, k)
  PROVE  /\ chain' \in [QueueIds -> Seq(Nodes)]
         /\ stale' \in SUBSET Nodes
         /\ sound' \in BOOLEAN
         /\ Len(chain'[q]) = Len(chain[q]) + 1
         /\ \A j \in 1..(Len(chain[q]) + 1) :
              chain'[q][j] = IF j < k THEN chain[q][j]
                             ELSE IF j = k THEN n ELSE chain[q][j - 1]
         /\ \A r \in QueueIds \ {q} : chain'[r] = chain[r]
         /\ \A x \in Nodes : x \in stale' <=> /\ x \in stale /\ x # n
                                              /\ k <= Len(chain[q]) => x # chain[q][k]
         /\ sound' <=> (k \in 2..Len(chain[q]) => chain[q][k] \notin stale)
         /\ DistinctNodes'
<1> DEFINE s == chain[q]
           t == InsertAt(s, k, n)
<1>1. s \in Seq(Nodes) /\ Len(s) \in Nat /\ DOMAIN s = 1..Len(s)
  BY ChainFacts
<1>2. /\ chain' = [chain EXCEPT ![q] = t]
      /\ stale' = stale \ (IF k \in DOMAIN s THEN {n, s[k]} ELSE {n})
      /\ sound' = (k \in 2..Len(s) => s[k] \notin stale)
  BY DEF Inserted, StaleAfterInsert, InsertIsSound
<1>3. t \in Seq(Nodes) /\ Len(t) = Len(s) + 1
  BY <1>1, InsertAtIsSeq
<1>4. \A j \in 1..(Len(s) + 1) :
        t[j] = IF j < k THEN s[j] ELSE IF j = k THEN n ELSE s[j - 1]
  BY <1>1, InsertAtElements
<1> HIDE DEF t
<1>5. chain'[q] = t /\ \A r \in QueueIds \ {q} : chain'[r] = chain[r]
  BY <1>2 DEF TypeOK
<1>6. chain' \in [QueueIds -> Seq(Nodes)]
  BY <1>2, <1>3 DEF TypeOK
<1>7. stale' \in SUBSET Nodes /\ sound' \in BOOLEAN
  BY <1>2 DEF TypeOK
<1>8. \A x \in Nodes : x \in stale' <=> x \in stale /\ x # n /\ (k <= Len(s) => x # s[k])
  BY <1>1, <1>2
<1>9. \A r \in QueueIds : \A j \in 1..Len(chain[r]) : chain[r][j] # n
  BY UnlinkedFacts
<1>10. \A i, j \in 1..(Len(s) + 1) : t[i] = t[j] => i = j
  <2> SUFFICES ASSUME NEW i \in 1..(Len(s) + 1), NEW j \in 1..(Len(s) + 1), t[i] = t[j]
               PROVE  i = j
    OBVIOUS
  <2>1. \A a, b \in 1..Len(s) : s[a] = s[b] => a = b
    BY DEF DistinctNodes
  <2>2. \A a \in 1..Len(s) : s[a] # n
    BY <1>9
  <2> DEFINE old(m) == IF m < k THEN m ELSE m - 1
  <2>3. \A m \in 1..(Len(s) + 1) : m # k => old(m) \in 1..Len(s) /\ t[m] = s[old(m)]
    BY <1>1, <1>4
  <2>4. t[k] = n
    BY <1>1, <1>4
  <2>5. i = k <=> j = k
    BY <1>1, <2>2, <2>3, <2>4
  <2>6. i # k /\ j # k => old(i) = old(j)
    BY <2>1, <2>3
  <2> QED BY <1>1, <2>5, <2>6
<1>11. \A r \in QueueIds \ {q} : \A i \in 1..(Len(s) + 1), j \in 1..Len(chain[r]) :
         t[i] # chain[r][j]
  <2> SUFFICES ASSUME NEW r \in QueueIds \ {q}, NEW i \in 1..(Len(s) + 1),
                      NEW j \in 1..Len(chain[r])
               PROVE  t[i] # chain[r][j]
    OBVIOUS
  <2>1. \A a \in 1..Len(s) : s[a] # chain[r][j]
    BY DEF DistinctNodes
  <2>2. t[i] = n \/ \E a \in 1..Len(s) : t[i] = s[a]
    <3>1. CASE i < k
      BY <1>1, <1>4, <3>1
    <3>2. CASE i = k
      BY <1>1, <1>4, <3>2
    <3>3. CASE k < i
      <4>1. i - 1 \in 1..Len(s) /\ ~(i < k) /\ i # k
        BY <1>1, <3>3
      <4> QED BY <1>4, <4>1
    <3> QED BY <1>1, <3>1, <3>2, <3>3
  <2> QED BY <1>9, <2>1, <2>2
<1>12. DistinctNodes'
  <2> SUFFICES ASSUME NEW r1 \in QueueIds, NEW r2 \in QueueIds,
                      NEW i \in 1..Len(chain'[r1]), NEW j \in 1..Len(chain'[r2]),
                      chain'[r1][i] = chain'[r2][j]
               PROVE  r1 = r2 /\ i = j
    BY DEF DistinctNodes
  <2>1. CASE r1 = q /\ r2 = q
    BY <1>3, <1>5, <1>10, <2>1
  <2>2. CASE r1 = q /\ r2 # q
    BY <1>3, <1>5, <1>11, <2>2
  <2>3. CASE r1 # q /\ r2 = q
    BY <1>3, <1>5, <1>11, <2>3
  <2>4. CASE r1 # q /\ r2 # q
    BY <1>5, <2>4 DEF DistinctNodes
  <2> QED BY <2>1, <2>2, <2>3, <2>4
<1> QED
  BY <1>2, <1>3, <1>4, <1>5, <1>6, <1>7, <1>8, <1>12

(* Unlinking the node at position k: the others keep their order, the      *)
(* other queues are what they were, the node is in no queue any more.      *)
LEMMA RemovedFacts ==
  ASSUME TypeOK, DistinctNodes, NEW q \in QueueIds, NEW k \in 1..Len(chain[q]),
         NEW t \in Seq(Nodes), Len(t) = Len(chain[q]) - 1,
         \A j \in 1..(Len(chain[q]) - 1) :
           t[j] = IF j < k THEN chain[q][j] ELSE chain[q][j + 1],
         chain' = [chain EXCEPT ![q] = t]
  PROVE  /\ chain' \in [QueueIds -> Seq(Nodes)]
         /\ Len(chain'[q]) = Len(chain[q]) - 1
         /\ \A j \in 1..(Len(chain[q]) - 1) :
              chain'[q][j] = IF j < k THEN chain[q][j] ELSE chain[q][j + 1]
         /\ \A r \in QueueIds \ {q} : chain'[r] = chain[r]
         /\ DistinctNodes'
<1> DEFINE s == chain[q]
<1>1. s \in Seq(Nodes) /\ Len(s) \in Nat
  BY ChainFacts
<1>2. chain'[q] = t /\ \A r \in QueueIds \ {q} : chain'[r] = chain[r]
  BY DEF TypeOK
<1>3. chain' \in [QueueIds -> Seq(Nodes)]
  BY DEF TypeOK
<1> DEFINE old(m) == IF m < k THEN m ELSE m + 1
<1>4. \A m \in 1..(Len(s) - 1) : old(m) \in 1..Len(s) /\ t[m] = s[old(m)]
  BY <1>1
<1>5. DistinctNodes'
  <2> SUFFICES ASSUME NEW r1 \in QueueIds, NEW r2 \in QueueIds,
                      NEW i \in 1..Len(chain'[r1]), NEW j \in 1..Len(chain'[r2]),
                      chain'[r1][i] = chain'[r2][j]
               PROVE  r1 = r2 /\ i = j
    BY DEF DistinctNodes
  <2>1. CASE r1 = q /\ r2 = q
    <3>1. i \in 1..(Len(s) - 1) /\ j \in 1..(Len(s) - 1) /\ t[i] = t[j]
      BY <1>2, <2>1
    <3>2. s[old(i)] = s[old(j)] /\ old(i) \in 1..Len(s) /\ old(j) \in 1..Len(s)
      BY <1>4, <3>1
    <3>3. old(i) = old(j)
      BY <3>2 DEF DistinctNodes
    <3> QED BY <1>1, <2>1, <3>1, <3>3
  <2>2. CASE r1 = q /\ r2 # q
    BY SMTT(30), <1>2, <1>4, <2>2 DEF DistinctNodes
  <2>3. CASE r1 # q /\ r2 = q
    <3>1. j \in 1..(Len(s) - 1) /\ chain[r1][i] = t[j] /\ i \in 1..Len(chain[r1])
      BY <1>2, <2>3
    <3>2. chain[r1][i] = chain[q][old(j)] /\ old(j) \in 1..Len(chain[q])
      BY <1>4, <3>1
    <3> QED BY <2>3, <3>1, <3>2 DEF DistinctNodes
  <2>4. CASE r1 # q /\ r2 # q
    BY <1>2, <2>4 DEF DistinctNodes
  <2> QED BY <2>1, <2>2, <2>3, <2>4
<1> QED
  BY <1>2, <1>3, <1>5

-----------------------------------------------------------------------------
(* Linking a node at one end of a list                                     *)

\* What a call leaves behind in the pointers.
PointersOK ==
  /\ head \in [QueueIds -> Nodes \cup {NULL}] /\ tail \in [QueueIds -> Nodes \cup {NULL}]
  /\ size \in [QueueIds -> Int]
  /\ prev \in [Nodes -> Nodes \cup {NULL}] /\ next \in [Nodes -> Nodes \cup {NULL}]
  /\ ImplementsSequences

(* A node put at the front, at the back, or in an empty list.              *)
LEMMA EndLinked ==
  ASSUME LInv, sound, NEW q \in QueueIds, NEW n \in Nodes, Unlinked(n),
         NEW k \in 1..(Len(chain[q]) + 1), Inserted(q, n, k), SizeIncremented(q),
         \/ LinkOnly(q, n) /\ k = 1
         \/ LinkFront(q, n) /\ k = 1
         \/ LinkBack(q, n) /\ k = Len(chain[q]) + 1
  PROVE  PointersOK'
<1> DEFINE s == chain[q]
           L == Len(s)
<1>1. TypeOK /\ DistinctNodes /\ ImplementsSequences
  BY DEF LInv
<1>2. s \in Seq(Nodes) /\ L \in Nat /\ \A j \in 1..L : s[j] \in Nodes /\ s[j] # NULL
  BY <1>1, ChainFacts
<1>3. /\ size[q] = L
      /\ L = 0 => head[q] = NULL
      /\ L > 0 => head[q] = s[1] /\ tail[q] = s[L]
      /\ \A j \in 1..L : next[s[j]] = IF j < L THEN s[j + 1] ELSE NULL
      /\ \A j \in 2..L : s[j] \notin stale <=> prev[s[j]] = s[j - 1]
  BY <1>1 DEF ImplementsSequences, Represents
<1>4. \A r \in QueueIds : \A j \in 1..Len(chain[r]) : chain[r][j] # n
  BY <1>1, UnlinkedFacts
<1>5. \A i, j \in 1..L : s[i] = s[j] => i = j
  BY <1>1 DEF DistinctNodes
<1>6. \A r \in QueueIds \ {q} : \A i \in 1..L, j \in 1..Len(chain[r]) : s[i] # chain[r][j]
  BY <1>1 DEF DistinctNodes
<1>7. n # NULL
  BY NodeAssumption
<1>8. /\ Len(chain'[q]) = L + 1
      /\ \A j \in 1..(L + 1) :
           chain'[q][j] = IF j < k THEN s[j] ELSE IF j = k THEN n ELSE s[j - 1]
      /\ \A r \in QueueIds \ {q} : chain'[r] = chain[r]
      /\ \A x \in Nodes : x \in stale' <=> x \in stale /\ x # n /\ (k <= L => x # s[k])
  BY <1>1, InsertedFacts
<1>9. size' \in [QueueIds -> Int] /\ size'[q] = L + 1
      /\ \A r \in QueueIds \ {q} : size'[r] = size[r]
  BY <1>1, <1>3 DEF SizeIncremented, TypeOK
<1>10. /\ head' \in [QueueIds -> Nodes \cup {NULL}] /\ tail' \in [QueueIds -> Nodes \cup {NULL}]
       /\ prev' \in [Nodes -> Nodes \cup {NULL}] /\ next' \in [Nodes -> Nodes \cup {NULL}]
       /\ \A r \in QueueIds \ {q} : head'[r] = head[r] /\ tail'[r] = tail[r]
       /\ \A x \in Nodes : x # n /\ x # tail[q] => next'[x] = next[x]
       /\ \A x \in Nodes : x # n /\ x # head[q] => prev'[x] = prev[x]
  <2>1. CASE LinkOnly(q, n)
    BY <1>1, <2>1 DEF LinkOnly, TypeOK
  <2>2. CASE LinkFront(q, n)
    BY <1>1, <2>2 DEF LinkFront, TypeOK
  <2>3. CASE LinkBack(q, n)
    BY <1>1, <2>3 DEF LinkBack, TypeOK
  <2> QED BY <2>1, <2>2, <2>3
<1>11. Represents(q, chain[q])'
  <2>1. CASE LinkOnly(q, n) /\ k = 1
    <3>1. head[q] = NULL /\ head'[q] = n /\ tail'[q] = n /\ next'[n] = NULL
      BY <1>1, <2>1 DEF LinkOnly, TypeOK
    <3>2. L = 0
      BY <1>2, <1>3, <3>1
    <3>3. Len(chain'[q]) = 1 /\ chain'[q][1] = n
      BY <1>2, <1>8, <2>1, <3>2
    <3> QED BY <1>9, <3>1, <3>2, <3>3 DEF Represents
  <2>2. CASE LinkFront(q, n) /\ k = 1
    <3>1. /\ head[q] # NULL /\ head'[q] = n /\ tail'[q] = tail[q]
          /\ next' = [next EXCEPT ![n] = head[q]]
          /\ prev' = [prev EXCEPT ![n] = NULL, ![head[q]] = n]
      BY <1>1, <2>2 DEF LinkFront, TypeOK
    <3>2. L > 0 /\ head[q] = s[1] /\ tail[q] = s[L] /\ s[1] \in Nodes
      BY <1>2, <1>3, <3>1
    <3>3. chain'[q][1] = n /\ \A j \in 2..(L + 1) : chain'[q][j] = s[j - 1]
      <4>1. chain'[q][1] = n
        BY <1>2, <1>8, <2>2
      <4>2. ASSUME NEW j \in 2..(L + 1) PROVE chain'[q][j] = s[j - 1]
        <5>1. j \in 1..(L + 1) /\ ~(j < k) /\ j # k
          BY <1>2, <2>2
        <5> QED BY <1>8, <5>1
      <4> QED BY <4>1, <4>2
    <3>4. next'[n] = s[1] /\ \A j \in 1..L : next'[s[j]] = next[s[j]]
      BY <1>1, <1>2, <1>4, <3>1, <3>2 DEF TypeOK
    <3>5. prev'[s[1]] = n /\ \A j \in 2..L : prev'[s[j]] = prev[s[j]]
      <4>1. \A j \in 2..L : s[j] # s[1]
        BY <1>2, <1>5
      <4> QED BY <1>1, <1>2, <1>4, <3>1, <3>2, <4>1 DEF TypeOK
    <3>6. s[1] \notin stale' /\ \A j \in 2..L : s[j] \in stale' <=> s[j] \in stale
      <4>1. \A j \in 2..L : s[j] # s[1] /\ s[j] # n /\ s[j] \in Nodes
        BY <1>2, <1>4, <1>5
      <4> QED BY <1>2, <1>8, <2>2, <3>2, <4>1
    <3>7. \A j \in 1..(L + 1) :
            next'[chain'[q][j]] = IF j < L + 1 THEN chain'[q][j + 1] ELSE NULL
      <4> SUFFICES ASSUME NEW j \in 1..(L + 1)
                   PROVE  next'[chain'[q][j]] = IF j < L + 1 THEN chain'[q][j + 1] ELSE NULL
        OBVIOUS
      <4>1. CASE j = 1
        <5>1. chain'[q][2] = s[1] /\ 1 < L + 1
          BY <1>2, <3>2, <3>3
        <5> QED BY <3>3, <3>4, <4>1, <5>1
      <4>2. CASE j # 1
        <5>1. j - 1 \in 1..L /\ chain'[q][j] = s[j - 1]
          BY <1>2, <3>3, <4>2
        <5>2. j < L + 1 => chain'[q][j + 1] = s[j] /\ j - 1 < L /\ (j - 1) + 1 = j
          BY <1>2, <3>3, <4>2
        <5>3. ~(j < L + 1) => ~(j - 1 < L)
          BY <1>2
        <5>4. next'[s[j - 1]] = IF j - 1 < L THEN s[(j - 1) + 1] ELSE NULL
          BY <1>3, <3>4, <5>1
        <5> QED BY <5>1, <5>2, <5>3, <5>4
      <4> QED BY <4>1, <4>2
    <3>8. \A j \in 2..(L + 1) :
            chain'[q][j] \notin stale' <=> prev'[chain'[q][j]] = chain'[q][j - 1]
      <4> SUFFICES ASSUME NEW j \in 2..(L + 1)
                   PROVE  chain'[q][j] \notin stale' <=> prev'[chain'[q][j]] = chain'[q][j - 1]
        OBVIOUS
      <4>1. CASE j = 2
        <5>1. chain'[q][2] = s[1] /\ chain'[q][2 - 1] = n
          BY <1>2, <3>2, <3>3
        <5> QED BY <3>5, <3>6, <4>1, <5>1
      <4>2. CASE j # 2
        <5>1. j - 1 \in 2..L /\ j - 1 \in 2..(L + 1)
          BY <1>2, <4>2
        <5>2. chain'[q][j] = s[j - 1] /\ chain'[q][j - 1] = s[(j - 1) - 1]
          BY <3>3, <5>1
        <5> QED BY <1>3, <3>5, <3>6, <5>1, <5>2
      <4> QED BY <4>1, <4>2
    <3>9. chain'[q][L + 1] = s[L]
      BY <1>2, <3>2, <3>3
    <3>10. Len(chain'[q]) = L + 1 /\ Len(chain'[q]) # 0
      BY <1>2, <1>8
    <3>11. head'[q] = chain'[q][1] /\ tail'[q] = chain'[q][L + 1]
      BY <3>1, <3>2, <3>3, <3>9
    <3> QED BY <1>9, <3>7, <3>8, <3>10, <3>11 DEF Represents
  <2>3. CASE LinkBack(q, n) /\ k = L + 1
    <3>1. /\ head[q] # NULL /\ head'[q] = head[q] /\ tail'[q] = n
          /\ next' = [next EXCEPT ![n] = NULL, ![tail[q]] = n]
          /\ prev' = [prev EXCEPT ![n] = tail[q]]
      BY <1>1, <2>3 DEF LinkBack, TypeOK
    <3>2. L > 0 /\ head[q] = s[1] /\ tail[q] = s[L] /\ s[L] \in Nodes
      BY <1>2, <1>3, <3>1
    <3>3. chain'[q][L + 1] = n /\ \A j \in 1..L : chain'[q][j] = s[j]
      BY <1>2, <1>8, <2>3
    <3>4. next'[n] = NULL /\ next'[s[L]] = n
      <4>1. s[L] # n
        BY <1>2, <1>4, <3>2
      <4> QED BY <1>1, <3>1, <3>2, <4>1 DEF TypeOK
    <3>5. \A j \in 1..L : j < L => next'[s[j]] = s[j + 1]
      <4>1. \A j \in 1..L : j < L => s[j] # s[L] /\ s[j] # n /\ s[j] \in Nodes
        BY <1>2, <1>4, <1>5
      <4> QED BY <1>1, <1>3, <3>1, <3>2, <4>1 DEF TypeOK
    <3>6. prev'[n] = s[L] /\ \A j \in 1..L : prev'[s[j]] = prev[s[j]]
      <4>1. \A j \in 1..L : s[j] # n /\ s[j] \in Nodes
        BY <1>2, <1>4
      <4> QED BY <1>1, <3>1, <3>2, <4>1 DEF TypeOK
    <3>7. n \notin stale' /\ \A j \in 1..L : s[j] \in stale' <=> s[j] \in stale
      <4>1. \A j \in 1..L : s[j] # n /\ s[j] \in Nodes
        BY <1>2, <1>4
      <4>2. ~(k <= L)
        BY <1>2, <2>3
      <4> QED BY <1>8, <4>1, <4>2
    <3>8. \A j \in 1..(L + 1) :
            next'[chain'[q][j]] = IF j < L + 1 THEN chain'[q][j + 1] ELSE NULL
      <4> SUFFICES ASSUME NEW j \in 1..(L + 1)
                   PROVE  next'[chain'[q][j]] = IF j < L + 1 THEN chain'[q][j + 1] ELSE NULL
        OBVIOUS
      <4>1. CASE j = L + 1
        BY <1>2, <3>3, <3>4, <4>1
      <4>2. CASE j = L
        BY <1>2, <3>2, <3>3, <3>4, <4>2
      <4>3. CASE j < L
        BY SMTT(30), <1>2, <3>3, <3>5, <4>3
      <4> QED BY <1>2, <4>1, <4>2, <4>3
    <3>9. \A j \in 2..(L + 1) :
            chain'[q][j] \notin stale' <=> prev'[chain'[q][j]] = chain'[q][j - 1]
      <4> SUFFICES ASSUME NEW j \in 2..(L + 1)
                   PROVE  chain'[q][j] \notin stale' <=> prev'[chain'[q][j]] = chain'[q][j - 1]
        OBVIOUS
      <4>1. CASE j = L + 1
        <5>1. chain'[q][j] = n /\ chain'[q][j - 1] = s[L]
          <6>1. j - 1 = L /\ L \in 1..L
            BY <1>2, <3>2, <4>1
          <6> QED BY <3>3, <4>1, <6>1
        <5> QED BY <3>6, <3>7, <5>1
      <4>2. CASE j # L + 1
        <5>1. j \in 2..L /\ j \in 1..L /\ j - 1 \in 1..L
          BY <1>2, <4>2
        <5>2. chain'[q][j] = s[j] /\ chain'[q][j - 1] = s[j - 1]
          BY <3>3, <5>1
        <5> QED BY <1>3, <3>6, <3>7, <5>1, <5>2
      <4> QED BY <4>1, <4>2
    <3>10. chain'[q][1] = s[1]
      BY <1>2, <3>2, <3>3
    <3>11. Len(chain'[q]) = L + 1 /\ Len(chain'[q]) # 0
      BY <1>2, <1>8
    <3>12. head'[q] = chain'[q][1] /\ tail'[q] = chain'[q][L + 1]
      BY <3>1, <3>2, <3>3, <3>10
    <3> QED BY <1>9, <3>8, <3>9, <3>11, <3>12 DEF Represents
  <2> QED BY <2>1, <2>2, <2>3
<1>12. ASSUME NEW r \in QueueIds, r # q PROVE Represents(r, chain[r])'
  <2>1. Represents(r, chain[r]) /\ chain'[r] = chain[r] /\ Len(chain[r]) \in Nat
    BY <1>1, <1>8, <1>12, ChainFacts DEF ImplementsSequences
  <2>2. head'[r] = head[r] /\ tail'[r] = tail[r] /\ size'[r] = size[r]
    BY <1>9, <1>10, <1>12
  <2>3. ASSUME NEW j \in 1..Len(chain[r])
        PROVE  /\ next'[chain[r][j]] = next[chain[r][j]]
               /\ prev'[chain[r][j]] = prev[chain[r][j]]
               /\ chain[r][j] \in stale' <=> chain[r][j] \in stale
    <3> DEFINE x == chain[r][j]
    <3>1. x \in Nodes /\ x # n /\ x # NULL /\ \A i \in 1..L : x # s[i]
      BY <1>1, <1>4, <1>6, <1>12, ChainFacts
    <3>2. L > 0 => x # head[q] /\ x # tail[q]
      BY <1>2, <1>3, <3>1
    <3>3. (k <= L => x # s[k]) /\ (x \in stale' <=> x \in stale)
      BY <1>2, <1>8, <3>1
    <3>4. CASE L > 0
      BY <1>10, <3>1, <3>2, <3>3, <3>4
    <3>5. CASE L = 0
      <4>1. LinkOnly(q, n)
        BY <1>3, <3>5 DEF LinkFront, LinkBack
      <4>2. next'[x] = next[x] /\ prev'[x] = prev[x]
        BY <1>1, <3>1, <4>1 DEF LinkOnly, TypeOK
      <4> QED BY <3>3, <4>2
    <3> QED BY <1>2, <3>4, <3>5
  <2> QED BY <2>1, <2>2, <2>3, OtherQueue
<1> QED
  BY <1>9, <1>10, <1>11, <1>12 DEF PointersOK, ImplementsSequences

-----------------------------------------------------------------------------
(* Linking a node in the middle of a list                                  *)

(* When the loop of a sorted insertion ends, it has found the position     *)
(* SortedPosition stands for.                                              *)
LEMMA SearchPosition ==
  ASSUME LInv, call # NoCall, key[call.node] < key[call.tmp]
  PROVE  /\ call.queue \in QueueIds /\ call.node \in Nodes /\ call.tmp \in Nodes
         /\ sound /\ Unlinked(call.node)
         /\ \E k \in 2..Len(chain[call.queue]) :
              /\ call.tmp = chain[call.queue][k]
              /\ SortedPosition(chain[call.queue], call.node, key) = k
<1> DEFINE q == call.queue
           n == call.node
           s == chain[q]
<1>1. TypeOK /\ ImplementsSequences /\ SearchInOrder /\ sound /\ Unlinked(n)
  BY DEF LInv, CallOK
<1>2. q \in SortedIds /\ n \in Nodes /\ call.tmp \in Nodes
  BY <1>1 DEF TypeOK
<1>3. q \in QueueIds
  BY <1>2, NodeAssumption
<1>4. s \in Seq(Nodes) /\ Len(s) \in Nat
  BY <1>1, <1>3, ChainFacts
<1>5. key \in [Nodes -> Int]
  BY <1>1, NodeAssumption DEF TypeOK
<1>6. PICK k \in 2..Len(s) : /\ call.tmp = s[k]
                             /\ \A j \in 1..(k - 1) : key[s[j]] <= key[n]
                             /\ key[n] < key[tail[q]]
  BY <1>1 DEF SearchInOrder
<1>7. Len(s) > 0 /\ tail[q] = s[Len(s)]
  BY <1>1, <1>3, <1>4 DEF ImplementsSequences, Represents
<1>8. \A j \in 1..(k - 1) : key[n] >= key[s[j]]
  <2>1. \A j \in 1..(k - 1) : s[j] \in Nodes
    BY <1>1, <1>3, <1>4, ChainFacts
  <2> QED BY <1>2, <1>5, <1>6, <2>1
<1>9. SortedPosition(s, n, key) = k
  <2>1. s # <<>>
    BY <1>4, <1>7, EmptySeq
  <2>2. key[n] >= key[s[1]] /\ \A j \in 2..(k - 1) : key[n] >= key[s[j]]
    BY <1>4, <1>8
  <2>3. key[n] < key[s[Len(s)]] /\ key[n] < key[s[k]]
    BY <1>6, <1>7
  <2> QED BY <1>2, <1>4, <1>5, <2>1, <2>2, <2>3, SortedPositionCases
<1> QED
  BY <1>1, <1>2, <1>3, <1>6, <1>9

(* The node is put before tmp: if the prev of tmp is right, the pointers   *)
(* represent the list again; if it is not, they do not.                    *)
LEMMA MiddleLinked ==
  ASSUME LInv, LinkBefore, NEW q, NEW n, NEW tmp,
         call.queue = q, call.node = n, call.tmp = tmp
  PROVE  /\ PointersOK'
         /\ q \in QueueIds
         /\ sound' \/ ~Represents(q, chain[q])'
<1> DEFINE s   == chain[q]
           L   == Len(s)
<1>1. TypeOK /\ DistinctNodes /\ ImplementsSequences
  BY DEF LInv
<1>2. q \in QueueIds /\ n \in Nodes /\ tmp \in Nodes /\ sound /\ Unlinked(n)
  BY SearchPosition DEF LinkBefore
<1>3. PICK k \in 2..L : tmp = s[k] /\ SortedPosition(s, n, key) = k
  BY SearchPosition DEF LinkBefore
<1>4. s \in Seq(Nodes) /\ L \in Nat /\ \A j \in 1..L : s[j] \in Nodes /\ s[j] # NULL
  BY <1>1, <1>2, ChainFacts
<1>5. /\ size[q] = L
      /\ L > 0 => head[q] = s[1] /\ tail[q] = s[L]
      /\ \A j \in 1..L : next[s[j]] = IF j < L THEN s[j + 1] ELSE NULL
      /\ \A j \in 2..L : s[j] \notin stale <=> prev[s[j]] = s[j - 1]
  BY <1>1, <1>2 DEF ImplementsSequences, Represents
<1>6. \A r \in QueueIds : \A j \in 1..Len(chain[r]) : chain[r][j] # n
  BY <1>1, <1>2, UnlinkedFacts
<1>7. \A i, j \in 1..L : s[i] = s[j] => i = j
  BY <1>1, <1>2 DEF DistinctNodes
<1>8. \A r \in QueueIds \ {q} : \A i \in 1..L, j \in 1..Len(chain[r]) : s[i] # chain[r][j]
  BY <1>1, <1>2 DEF DistinctNodes
<1>9. /\ Inserted(q, n, k) /\ SizeIncremented(q)
      /\ next' = [next EXCEPT ![prev[tmp]] = n, ![n] = tmp]
      /\ prev' = [prev EXCEPT ![n] = prev[tmp], ![tmp] = n]
      /\ UNCHANGED <<head, tail, key>> /\ call' = NoCall
  BY <1>3 DEF LinkBefore
<1>10. k \in 1..(L + 1) /\ k \in 1..L /\ k - 1 \in 1..L /\ L > 0 /\ k <= L
  BY <1>3, <1>4
<1>11. /\ Len(chain'[q]) = L + 1
       /\ \A j \in 1..(L + 1) :
            chain'[q][j] = IF j < k THEN s[j] ELSE IF j = k THEN n ELSE s[j - 1]
       /\ \A r \in QueueIds \ {q} : chain'[r] = chain[r]
       /\ \A x \in Nodes : x \in stale' <=> x \in stale /\ x # n /\ x # s[k]
       /\ sound' <=> s[k] \notin stale
  BY <1>1, <1>2, <1>3, <1>9, <1>10, InsertedFacts
<1>12. size' \in [QueueIds -> Int] /\ size'[q] = L + 1
       /\ \A r \in QueueIds \ {q} : size'[r] = size[r]
  BY <1>1, <1>2, <1>5, <1>9 DEF SizeIncremented, TypeOK
<1>13. /\ head' \in [QueueIds -> Nodes \cup {NULL}] /\ tail' \in [QueueIds -> Nodes \cup {NULL}]
       /\ prev' \in [Nodes -> Nodes \cup {NULL}] /\ next' \in [Nodes -> Nodes \cup {NULL}]
  BY <1>1, <1>2, <1>9 DEF TypeOK
<1>14. /\ \A x \in Nodes : x # n /\ x # prev[tmp] => next'[x] = next[x]
       /\ \A x \in Nodes : x # n /\ x # tmp => prev'[x] = prev[x]
       /\ next'[n] = tmp /\ prev'[tmp] = n
  BY <1>1, <1>2, <1>9 DEF TypeOK
<1>15. ASSUME sound' PROVE Represents(q, chain[q])'
  <2>1. prev[tmp] = s[k - 1] /\ s[k - 1] \in Nodes /\ s[k - 1] # n /\ tmp # n
    BY <1>2, <1>3, <1>4, <1>5, <1>6, <1>10, <1>11, <1>15
  <2>2. next'[s[k - 1]] = n /\ prev'[n] = s[k - 1]
    BY <1>1, <1>2, <1>9, <2>1 DEF TypeOK
  <2>3. \A j \in 1..L : j # k - 1 => next'[s[j]] = next[s[j]]
    <3>1. \A j \in 1..L : j # k - 1 => s[j] # s[k - 1] /\ s[j] # n /\ s[j] \in Nodes
      BY <1>2, <1>4, <1>6, <1>7, <1>10
    <3> QED BY <1>14, <2>1, <3>1
  <2>4. \A j \in 1..L : j # k => /\ prev'[s[j]] = prev[s[j]]
                                 /\ s[j] \in stale' <=> s[j] \in stale
    <3>1. \A j \in 1..L : j # k => s[j] # s[k] /\ s[j] # n /\ s[j] \in Nodes
      BY <1>2, <1>4, <1>6, <1>7, <1>10
    <3> QED BY <1>3, <1>11, <1>14, <3>1
  <2>5. n \notin stale' /\ s[k] \notin stale'
    BY <1>2, <1>4, <1>10, <1>11
  <2>6. /\ \A j \in 1..L : j < k => chain'[q][j] = s[j]
        /\ chain'[q][k] = n
        /\ \A j \in 1..L : k <= j => chain'[q][j + 1] = s[j]
    <3>1. \A j \in 1..L : j < k => chain'[q][j] = s[j]
      BY <1>4, <1>11
    <3>2. chain'[q][k] = n
      BY <1>10, <1>11
    <3>3. ASSUME NEW j \in 1..L, k <= j PROVE chain'[q][j + 1] = s[j]
      <4>1. j + 1 \in 1..(L + 1) /\ ~(j + 1 < k) /\ j + 1 # k /\ (j + 1) - 1 = j
        BY <1>4, <1>10, <3>3
      <4> QED BY <1>11, <4>1
    <3> QED BY <3>1, <3>2, <3>3
  <2>7. ASSUME NEW j \in 1..(L + 1)
        PROVE  next'[chain'[q][j]] = IF j < L + 1 THEN chain'[q][j + 1] ELSE NULL
    <3>1. CASE j < k - 1
      <4>1. j \in 1..L /\ j + 1 \in 1..L /\ j < k /\ j + 1 < k /\ j < L /\ j < L + 1 /\ j # k - 1
        BY <1>4, <1>10, <3>1
      <4> QED BY SMTT(30), <1>5, <2>3, <2>6, <4>1
    <3>2. CASE j = k - 1
      <4>1. j < k /\ j \in 1..L /\ j + 1 = k /\ j < L + 1
        BY <1>4, <1>10, <3>2
      <4> QED BY <2>2, <2>6, <3>2, <4>1
    <3>3. CASE j = k
      <4>1. k < L + 1 /\ chain'[q][k + 1] = s[k]
        BY <1>4, <1>10, <2>6
      <4> QED BY <1>3, <1>14, <2>6, <3>3, <4>1
    <3>4. CASE k < j
      <4>1. j - 1 \in 1..L /\ k <= j - 1 /\ (j - 1) + 1 = j /\ j - 1 # k - 1
        BY <1>4, <1>10, <3>4
      <4>2. chain'[q][j] = s[j - 1] /\ next'[s[j - 1]] = IF j - 1 < L THEN s[j] ELSE NULL
        BY <1>5, <2>3, <2>6, <4>1
      <4>3. CASE j < L + 1
        <5>1. j \in 1..L /\ k <= j /\ j - 1 < L
          BY <1>4, <1>10, <3>4, <4>3
        <5> QED BY <2>6, <4>2, <4>3, <5>1
      <4>4. CASE ~(j < L + 1)
        <5>1. ~(j - 1 < L)
          BY <1>4, <4>4
        <5> QED BY <4>2, <4>4, <5>1
      <4> QED BY <4>3, <4>4
    <3> QED BY <1>4, <1>10, <3>1, <3>2, <3>3, <3>4
  <2>8. ASSUME NEW j \in 2..(L + 1)
        PROVE  chain'[q][j] \notin stale' <=> prev'[chain'[q][j]] = chain'[q][j - 1]
    <3>1. CASE j < k
      <4>1. j \in 1..L /\ j \in 2..L /\ j - 1 \in 1..L /\ j - 1 < k /\ j # k
        BY <1>4, <1>10, <3>1
      <4>2. chain'[q][j] = s[j] /\ chain'[q][j - 1] = s[j - 1]
        BY <2>6, <3>1, <4>1
      <4>3. s[j] \notin stale <=> prev[s[j]] = s[j - 1]
        BY <1>5, <4>1
      <4> QED BY <2>4, <4>1, <4>2, <4>3
    <3>2. CASE j = k
      <4>1. chain'[q][j - 1] = s[k - 1]
        <5>1. k - 1 < k
          BY <1>4, <1>10
        <5> QED BY <1>10, <2>6, <3>2, <5>1
      <4> QED BY <2>2, <2>5, <2>6, <3>2, <4>1
    <3>3. CASE j = k + 1
      <4>1. chain'[q][j] = s[k] /\ chain'[q][j - 1] = n
        <5>1. k <= k /\ j - 1 = k
          BY <1>4, <1>10, <3>3
        <5> QED BY <1>10, <2>6, <3>3, <5>1
      <4> QED BY <1>3, <1>14, <2>5, <4>1
    <3>4. CASE k + 1 < j
      <4>1. /\ j - 1 \in 1..L /\ j - 1 \in 2..L /\ k <= j - 1 /\ (j - 1) + 1 = j /\ j - 1 # k
            /\ j - 2 \in 1..L /\ k <= j - 2 /\ (j - 2) + 1 = j - 1 /\ (j - 1) - 1 = j - 2
        BY <1>4, <1>10, <3>4
      <4>2. chain'[q][j] = s[j - 1] /\ chain'[q][j - 1] = s[(j - 1) - 1]
        BY <2>6, <4>1
      <4>3. s[j - 1] \notin stale <=> prev[s[j - 1]] = s[(j - 1) - 1]
        BY <1>5, <4>1
      <4> QED BY <2>4, <4>1, <4>2, <4>3
    <3> QED BY <1>4, <1>10, <3>1, <3>2, <3>3, <3>4
  <2>9. chain'[q][1] = s[1] /\ chain'[q][L + 1] = s[L]
    <3>1. 1 \in 1..L /\ L \in 1..L /\ 1 < k /\ k <= L
      BY <1>4, <1>10
    <3> QED BY <2>6, <3>1
  <2>10. head'[q] = chain'[q][1] /\ tail'[q] = chain'[q][L + 1]
    BY <1>5, <1>9, <1>10, <2>9
  <2>11. Len(chain'[q]) = L + 1 /\ Len(chain'[q]) # 0
    BY <1>4, <1>11
  <2> QED BY <1>12, <2>7, <2>8, <2>10, <2>11 DEF Represents
<1>16. ASSUME sound', NEW r \in QueueIds, r # q PROVE Represents(r, chain[r])'
  <2>1. Represents(r, chain[r]) /\ chain'[r] = chain[r] /\ Len(chain[r]) \in Nat
    BY <1>1, <1>2, <1>11, <1>16, ChainFacts DEF ImplementsSequences
  <2>2. head'[r] = head[r] /\ tail'[r] = tail[r] /\ size'[r] = size[r]
    BY <1>9, <1>12, <1>16
  <2>3. prev[tmp] = s[k - 1]
    BY <1>3, <1>5, <1>11, <1>16
  <2>4. ASSUME NEW j \in 1..Len(chain[r])
        PROVE  /\ next'[chain[r][j]] = next[chain[r][j]]
               /\ prev'[chain[r][j]] = prev[chain[r][j]]
               /\ chain[r][j] \in stale' <=> chain[r][j] \in stale
    <3> DEFINE x == chain[r][j]
    <3>1. x \in Nodes /\ x # n /\ x # s[k] /\ x # s[k - 1]
      BY <1>1, <1>6, <1>8, <1>10, <1>16, ChainFacts
    <3> QED BY <1>3, <1>11, <1>14, <2>3, <3>1
  <2> QED BY <2>1, <2>2, <2>4, OtherQueue
<1>17. ASSUME ~sound' PROVE ~Represents(q, chain[q])'
  <2>1. prev[tmp] # s[k - 1] /\ s[k - 1] # n /\ s[k - 1] \in Nodes
    <3>1. s[k - 1] # n /\ s[k - 1] \in Nodes
      BY <1>2, <1>4, <1>6, <1>10
    <3>2. s[k] \in stale
      BY <1>11, <1>17
    <3> QED BY <1>3, <1>5, <3>1, <3>2
  <2>2. next'[s[k - 1]] = s[k]
    <3>1. k - 1 < L /\ (k - 1) + 1 = k
      BY <1>4, <1>10
    <3>2. next[s[k - 1]] = s[k]
      BY <1>5, <1>10, <3>1
    <3> QED BY <1>14, <2>1, <3>2
  <2>3. k - 1 \in 1..(L + 1) /\ k - 1 < k /\ k - 1 < L + 1 /\ (k - 1) + 1 = k
    BY <1>4, <1>10
  <2>4. chain'[q][k - 1] = s[k - 1] /\ chain'[q][k] = n
    BY <1>10, <1>11, <2>3
  <2>5. s[k] # n
    BY <1>2, <1>6, <1>10
  <2>6. ~(\A j \in 1..Len(chain'[q]) :
            next'[chain'[q][j]] = IF j < Len(chain'[q]) THEN chain'[q][j + 1] ELSE NULL)
    BY <1>11, <2>2, <2>3, <2>4, <2>5
  <2> QED BY <2>6 DEF Represents
<1> QED
  BY <1>2, <1>12, <1>13, <1>15, <1>16, <1>17 DEF PointersOK, ImplementsSequences

-----------------------------------------------------------------------------
(* Unlinking a node                                                        *)

(* Where a linked node is, and which node follows it.                      *)
LEMMA LinkedPosition ==
  ASSUME TypeOK, DistinctNodes, NEW q \in QueueIds, NEW k \in 1..Len(chain[q])
  PROVE  /\ ProcessInQueue(chain[q], chain[q][k])
         /\ PositionOf(chain[q], chain[q][k]) = k
         /\ NextNode(chain[q], chain[q][k]) =
              IF k < Len(chain[q]) THEN chain[q][k + 1] ELSE NULL
<1> DEFINE s == chain[q]
<1>1. Len(s) \in Nat /\ DOMAIN s = 1..Len(s)
  BY ChainFacts
<1>2. \A j \in DOMAIN s : s[j] = s[k] => j = k
  BY <1>1 DEF DistinctNodes
<1>3. ProcessInQueue(s, s[k])
  BY <1>1 DEF ProcessInQueue
<1>4. PositionOf(s, s[k]) = k
  BY <1>1, <1>2 DEF PositionOf
<1> QED
  BY <1>3, <1>4 DEF NextNode

(* The head is unlinked, by dequeueTopNode or by removeNode.  The tail of  *)
(* a queue that becomes empty does not matter.                             *)
LEMMA HeadUnlinked ==
  ASSUME LInv, sound, NEW q \in QueueIds, Len(chain[q]) > 0,
         NEW t \in Seq(Nodes), Len(t) = Len(chain[q]) - 1,
         \A j \in 1..(Len(chain[q]) - 1) : t[j] = chain[q][j + 1],
         chain' = [chain EXCEPT ![q] = t],
         head' = [head EXCEPT ![q] = next[head[q]]],
         tail' \in [QueueIds -> Nodes \cup {NULL}],
         \A r \in QueueIds : r # q \/ Len(chain[q]) > 1 => tail'[r] = tail[r],
         size' = [size EXCEPT ![q] = @ - 1],
         next' = next,
         prev' = IF next[head[q]] = NULL THEN prev ELSE [prev EXCEPT ![next[head[q]]] = NULL],
         stale' \in SUBSET Nodes,
         \A x \in Nodes : x # chain[q][1] =>
           (x \in stale' <=> x \in stale /\ (Len(chain[q]) > 1 => x # chain[q][2]))
  PROVE  PointersOK' /\ chain' \in [QueueIds -> Seq(Nodes)] /\ DistinctNodes'
<1> DEFINE s == chain[q]
           L == Len(s)
<1>1. TypeOK /\ DistinctNodes /\ ImplementsSequences
  BY DEF LInv
<1>2. s \in Seq(Nodes) /\ L \in Nat /\ \A j \in 1..L : s[j] \in Nodes /\ s[j] # NULL
  BY <1>1, ChainFacts
<1>3. /\ size[q] = L /\ head[q] = s[1] /\ tail[q] = s[L]
      /\ \A j \in 1..L : next[s[j]] = IF j < L THEN s[j + 1] ELSE NULL
      /\ \A j \in 2..L : s[j] \notin stale <=> prev[s[j]] = s[j - 1]
  BY <1>1 DEF ImplementsSequences, Represents
<1>4. /\ chain' \in [QueueIds -> Seq(Nodes)] /\ DistinctNodes'
      /\ Len(chain'[q]) = L - 1
      /\ \A j \in 1..(L - 1) : chain'[q][j] = s[j + 1]
      /\ \A r \in QueueIds \ {q} : chain'[r] = chain[r]
  <2>1. 1 \in 1..L /\ \A j \in 1..(L - 1) : t[j] = IF j < 1 THEN s[j] ELSE s[j + 1]
    BY <1>2
  <2>2. /\ chain' \in [QueueIds -> Seq(Nodes)] /\ DistinctNodes'
        /\ Len(chain'[q]) = L - 1
        /\ \A r \in QueueIds \ {q} : chain'[r] = chain[r]
    BY <1>1, <2>1, RemovedFacts
  <2>3. chain'[q] = t
    BY <1>1 DEF TypeOK
  <2> QED BY <2>2, <2>3
<1>5. next[head[q]] = IF 1 < L THEN s[2] ELSE NULL
  <2>1. 1 \in 1..L /\ 1 + 1 = 2
    BY <1>2
  <2> QED BY <1>3, <2>1
<1>6. head' \in [QueueIds -> Nodes \cup {NULL}] /\ prev' \in [Nodes -> Nodes \cup {NULL}]
      /\ size' \in [QueueIds -> Int] /\ next' \in [Nodes -> Nodes \cup {NULL}]
      /\ size'[q] = L - 1 /\ head'[q] = next[head[q]]
      /\ \A r \in QueueIds \ {q} : head'[r] = head[r] /\ size'[r] = size[r]
  <2>1. next[head[q]] \in Nodes \cup {NULL}
    BY <1>2, <1>5
  <2> QED BY <1>1, <1>3, <2>1 DEF TypeOK
<1>7. \A x \in Nodes : (1 < L => x # s[2]) => prev'[x] = prev[x]
  BY <1>1, <1>2, <1>5 DEF TypeOK
<1>8. \A i, j \in 1..L : s[i] = s[j] => i = j
  BY <1>1 DEF DistinctNodes
<1>9. Represents(q, chain[q])'
  <2>1. L - 1 = 0 => head'[q] = NULL
    BY <1>2, <1>5, <1>6
  <2>2. L - 1 > 0 => head'[q] = chain'[q][1] /\ tail'[q] = chain'[q][L - 1]
    <3> SUFFICES ASSUME L - 1 > 0
                 PROVE  head'[q] = chain'[q][1] /\ tail'[q] = chain'[q][L - 1]
      OBVIOUS
    <3>1. 1 \in 1..(L - 1) /\ L - 1 \in 1..(L - 1) /\ (L - 1) + 1 = L /\ 1 < L /\ L > 1
      BY <1>2
    <3> QED BY <1>3, <1>4, <1>5, <1>6, <3>1
  <2>3. ASSUME NEW j \in 1..(L - 1)
        PROVE  next'[chain'[q][j]] = IF j < L - 1 THEN chain'[q][j + 1] ELSE NULL
    <3>1. j + 1 \in 1..L /\ (j + 1 < L <=> j < L - 1)
      BY <1>2
    <3>2. next'[chain'[q][j]] = IF j + 1 < L THEN s[(j + 1) + 1] ELSE NULL
      BY <1>3, <1>4, <3>1
    <3>3. j < L - 1 => j + 1 \in 1..(L - 1)
      BY <1>2
    <3> QED BY <1>4, <3>1, <3>2, <3>3
  <2>4. ASSUME NEW j \in 2..(L - 1)
        PROVE  chain'[q][j] \notin stale' <=> prev'[chain'[q][j]] = chain'[q][j - 1]
    <3>1. /\ j \in 1..(L - 1) /\ j - 1 \in 1..(L - 1) /\ j + 1 \in 2..L /\ j + 1 \in 1..L
          /\ (j - 1) + 1 = j /\ (j + 1) - 1 = j /\ 1 \in 1..L /\ 2 \in 1..L
          /\ j + 1 # 1 /\ j + 1 # 2
      BY <1>2
    <3>2. chain'[q][j] = s[j + 1] /\ chain'[q][j - 1] = s[j]
      BY <1>4, <3>1
    <3>3. s[j + 1] \notin stale <=> prev[s[j + 1]] = s[j]
      BY <1>3, <3>1
    <3>4. s[j + 1] \in Nodes /\ s[j + 1] # s[1] /\ s[j + 1] # s[2]
      BY <1>2, <1>8, <3>1
    <3> QED BY <1>7, <3>2, <3>3, <3>4
  <2>5. Len(chain'[q]) = L - 1
    BY <1>4
  <2> DEFINE m == L - 1
  <2>6. /\ Len(chain'[q]) = m /\ size'[q] = m
        /\ m = 0 => head'[q] = NULL
        /\ m > 0 => head'[q] = chain'[q][1] /\ tail'[q] = chain'[q][m]
    BY <1>6, <2>1, <2>2, <2>5
  <2>7. /\ \A j \in 1..m : next'[chain'[q][j]] = IF j < m THEN chain'[q][j + 1] ELSE NULL
        /\ \A j \in 2..m : chain'[q][j] \notin stale' <=> prev'[chain'[q][j]] = chain'[q][j - 1]
    BY <2>3, <2>4
  <2> HIDE DEF m
  <2> QED BY <2>6, <2>7 DEF Represents
<1>10. ASSUME NEW r \in QueueIds, r # q PROVE Represents(r, chain[r])'
  <2>1. Represents(r, chain[r]) /\ chain'[r] = chain[r] /\ Len(chain[r]) \in Nat
    BY <1>1, <1>4, <1>10, ChainFacts DEF ImplementsSequences
  <2>2. head'[r] = head[r] /\ tail'[r] = tail[r] /\ size'[r] = size[r]
    BY <1>6, <1>10
  <2>3. ASSUME NEW j \in 1..Len(chain[r])
        PROVE  /\ next'[chain[r][j]] = next[chain[r][j]]
               /\ prev'[chain[r][j]] = prev[chain[r][j]]
               /\ chain[r][j] \in stale' <=> chain[r][j] \in stale
    <3> DEFINE x == chain[r][j]
    <3>1. x \in Nodes /\ \A i \in 1..L : x # s[i]
      BY <1>1, <1>10, ChainFacts DEF DistinctNodes
    <3>2. x # s[1] /\ (L > 1 => x # s[2])
      BY <1>2, <3>1
    <3> QED BY <1>2, <1>7, <3>1, <3>2
  <2> QED BY <2>1, <2>2, <2>3, OtherQueue
<1> QED
  BY <1>4, <1>6, <1>9, <1>10 DEF PointersOK, ImplementsSequences

(* A node that is not the head is unlinked: if its prev is right, the      *)
(* pointers represent the list without it; if it is not, they do not.      *)
LEMMA InnerUnlinked ==
  ASSUME LInv, sound, NEW q \in QueueIds, NEW k \in 2..Len(chain[q]),
         UnlinkTail(q, chain[q][k]) \/ UnlinkMiddle(q, chain[q][k]),
         SizeDecremented(q),
         chain' = [chain EXCEPT ![q] = RemoveNode(@, chain[q][k])],
         stale' = StaleAfterRemove(chain[q], chain[q][k], stale),
         sound' = RemoveIsSound(chain[q], chain[q][k], stale)
  PROVE  /\ PointersOK' /\ chain' \in [QueueIds -> Seq(Nodes)] /\ DistinctNodes'
         /\ sound' \/ ~Represents(q, chain[q])'
<1> DEFINE s == chain[q]
           L == Len(s)
           n == s[k]
           m == L - 1
<1>1. TypeOK /\ DistinctNodes /\ ImplementsSequences
  BY DEF LInv
<1>2. s \in Seq(Nodes) /\ L \in Nat /\ \A j \in 1..L : s[j] \in Nodes /\ s[j] # NULL
  BY <1>1, ChainFacts
<1>3. /\ size[q] = L
      /\ L > 0 => head[q] = s[1] /\ tail[q] = s[L]
      /\ \A j \in 1..L : next[s[j]] = IF j < L THEN s[j + 1] ELSE NULL
      /\ \A j \in 2..L : s[j] \notin stale <=> prev[s[j]] = s[j - 1]
  BY <1>1 DEF ImplementsSequences, Represents
<1>4. \A i, j \in 1..L : s[i] = s[j] => i = j
  BY <1>1 DEF DistinctNodes
<1>5. /\ k \in 1..L /\ 1 \in 1..L /\ L \in 1..L /\ k - 1 \in 1..L /\ L > 0 /\ k # 1
      /\ m \in Nat /\ m > 0 /\ m + 1 = L /\ (k - 1) + 1 = k /\ k - 1 # k
  BY <1>2
<1>6. ProcessInQueue(s, n) /\ PositionOf(s, n) = k
  BY <1>1, <1>5, LinkedPosition
<1>7. head[q] = s[1] /\ tail[q] = s[L] /\ n # s[1] /\ n \in Nodes
  BY <1>2, <1>3, <1>4, <1>5
<1>8. sound' <=> n \notin stale
  <2>1. TopNode(s) = s[1]
    BY <1>5, EmptySeq DEF TopNode
  <2> QED BY <1>6, <1>7, <2>1 DEF RemoveIsSound
<1>9. stale' = (stale \ {n}) \cup (IF k < L THEN {s[k + 1]} ELSE {})
  BY <1>5, <1>6 DEF StaleAfterRemove
<1>10. /\ chain' \in [QueueIds -> Seq(Nodes)] /\ DistinctNodes'
       /\ Len(chain'[q]) = m
       /\ \A j \in 1..m : chain'[q][j] = IF j < k THEN s[j] ELSE s[j + 1]
       /\ \A r \in QueueIds \ {q} : chain'[r] = chain[r]
  <2> DEFINE t == RemoveNode(s, n)
  <2>1. t \in Seq(Nodes) /\ Len(t) = m
    BY <1>2, <1>6, RemoveNodeIsSeq
  <2>2. \A j \in 1..m : t[j] = IF j < k THEN s[j] ELSE s[j + 1]
    BY <1>2, <1>6, RemoveNodeElements
  <2>3. chain' = [chain EXCEPT ![q] = t]
    OBVIOUS
  <2> HIDE DEF t
  <2> QED BY <1>1, <1>5, <2>1, <2>2, <2>3, RemovedFacts
<1>11. /\ size' \in [QueueIds -> Int] /\ size'[q] = m
       /\ \A r \in QueueIds \ {q} : size'[r] = size[r]
  BY <1>1, <1>3 DEF SizeDecremented, TypeOK
<1>12. CASE k = L
  <2>1. /\ head' = head /\ prev' = prev
        /\ tail' = [tail EXCEPT ![q] = prev[n]]
        /\ next' = [next EXCEPT ![prev[n]] = NULL]
    BY <1>7, <1>12 DEF UnlinkTail, UnlinkMiddle
  <2>2. /\ head' \in [QueueIds -> Nodes \cup {NULL}] /\ tail' \in [QueueIds -> Nodes \cup {NULL}]
        /\ prev' \in [Nodes -> Nodes \cup {NULL}] /\ next' \in [Nodes -> Nodes \cup {NULL}]
        /\ tail'[q] = prev[n] /\ \A r \in QueueIds \ {q} : tail'[r] = tail[r]
    BY <1>1, <1>7, <2>1 DEF TypeOK
  <2>3. \A j \in 1..m : j \in 1..L /\ j < k /\ chain'[q][j] = s[j]
    BY <1>5, <1>10, <1>12
  <2>4. \A x \in Nodes : x # n => (x \in stale' <=> x \in stale)
    BY <1>9, <1>12
  <2>5. ASSUME n \notin stale PROVE Represents(q, chain[q])'
    <3>1. prev[n] = s[m]
      BY <1>3, <1>12, <2>5
    <3>2. m \in 1..m /\ 1 \in 1..m
      BY <1>5
    <3>0. next \in [Nodes -> Nodes \cup {NULL}] /\ s[m] \in Nodes
      BY <1>1, <1>2, <1>5 DEF TypeOK
    <3>3. next'[s[m]] = NULL
      BY <2>1, <3>1, <3>0
    <3>4. ASSUME NEW j \in 1..m
          PROVE  next'[chain'[q][j]] = IF j < m THEN chain'[q][j + 1] ELSE NULL
      <4>1. CASE j = m
        BY SMTT(30), <2>3, <3>2, <3>3, <4>1
      <4>2. CASE j # m
        <5>1. j < m /\ j < L /\ j + 1 \in 1..m /\ j \in 1..L /\ m \in 1..L
          BY <1>2, <1>5, <4>2
        <5>2. s[j] # s[m]
          BY <1>4, <4>2, <5>1
        <5>3. s[j] \in Nodes
          BY <1>2, <5>1
        <5>4. next'[s[j]] = next[s[j]]
          BY <2>1, <3>1, <3>0, <5>2, <5>3
        <5> QED BY <1>3, <2>3, <5>1, <5>4
      <4> QED BY <4>1, <4>2
    <3>5. ASSUME NEW j \in 2..m
          PROVE  chain'[q][j] \notin stale' <=> prev'[chain'[q][j]] = chain'[q][j - 1]
      <4>1. j \in 1..m /\ j - 1 \in 1..m /\ j \in 2..L /\ j \in 1..L /\ j # k
        BY <1>2, <1>5, <1>12
      <4>2. chain'[q][j] = s[j] /\ chain'[q][j - 1] = s[j - 1]
        BY <2>3, <4>1
      <4>3. s[j] # n /\ s[j] \in Nodes
        BY <1>2, <1>4, <1>5, <4>1
      <4>4. s[j] \notin stale <=> prev[s[j]] = s[j - 1]
        BY <1>3, <4>1
      <4> QED BY <2>1, <2>4, <4>2, <4>3, <4>4
    <3>6. head'[q] = chain'[q][1] /\ tail'[q] = chain'[q][m]
      BY <1>7, <2>1, <2>2, <2>3, <3>1, <3>2
    <3>7. m # 0
      BY <1>5
    <3> HIDE DEF m
    <3> QED BY <1>10, <1>11, <3>4, <3>5, <3>6, <3>7, RepresentsAfter
  <2>6. ASSUME n \notin stale, NEW r \in QueueIds, r # q PROVE Represents(r, chain[r])'
    <3>1. Represents(r, chain[r]) /\ chain'[r] = chain[r] /\ Len(chain[r]) \in Nat
      BY <1>1, <1>10, <2>6, ChainFacts DEF ImplementsSequences
    <3>2. head'[r] = head[r] /\ tail'[r] = tail[r] /\ size'[r] = size[r]
      BY <1>11, <2>1, <2>2, <2>6
    <3>3. prev[n] = s[k - 1]
      BY <1>3, <2>6
    <3>4. ASSUME NEW j \in 1..Len(chain[r])
          PROVE  /\ next'[chain[r][j]] = next[chain[r][j]]
                 /\ prev'[chain[r][j]] = prev[chain[r][j]]
                 /\ chain[r][j] \in stale' <=> chain[r][j] \in stale
      <4>1. chain[r][j] \in Nodes /\ chain[r][j] # n /\ chain[r][j] # s[k - 1]
        BY <1>1, <1>5, <2>6, ChainFacts DEF DistinctNodes
      <4> QED BY <1>1, <2>1, <2>4, <3>3, <4>1 DEF TypeOK
    <3> QED BY <3>1, <3>2, <3>4, OtherQueue
  <2>7. ASSUME n \in stale PROVE ~Represents(q, chain[q])'
    <3>1. prev[n] # s[m]
      BY <1>3, <1>12, <2>7
    <3>2. tail'[q] # chain'[q][Len(chain'[q])] /\ Len(chain'[q]) > 0
      <4>1. m \in 1..m
        BY <1>5
      <4> QED BY <1>5, <1>10, <2>2, <2>3, <3>1, <4>1
    <3> QED BY <3>2 DEF Represents
  <2> QED BY <1>8, <1>10, <1>11, <2>2, <2>5, <2>6, <2>7 DEF PointersOK, ImplementsSequences
<1>13. CASE k # L
  <2>1. k < L /\ k + 1 \in 1..L /\ k + 1 \in 2..L /\ (k + 1) - 1 = k /\ k \in 1..m /\ k - 1 \in 1..m
    BY <1>2, <1>13
  <2>2. n # s[L] /\ next[n] = s[k + 1] /\ s[k + 1] \in Nodes /\ s[k + 1] # n
    BY <1>2, <1>3, <1>4, <1>5, <1>13, <2>1
  <2>3. /\ head' = head /\ tail' = tail
        /\ next' = [next EXCEPT ![prev[n]] = s[k + 1]]
        /\ prev' = [prev EXCEPT ![s[k + 1]] = n]
    BY <1>7, <2>2 DEF UnlinkTail, UnlinkMiddle
  <2>4. /\ head' \in [QueueIds -> Nodes \cup {NULL}] /\ tail' \in [QueueIds -> Nodes \cup {NULL}]
        /\ prev' \in [Nodes -> Nodes \cup {NULL}] /\ next' \in [Nodes -> Nodes \cup {NULL}]
    BY <1>1, <1>7, <2>2, <2>3 DEF TypeOK
  <2>5. \A x \in Nodes : x # n /\ x # s[k + 1] => (x \in stale' <=> x \in stale)
    BY <1>9, <2>1
  <2>6. s[k + 1] \in stale' /\ prev'[s[k + 1]] = n
    BY <1>1, <1>9, <2>1, <2>2, <2>3 DEF TypeOK
  <2>7. /\ \A j \in 1..m : j < k => chain'[q][j] = s[j]
        /\ \A j \in 1..m : k <= j => chain'[q][j] = s[j + 1]
    BY <1>5, <1>10
  <2>8. ASSUME n \notin stale PROVE Represents(q, chain[q])'
    <3>1. prev[n] = s[k - 1]
      BY <1>3, <2>8
    <3>2. next'[s[k - 1]] = s[k + 1]
      BY <1>1, <1>2, <1>5, <2>3, <3>1 DEF TypeOK
    <3>3. \A j \in 1..L : j # k - 1 => next'[s[j]] = next[s[j]]
      BY <1>1, <1>2, <1>4, <1>5, <2>3, <3>1 DEF TypeOK
    <3>4. \A j \in 1..L : j # k + 1 => prev'[s[j]] = prev[s[j]]
      BY <1>1, <1>2, <1>4, <2>1, <2>3 DEF TypeOK
    <3>5. \A j \in 1..L : j # k + 1 /\ j # k => (s[j] \in stale' <=> s[j] \in stale)
      BY <1>2, <1>4, <1>5, <2>1, <2>5
    <3>6. ASSUME NEW j \in 1..m
          PROVE  next'[chain'[q][j]] = IF j < m THEN chain'[q][j + 1] ELSE NULL
      <4>1. CASE j < k - 1
        <5>1. /\ j \in 1..L /\ j + 1 \in 1..m /\ j < k /\ j + 1 < k /\ j # k - 1
              /\ j < L /\ j < m
          BY <1>2, <2>1, <4>1
        <5>2. next'[s[j]] = s[j + 1]
          BY <1>3, <3>3, <5>1
        <5> QED BY <2>7, <5>1, <5>2
      <4>2. CASE j = k - 1
        <5>1. j < k /\ k <= k /\ j < m /\ j + 1 = k
          BY <1>2, <2>1, <4>2
        <5> QED BY <2>1, <2>7, <3>2, <4>2, <5>1
      <4>3. CASE k <= j
        <5>1. j + 1 \in 1..L /\ j + 1 # k - 1 /\ (j + 1 < L <=> j < m)
          BY <1>2, <2>1, <4>3
        <5>2. chain'[q][j] = s[j + 1] /\ next'[s[j + 1]] = IF j < m THEN s[(j + 1) + 1] ELSE NULL
          BY <1>3, <2>7, <3>3, <4>3, <5>1
        <5>3. j < m => j + 1 \in 1..m /\ k <= j + 1
          BY <1>5, <4>3
        <5> QED BY <2>7, <5>2, <5>3
      <4> QED BY <1>5, <4>1, <4>2, <4>3
    <3>7. ASSUME NEW j \in 2..m
          PROVE  chain'[q][j] \notin stale' <=> prev'[chain'[q][j]] = chain'[q][j - 1]
      <4>1. CASE j < k
        <5>1. /\ j \in 1..m /\ j - 1 \in 1..m /\ j \in 2..L /\ j \in 1..L /\ j # k /\ j # k + 1
              /\ j - 1 < k
          BY <1>2, <1>5, <4>1
        <5>2. chain'[q][j] = s[j] /\ chain'[q][j - 1] = s[j - 1]
          BY <2>7, <4>1, <5>1
        <5>3. s[j] \notin stale <=> prev[s[j]] = s[j - 1]
          BY <1>3, <5>1
        <5> QED BY <3>4, <3>5, <5>1, <5>2, <5>3
      <4>2. CASE j = k
        <5>1. k - 1 < k /\ k <= k
          BY <1>5
        <5>2. chain'[q][j] = s[k + 1] /\ chain'[q][j - 1] = s[k - 1]
          BY <2>1, <2>7, <4>2, <5>1
        <5>3. n # s[k - 1]
          BY <1>4, <1>5
        <5> QED BY <2>6, <5>2, <5>3
      <4>3. CASE k < j
        <5>1. /\ j \in 1..m /\ j - 1 \in 1..m /\ k <= j - 1 /\ k <= j /\ (j - 1) + 1 = j
              /\ j + 1 \in 1..L /\ j + 1 \in 2..L /\ j + 1 # k + 1 /\ j + 1 # k /\ (j + 1) - 1 = j
          BY <1>5, <4>3
        <5>2. chain'[q][j] = s[j + 1] /\ chain'[q][j - 1] = s[j]
          BY <2>7, <5>1
        <5>3. s[j + 1] \notin stale <=> prev[s[j + 1]] = s[j]
          BY <1>3, <5>1
        <5> QED BY <3>4, <3>5, <5>1, <5>2, <5>3
      <4> QED BY <1>5, <4>1, <4>2, <4>3
    <3>8. head'[q] = chain'[q][1] /\ tail'[q] = chain'[q][m]
      <4>1. 1 \in 1..m /\ 1 < k /\ m \in 1..m /\ k <= m
        BY <1>5, <2>1
      <4> QED BY <1>5, <1>7, <2>3, <2>7, <4>1
    <3>9. m # 0
      BY <1>5
    <3> HIDE DEF m
    <3> QED BY <1>10, <1>11, <3>6, <3>7, <3>8, <3>9, RepresentsAfter
  <2>9. ASSUME n \notin stale, NEW r \in QueueIds, r # q PROVE Represents(r, chain[r])'
    <3>1. Represents(r, chain[r]) /\ chain'[r] = chain[r] /\ Len(chain[r]) \in Nat
      BY <1>1, <1>10, <2>9, ChainFacts DEF ImplementsSequences
    <3>2. head'[r] = head[r] /\ tail'[r] = tail[r] /\ size'[r] = size[r]
      BY <1>11, <2>3, <2>9
    <3>3. prev[n] = s[k - 1]
      BY <1>3, <2>9
    <3>4. ASSUME NEW j \in 1..Len(chain[r])
          PROVE  /\ next'[chain[r][j]] = next[chain[r][j]]
                 /\ prev'[chain[r][j]] = prev[chain[r][j]]
                 /\ chain[r][j] \in stale' <=> chain[r][j] \in stale
      <4>1. /\ chain[r][j] \in Nodes /\ chain[r][j] # n /\ chain[r][j] # s[k - 1]
            /\ chain[r][j] # s[k + 1]
        BY <1>1, <1>5, <2>1, <2>9, ChainFacts DEF DistinctNodes
      <4> QED BY <1>1, <2>3, <2>5, <3>3, <4>1 DEF TypeOK
    <3> QED BY <3>1, <3>2, <3>4, OtherQueue
  <2>10. ASSUME n \in stale PROVE ~Represents(q, chain[q])'
    <3>1. prev[n] # s[k - 1] /\ s[k - 1] \in Nodes
      BY <1>2, <1>3, <1>5, <2>10
    <3>2. next'[s[k - 1]] = n
      <4>1. k - 1 < L
        BY <1>5
      <4>2. next[s[k - 1]] = n
        BY <1>3, <1>5, <4>1
      <4> QED BY <1>1, <2>3, <3>1, <4>2 DEF TypeOK
    <3>3. chain'[q][k - 1] = s[k - 1] /\ chain'[q][k] = s[k + 1] /\ k - 1 < m
      <4>1. k - 1 < k /\ k <= k /\ k - 1 < m
        BY <1>5, <2>1
      <4> QED BY <2>1, <2>7, <4>1
    <3>4. ~(\A j \in 1..Len(chain'[q]) :
              next'[chain'[q][j]] = IF j < Len(chain'[q]) THEN chain'[q][j + 1] ELSE NULL)
      BY <1>5, <1>10, <2>1, <2>2, <3>2, <3>3
    <3> QED BY <3>4 DEF Represents
  <2> QED BY <1>8, <1>10, <1>11, <2>4, <2>8, <2>9, <2>10 DEF PointersOK, ImplementsSequences
<1> QED
  BY <1>12, <1>13
-----------------------------------------------------------------------------
(* Every step preserves the invariant.  A wrong prev that has been         *)
(* followed has broken a list, and nothing is done after it.               *)

FullInv == LInv /\ StalePrevIsFatal

(* When a call has returned, the pointers and the histories say it all.    *)
LEMMA CallReturned ==
  ASSUME TypeOK, PointersOK', DistinctNodes', chain' \in [QueueIds -> Seq(Nodes)],
         stale' \in SUBSET Nodes, sound' \in BOOLEAN, key' \in [Nodes -> Keys],
         call' = NoCall,
         sound' \/ \E q \in QueueIds : ~Represents(q, chain[q])'
  PROVE  FullInv'
<1>1. TypeOK'
  BY DEF PointersOK, TypeOK
<1>2. SearchInOrder' /\ CallOK'
  BY DEF SearchInOrder, CallOK
<1> QED
  BY <1>1, <1>2 DEF FullInv, LInv, PointersOK, StalePrevIsFatal

LEMMA EnqueueNodeFCFSStep ==
  ASSUME FullInv, NEW q \in QueueIds, NEW n \in Nodes, EnqueueNodeFCFS(q, n)
  PROVE  FullInv'
<1> DEFINE k == Len(chain[q]) + 1
<1>1. LInv /\ TypeOK /\ DistinctNodes
  BY DEF FullInv, LInv
<1>2. /\ sound /\ Unlinked(n) /\ SizeIncremented(q) /\ Inserted(q, n, k)
      /\ LinkOnly(q, n) \/ LinkBack(q, n)
      /\ key' = key /\ call' = NoCall
  BY DEF EnqueueNodeFCFS, Ready
<1>3. Len(chain[q]) \in Nat /\ k \in 1..(Len(chain[q]) + 1)
  BY <1>1, ChainFacts
<1>4. LinkOnly(q, n) => k = 1
  <2>1. Len(chain[q]) > 0 => head[q] = chain[q][1]
    BY <1>1, <1>2 DEF LInv, ImplementsSequences, Represents
  <2>2. \A j \in 1..Len(chain[q]) : chain[q][j] # NULL
    BY <1>1, ChainFacts
  <2> QED BY <1>3, <2>1, <2>2 DEF LinkOnly
<1>5. PointersOK'
  BY <1>1, <1>2, <1>3, <1>4, EndLinked
<1>6. /\ chain' \in [QueueIds -> Seq(Nodes)] /\ stale' \in SUBSET Nodes /\ sound' \in BOOLEAN
      /\ DistinctNodes' /\ (sound' <=> (k \in 2..Len(chain[q]) => chain[q][k] \notin stale))
  BY <1>1, <1>2, <1>3, InsertedFacts
<1>7. sound'
  BY <1>3, <1>6
<1>8. key' \in [Nodes -> Keys]
  BY <1>1, <1>2 DEF TypeOK
<1> QED
  BY <1>1, <1>2, <1>5, <1>6, <1>7, <1>8, CallReturned

LEMMA EnqueueNodeSortedStep ==
  ASSUME FullInv, NEW q \in QueueIds, NEW n \in Nodes, NEW v \in Keys,
         EnqueueNodeSorted(q, n, v)
  PROVE  FullInv'
<1> DEFINE s == chain[q]
           k == SortedPosition(s, n, key')
<1>1. LInv /\ TypeOK /\ DistinctNodes
  BY DEF FullInv, LInv
<1>2. /\ sound /\ Unlinked(n) /\ SizeIncremented(q) /\ Inserted(q, n, k)
      /\ call' = NoCall /\ key' = [key EXCEPT ![n] = v]
      /\ \/ LinkOnly(q, n)
         \/ head[q] # NULL /\ v < key[head[q]] /\ LinkFront(q, n)
         \/ head[q] # NULL /\ v >= key[head[q]] /\ v >= key[tail[q]] /\ LinkBack(q, n)
  BY DEF EnqueueNodeSorted, Ready
<1>3. s \in Seq(Nodes) /\ Len(s) \in Nat /\ \A j \in 1..Len(s) : s[j] \in Nodes /\ s[j] # NULL
  BY <1>1, ChainFacts
<1>4. key' \in [Nodes -> Keys] /\ key' \in [Nodes -> Int] /\ key'[n] = v
      /\ \A x \in Nodes : x # n => key'[x] = key[x]
  BY <1>1, <1>2, NodeAssumption DEF TypeOK
<1>5. \A j \in 1..Len(s) : s[j] # n
  BY <1>1, <1>2, UnlinkedFacts
<1>6. (Len(s) = 0 => head[q] = NULL) /\ (Len(s) > 0 => head[q] = s[1] /\ tail[q] = s[Len(s)])
  BY <1>1, <1>2 DEF LInv, ImplementsSequences, Represents
<1>7. s = <<>> <=> Len(s) = 0
  BY <1>3, EmptySeq
<1>8. \/ LinkOnly(q, n) /\ k = 1
      \/ LinkFront(q, n) /\ k = 1
      \/ LinkBack(q, n) /\ k = Len(s) + 1
  <2>1. /\ s = <<>> => k = 1
        /\ s # <<>> /\ key'[n] < key'[s[1]] => k = 1
        /\ s # <<>> /\ key'[n] >= key'[s[1]] /\ key'[n] >= key'[s[Len(s)]] => k = Len(s) + 1
    BY <1>3, <1>4, SortedPositionCases
  <2>2. CASE LinkOnly(q, n)
    BY <1>3, <1>6, <1>7, <2>1, <2>2 DEF LinkOnly
  <2>3. CASE ~LinkOnly(q, n)
    <3>1. head[q] # NULL /\ Len(s) > 0 /\ s # <<>>
      BY <1>2, <1>3, <1>6, <1>7, <2>3
    <3>2. 1 \in 1..Len(s) /\ Len(s) \in 1..Len(s)
      BY <1>3, <3>1
    <3>3. key'[s[1]] = key[head[q]] /\ key'[s[Len(s)]] = key[tail[q]]
      BY <1>3, <1>4, <1>5, <1>6, <3>1, <3>2
    <3> HIDE DEF k
    <3> QED BY <1>2, <1>4, <2>1, <2>3, <3>1, <3>3
  <2> QED BY <2>2, <2>3
<1>9. k \in 1..(Len(s) + 1)
  BY <1>3, <1>4, SortedPositionInRange
<1> HIDE DEF k
<1>10. PointersOK'
  BY <1>1, <1>2, <1>8, <1>9, EndLinked
<1>11. /\ chain' \in [QueueIds -> Seq(Nodes)] /\ stale' \in SUBSET Nodes /\ sound' \in BOOLEAN
       /\ DistinctNodes' /\ (sound' <=> (k \in 2..Len(s) => s[k] \notin stale))
  BY <1>1, <1>2, <1>9, InsertedFacts
<1>12. sound'
  BY <1>3, <1>8, <1>11
<1> QED
  BY <1>1, <1>2, <1>4, <1>10, <1>11, <1>12, CallReturned

(* The loop starts behind the head, whose key has been compared, and does  *)
(* not pass the tail, whose key is larger.                                 *)
LEMMA SearchFromSecondStep ==
  ASSUME FullInv, NEW q \in QueueIds, NEW n \in Nodes, NEW v \in Keys,
         SearchFromSecond(q, n, v)
  PROVE  FullInv'
<1> DEFINE s == chain[q]
<1>1. LInv /\ TypeOK /\ DistinctNodes /\ ImplementsSequences /\ StalePrevIsFatal
  BY DEF FullInv, LInv
<1>2. /\ sound /\ Unlinked(n) /\ q \in SortedIds
      /\ head[q] # NULL /\ v >= key[head[q]] /\ v < key[tail[q]]
      /\ key' = [key EXCEPT ![n] = v]
      /\ call' = [queue |-> q, node |-> n, tmp |-> next[head[q]]]
      /\ head' = head /\ tail' = tail /\ size' = size /\ prev' = prev /\ next' = next
      /\ chain' = chain /\ stale' = stale /\ sound' = sound
  BY DEF SearchFromSecond, Ready, pointers
<1>3. s \in Seq(Nodes) /\ Len(s) \in Nat /\ \A j \in 1..Len(s) : s[j] \in Nodes /\ s[j] # NULL
  BY <1>1, ChainFacts
<1>4. key' \in [Nodes -> Keys] /\ key \in [Nodes -> Int] /\ v \in Int /\ key'[n] = v
      /\ \A x \in Nodes : x # n => key'[x] = key[x]
  BY <1>1, <1>2, NodeAssumption DEF TypeOK
<1>5. \A j \in 1..Len(s) : s[j] # n
  BY <1>1, <1>2, UnlinkedFacts
<1>6. /\ Len(s) = 0 => head[q] = NULL
      /\ Len(s) > 0 => head[q] = s[1] /\ tail[q] = s[Len(s)]
      /\ \A j \in 1..Len(s) : next[s[j]] = IF j < Len(s) THEN s[j + 1] ELSE NULL
  BY <1>1, <1>2 DEF ImplementsSequences, Represents
<1>7. Len(s) > 0 /\ 1 \in 1..Len(s) /\ Len(s) \in 1..Len(s)
  BY <1>2, <1>3, <1>6
<1>8. key'[s[1]] = key[head[q]] /\ key'[s[Len(s)]] = key[tail[q]]
      /\ key[head[q]] \in Int /\ key[tail[q]] \in Int
  BY <1>3, <1>4, <1>5, <1>6, <1>7
<1>9. Len(s) # 1
  BY <1>2, <1>4, <1>6, <1>7, <1>8
<1>10. 2 \in 2..Len(s) /\ 2 \in 1..Len(s) /\ 1 < Len(s)
  <2> DEFINE L == Len(s)
  <2>1. L \in Nat /\ L > 0 /\ L # 1
    BY <1>3, <1>7, <1>9
  <2> HIDE DEF L
  <2>2. 2 \in 2..L /\ 2 \in 1..L /\ 1 < L
    BY <2>1
  <2> QED BY <2>2 DEF L
<1>11. next[head[q]] = s[2]
  BY <1>6, <1>7, <1>10
<1>12. /\ call'.queue = q /\ call'.node = n /\ call'.tmp = s[2]
  BY <1>2, <1>11
<1>13. TypeOK'
  <2>1. call' \in [queue : SortedIds, node : Nodes, tmp : Nodes]
    BY <1>2, <1>3, <1>10, <1>11
  <2> QED BY <1>1, <1>2, <1>4, <2>1 DEF TypeOK
<1>14. SearchInOrder'
  <2>1. \A j \in 1..(2 - 1) : key'[s[j]] <= key'[n]
    <3>1. \A j \in 1..(2 - 1) : j = 1
      OBVIOUS
    <3> QED BY <1>2, <1>4, <1>8, <3>1
  <2>2. key'[n] < key'[tail[q]]
    BY <1>2, <1>4, <1>6, <1>7, <1>8
  <2> QED BY <1>2, <1>10, <1>12, <2>1, <2>2 DEF SearchInOrder
<1>15. CallOK'
  BY <1>2, <1>12 DEF CallOK, Unlinked, LinkedIn
<1>16. DistinctNodes' /\ ImplementsSequences' /\ StalePrevIsFatal'
  BY <1>1, <1>2 DEF DistinctNodes, ImplementsSequences, Represents, StalePrevIsFatal
<1> QED
  BY <1>13, <1>14, <1>15, <1>16 DEF FullInv, LInv

LEMMA SearchOnStep ==
  ASSUME FullInv, SearchOn
  PROVE  FullInv'
<1>1. LInv /\ TypeOK /\ DistinctNodes /\ ImplementsSequences /\ StalePrevIsFatal
      /\ SearchInOrder /\ CallOK
  BY DEF FullInv, LInv
<1>2. /\ call # NoCall /\ key[call.node] >= key[call.tmp]
      /\ call' = [call EXCEPT !.tmp = next[call.tmp]]
      /\ head' = head /\ tail' = tail /\ size' = size /\ prev' = prev /\ next' = next
      /\ key' = key /\ chain' = chain /\ stale' = stale /\ sound' = sound
  BY DEF SearchOn, pointers
<1>3. call \in [queue : SortedIds, node : Nodes, tmp : Nodes]
  BY <1>1, <1>2 DEF TypeOK
<1>4. PICK q \in SortedIds, n \in Nodes, tmp \in Nodes :
        call.queue = q /\ call.node = n /\ call.tmp = tmp
  BY <1>3
<1>5. call'.queue = q /\ call'.node = n /\ call'.tmp = next[tmp]
      /\ call' = [queue |-> q, node |-> n, tmp |-> next[tmp]]
  BY <1>2, <1>3, <1>4
<1> DEFINE s == chain[q]
<1>6. q \in QueueIds
  BY NodeAssumption
<1>7. s \in Seq(Nodes) /\ Len(s) \in Nat /\ \A j \in 1..Len(s) : s[j] \in Nodes /\ s[j] # NULL
  BY <1>1, <1>6, ChainFacts
<1>8. key \in [Nodes -> Int]
  BY <1>1, NodeAssumption DEF TypeOK
<1>9. sound /\ Unlinked(n)
  BY <1>1, <1>2, <1>4 DEF CallOK
<1>10. /\ Len(s) > 0 => head[q] = s[1] /\ tail[q] = s[Len(s)]
       /\ \A j \in 1..Len(s) : next[s[j]] = IF j < Len(s) THEN s[j + 1] ELSE NULL
  BY <1>1, <1>6, <1>9 DEF ImplementsSequences, Represents
<1>11. PICK k \in 2..Len(s) : /\ tmp = s[k]
                              /\ \A j \in 1..(k - 1) : key[s[j]] <= key[n]
                              /\ key[n] < key[tail[q]]
  BY <1>1, <1>2, <1>4 DEF SearchInOrder
<1>12. k # Len(s)
  <2>1. Len(s) > 0
    BY <1>7
  <2> QED BY <1>2, <1>4, <1>8, <1>10, <1>11, <2>1
<1>13. k + 1 \in 2..Len(s) /\ k + 1 \in 1..Len(s) /\ k < Len(s) /\ k \in 1..Len(s)
  BY <1>7, <1>12
<1>14. next[tmp] = s[k + 1] /\ s[k + 1] \in Nodes
  BY <1>7, <1>10, <1>11, <1>13
<1>15. \A j \in 1..((k + 1) - 1) : key[s[j]] <= key[n]
  <2> SUFFICES ASSUME NEW j \in 1..((k + 1) - 1) PROVE key[s[j]] <= key[n]
    OBVIOUS
  <2>1. CASE j = k
    BY <1>2, <1>4, <1>8, <1>11, <2>1
  <2>2. CASE j # k
    <3>1. j \in 1..(k - 1)
      BY <1>7, <2>2
    <3> QED BY <1>11, <3>1
  <2> QED BY <2>1, <2>2
<1>16. TypeOK'
  <2>1. call' \in [queue : SortedIds, node : Nodes, tmp : Nodes]
    BY <1>5, <1>14
  <2> QED BY <1>1, <1>2, <2>1 DEF TypeOK
<1>17. SearchInOrder'
  <2>1. /\ call'.tmp = s[k + 1]
        /\ \A j \in 1..((k + 1) - 1) : key[s[j]] <= key[n]
        /\ key[n] < key[tail[q]]
    BY <1>5, <1>11, <1>14, <1>15
  <2>2. chain'[call'.queue] = s /\ key' = key /\ tail' = tail /\ call'.node = n /\ call'.queue = q
    BY <1>2, <1>5
  <2> HIDE DEF s
  <2> QED BY <1>13, <2>1, <2>2 DEF SearchInOrder
<1>18. CallOK'
  BY <1>2, <1>5, <1>9 DEF CallOK, Unlinked, LinkedIn
<1>19. DistinctNodes' /\ ImplementsSequences' /\ StalePrevIsFatal'
  BY <1>1, <1>2 DEF DistinctNodes, ImplementsSequences, Represents, StalePrevIsFatal
<1> QED
  BY <1>16, <1>17, <1>18, <1>19 DEF FullInv, LInv

LEMMA LinkBeforeStep ==
  ASSUME FullInv, LinkBefore
  PROVE  FullInv'
<1>1. LInv /\ TypeOK /\ DistinctNodes
  BY DEF FullInv, LInv
<1>2. call # NoCall /\ key[call.node] < key[call.tmp] /\ call' = NoCall /\ key' = key
      /\ Inserted(call.queue, call.node, SortedPosition(chain[call.queue], call.node, key))
  BY DEF LinkBefore
<1>3. PICK q, n, tmp : call.queue = q /\ call.node = n /\ call.tmp = tmp
  OBVIOUS
<1>4. PointersOK' /\ q \in QueueIds /\ (sound' \/ ~Represents(q, chain[q])')
  BY <1>1, <1>3, MiddleLinked
<1>5. n \in Nodes /\ Unlinked(n)
  BY <1>1, <1>2, <1>3, SearchPosition
<1>6. PICK k \in 2..Len(chain[q]) : SortedPosition(chain[q], n, key) = k
  BY <1>1, <1>2, <1>3, SearchPosition
<1>7. k \in 1..(Len(chain[q]) + 1)
  BY <1>1, <1>4, ChainFacts
<1>8. Inserted(q, n, k)
  BY <1>2, <1>3, <1>6
<1>9. /\ chain' \in [QueueIds -> Seq(Nodes)] /\ stale' \in SUBSET Nodes /\ sound' \in BOOLEAN
      /\ DistinctNodes'
  BY <1>1, <1>4, <1>5, <1>7, <1>8, InsertedFacts
<1>10. key' \in [Nodes -> Keys]
  BY <1>1, <1>2 DEF TypeOK
<1>11. sound' \/ \E r \in QueueIds : ~Represents(r, chain[r])'
  BY <1>4
<1> QED
  BY <1>1, <1>2, <1>4, <1>9, <1>10, <1>11, CallReturned

LEMMA UnlinkTopStep ==
  ASSUME FullInv, NEW q \in QueueIds, UnlinkTop(q)
  PROVE  FullInv'
<1> DEFINE s == chain[q]
           L == Len(s)
           t == DequeueTopNode(s)
<1>1. LInv /\ TypeOK /\ DistinctNodes
  BY DEF FullInv, LInv
<1>2. /\ sound /\ head[q] # NULL /\ call' = NoCall /\ AfterDequeue(q)
      /\ head' = [head EXCEPT ![q] = next[head[q]]]
      /\ size' = [size EXCEPT ![q] = @ - 1] /\ next' = next
      /\ chain' = [chain EXCEPT ![q] = t]
      /\ stale' = StaleAfterDequeue(s, stale) /\ key' = key /\ sound' = sound
  BY DEF UnlinkTop, Ready
<1>3. s \in Seq(Nodes) /\ L \in Nat /\ \A j \in 1..L : s[j] \in Nodes /\ s[j] # NULL
  BY <1>1, ChainFacts
<1>4. /\ L = 0 => head[q] = NULL
      /\ L > 0 => head[q] = s[1] /\ tail[q] = s[L]
      /\ \A j \in 1..L : next[s[j]] = IF j < L THEN s[j + 1] ELSE NULL
  BY <1>1, <1>2 DEF LInv, ImplementsSequences, Represents
<1>5. L > 0 /\ 1 \in 1..L
  BY <1>2, <1>3, <1>4
<1>6. head[q] = s[1] /\ next[s[1]] = IF 1 < L THEN s[2] ELSE NULL
  BY <1>4, <1>5
<1>7. 1 < L => s[2] \in Nodes /\ s[2] # NULL
  BY <1>3
<1>8. t \in Seq(Nodes) /\ Len(t) = L - 1 /\ \A j \in 1..(L - 1) : t[j] = s[j + 1]
  <2>1. s # <<>>
    BY <1>3, <1>5, EmptySeq
  <2> QED BY <1>3, <2>1, HeadTailProperties DEF DequeueTopNode
<1>9. stale' = stale \ {IF 1 < L THEN s[2] ELSE NULL}
  BY <1>1, <1>2, <1>5, LinkedPosition DEF StaleAfterDequeue
<1>10. stale' \in SUBSET Nodes /\ sound' \in BOOLEAN /\ key' \in [Nodes -> Keys]
  BY <1>1, <1>2, <1>9 DEF TypeOK
<1>11. \A x \in Nodes : x # s[1] => (x \in stale' <=> x \in stale /\ (L > 1 => x # s[2]))
  <2>1. NULL \notin Nodes
    BY NodeAssumption
  <2> QED BY <1>3, <1>9, <2>1
<1>12. /\ tail' \in [QueueIds -> Nodes \cup {NULL}]
       /\ \A r \in QueueIds : r # q \/ L > 1 => tail'[r] = tail[r]
       /\ prev' = IF next[head[q]] = NULL THEN prev ELSE [prev EXCEPT ![next[head[q]]] = NULL]
  BY <1>1, <1>2, <1>3, <1>6, <1>7 DEF AfterDequeue, TypeOK
<1> HIDE DEF t
<1>13. PointersOK' /\ chain' \in [QueueIds -> Seq(Nodes)] /\ DistinctNodes'
  BY <1>1, <1>2, <1>5, <1>8, <1>10, <1>11, <1>12, HeadUnlinked
<1> QED
  BY <1>1, <1>2, <1>10, <1>13, CallReturned

LEMMA DequeueNothingStep ==
  ASSUME FullInv, NEW q \in QueueIds, DequeueNothing(q)
  PROVE  FullInv'
<1>1. LInv /\ TypeOK /\ DistinctNodes /\ ImplementsSequences
  BY DEF FullInv, LInv
<1>2. /\ sound /\ head[q] = NULL /\ call' = NoCall
      /\ tail' = [tail EXCEPT ![q] = NULL]
      /\ head' = head /\ size' = size /\ prev' = prev /\ next' = next
      /\ key' = key /\ chain' = chain /\ stale' = stale /\ sound' = sound
  BY DEF DequeueNothing, Ready
<1>3. tail' \in [QueueIds -> Nodes \cup {NULL}] /\ \A r \in QueueIds : r # q => tail'[r] = tail[r]
  BY <1>1, <1>2 DEF TypeOK
<1>4. ASSUME NEW r \in QueueIds PROVE Represents(r, chain[r])'
  <2>1. Represents(r, chain[r])
    BY <1>1, <1>2 DEF ImplementsSequences
  <2>2. CASE r = q
    <3>1. \A j \in 1..Len(chain[q]) : chain[q][j] # NULL
      BY <1>1, ChainFacts
    <3>2. Len(chain[q]) \in Nat
      BY <1>1, ChainFacts
    <3>3. ~(Len(chain[q]) > 0)
      BY <1>2, <2>1, <2>2, <3>1, <3>2 DEF Represents
    <3> QED BY <1>2, <2>1, <2>2, <3>3 DEF Represents
  <2>3. CASE r # q
    BY <1>2, <1>3, <2>1, <2>3 DEF Represents
  <2> QED BY <2>2, <2>3
<1>5. PointersOK'
  BY <1>1, <1>2, <1>3, <1>4 DEF PointersOK, ImplementsSequences, TypeOK
<1>6. DistinctNodes'
  BY <1>1, <1>2 DEF DistinctNodes
<1> QED
  BY <1>1, <1>2, <1>5, <1>6, CallReturned DEF TypeOK

LEMMA UnlinkStep ==
  ASSUME FullInv, NEW q \in QueueIds, NEW n \in Nodes, Unlink(q, n)
  PROVE  FullInv'
<1> DEFINE s == chain[q]
           L == Len(s)
           t == RemoveNode(s, n)
<1>1. LInv /\ TypeOK /\ DistinctNodes
  BY DEF FullInv, LInv
<1>2. /\ sound /\ LinkedIn(q, n) /\ call' = NoCall /\ SizeDecremented(q)
      /\ UnlinkHead(q, n) \/ UnlinkTail(q, n) \/ UnlinkMiddle(q, n)
      /\ chain' = [chain EXCEPT ![q] = t]
      /\ stale' = StaleAfterRemove(s, n, stale) /\ key' = key
      /\ sound' = RemoveIsSound(s, n, stale)
  BY DEF Unlink, Ready
<1>3. s \in Seq(Nodes) /\ L \in Nat /\ \A j \in 1..L : s[j] \in Nodes /\ s[j] # NULL
  BY <1>1, ChainFacts
<1>4. ProcessInQueue(s, n)
  BY <1>2 DEF LinkedIn
<1>5. PICK k \in 1..L : s[k] = n
  BY <1>3, <1>4, PositionInQueue
<1>6. /\ L > 0 => head[q] = s[1] /\ tail[q] = s[L]
      /\ \A j \in 1..L : next[s[j]] = IF j < L THEN s[j + 1] ELSE NULL
  BY <1>1, <1>2 DEF LInv, ImplementsSequences, Represents
<1>7. stale' \in SUBSET Nodes /\ sound' \in BOOLEAN /\ key' \in [Nodes -> Keys]
  <2>1. stale' \in SUBSET Nodes
    BY <1>1, <1>2, <1>3, <1>4, StaleAfterRemoveIsSet DEF TypeOK
  <2> QED BY <1>1, <1>2, <2>1 DEF TypeOK, RemoveIsSound
<1>8. L > 0 /\ head[q] = s[1] /\ 1 \in 1..L
  BY <1>3, <1>5, <1>6
<1>9. CASE k = 1
  <2>1. /\ head' = [head EXCEPT ![q] = next[n]] /\ tail' = tail /\ next' = next
        /\ prev' = IF next[n] = NULL THEN prev ELSE [prev EXCEPT ![next[n]] = NULL]
    BY <1>2, <1>5, <1>8, <1>9 DEF UnlinkHead, UnlinkTail, UnlinkMiddle
  <2>2. PositionOf(s, n) = 1 /\ NextNode(s, n) = IF 1 < L THEN s[2] ELSE NULL
    BY <1>1, <1>5, <1>9, LinkedPosition
  <2>3. t \in Seq(Nodes) /\ Len(t) = L - 1 /\ \A j \in 1..(L - 1) : t[j] = s[j + 1]
    <3>1. \A j \in 1..(L - 1) : t[j] = IF j < 1 THEN s[j] ELSE s[j + 1]
      BY <1>3, <1>4, <2>2, RemoveNodeElements
    <3>2. t \in Seq(Nodes) /\ Len(t) = L - 1
      BY <1>3, <1>4, RemoveNodeIsSeq
    <3> QED BY <1>3, <3>1, <3>2
  <2>4. \A x \in Nodes : x # s[1] => (x \in stale' <=> x \in stale /\ (L > 1 => x # s[2]))
    <3>1. stale' = stale \ {n, IF 1 < L THEN s[2] ELSE NULL}
      BY <1>2, <2>2 DEF StaleAfterRemove
    <3>2. NULL \notin Nodes
      BY NodeAssumption
    <3> QED BY <1>3, <1>5, <1>9, <3>1, <3>2
  <2>5. size' = [size EXCEPT ![q] = @ - 1]
    BY <1>2 DEF SizeDecremented
  <2>6. /\ tail' \in [QueueIds -> Nodes \cup {NULL}]
        /\ \A r \in QueueIds : r # q \/ L > 1 => tail'[r] = tail[r]
        /\ head' = [head EXCEPT ![q] = next[head[q]]]
        /\ prev' = IF next[head[q]] = NULL THEN prev ELSE [prev EXCEPT ![next[head[q]]] = NULL]
    BY <1>1, <1>5, <1>8, <1>9, <2>1 DEF TypeOK
  <2>7. sound'
    <3>1. TopNode(s) = n
      <4>1. s # <<>>
        BY <1>8, EmptySeq
      <4> QED BY <1>5, <1>9, <4>1 DEF TopNode
    <3> QED BY <1>2, <1>4, <3>1 DEF RemoveIsSound
  <2> HIDE DEF t
  <2>8. PointersOK' /\ chain' \in [QueueIds -> Seq(Nodes)] /\ DistinctNodes'
    BY <1>1, <1>2, <1>7, <1>8, <2>1, <2>3, <2>4, <2>5, <2>6, HeadUnlinked
  <2> QED BY <1>1, <1>2, <1>7, <2>7, <2>8, CallReturned
<1>10. CASE k # 1
  <2>1. k \in 2..L
    BY <1>3, <1>10
  <2>2. n # head[q]
    BY <1>1, <1>5, <1>8, <1>10 DEF DistinctNodes
  <2>3. UnlinkTail(q, n) \/ UnlinkMiddle(q, n)
    BY <1>2, <2>2 DEF UnlinkHead
  <2>4. /\ PointersOK' /\ chain' \in [QueueIds -> Seq(Nodes)] /\ DistinctNodes'
        /\ sound' \/ ~Represents(q, chain[q])'
    BY <1>1, <1>2, <1>5, <2>1, <2>3, InnerUnlinked
  <2>5. sound' \/ \E r \in QueueIds : ~Represents(r, chain[r])'
    BY <2>4
  <2> QED BY <1>1, <1>2, <1>7, <2>4, <2>5, CallReturned
<1> QED
  BY <1>9, <1>10

LEMMA Unchanged ==
  ASSUME FullInv, UNCHANGED vars
  PROVE  FullInv'
<1>1. /\ head' = head /\ tail' = tail /\ size' = size /\ prev' = prev /\ next' = next
      /\ key' = key /\ call' = call /\ chain' = chain /\ stale' = stale /\ sound' = sound
  BY DEF vars, pointers
<1>2. TypeOK' /\ DistinctNodes'
  BY <1>1 DEF FullInv, LInv, TypeOK, DistinctNodes
<1>3. ImplementsSequences' /\ StalePrevIsFatal'
  BY <1>1 DEF FullInv, LInv, ImplementsSequences, StalePrevIsFatal, Represents
<1>4. SearchInOrder' /\ CallOK'
  BY <1>1 DEF FullInv, LInv, SearchInOrder, CallOK, Unlinked, LinkedIn
<1> QED
  BY <1>2, <1>3, <1>4 DEF FullInv, LInv

LEMMA InitInv ==
  ASSUME Init
  PROVE  FullInv
<1>1. \A q \in QueueIds : chain[q] = <<>> /\ Len(chain[q]) = 0
  BY EmptySeq DEF Init
<1>2. TypeOK
  BY <1>1 DEF Init, TypeOK
<1>3. DistinctNodes
  BY <1>1 DEF DistinctNodes
<1>4. ImplementsSequences
  BY <1>1 DEF Init, ImplementsSequences, Represents
<1>5. SearchInOrder /\ CallOK /\ StalePrevIsFatal
  BY DEF Init, SearchInOrder, CallOK, StalePrevIsFatal
<1> QED
  BY <1>2, <1>3, <1>4, <1>5 DEF FullInv, LInv

(* The inductive invariant of the lists.                                   *)
THEOREM ListInvariant == Spec => []FullInv
<1>1. ASSUME FullInv, [Next]_vars PROVE FullInv'
  <2>1. ASSUME NEW q \in QueueIds, NEW n \in Nodes, EnqueueNodeFCFS(q, n) PROVE FullInv'
    BY <1>1, <2>1, EnqueueNodeFCFSStep
  <2>2. ASSUME NEW q \in QueueIds, NEW n \in Nodes, NEW v \in Keys, EnqueueNodeSorted(q, n, v)
        PROVE  FullInv'
    BY <1>1, <2>2, EnqueueNodeSortedStep
  <2>3. ASSUME NEW q \in QueueIds, NEW n \in Nodes, NEW v \in Keys, SearchFromSecond(q, n, v)
        PROVE  FullInv'
    BY <1>1, <2>3, SearchFromSecondStep
  <2>4. ASSUME NEW q \in QueueIds, NEW n \in Nodes, Unlink(q, n) PROVE FullInv'
    BY <1>1, <2>4, UnlinkStep
  <2>5. CASE SearchOn
    BY <1>1, <2>5, SearchOnStep
  <2>6. CASE LinkBefore
    BY <1>1, <2>6, LinkBeforeStep
  <2>7. ASSUME NEW q \in QueueIds, UnlinkTop(q) PROVE FullInv'
    BY <1>1, <2>7, UnlinkTopStep
  <2>8. ASSUME NEW q \in QueueIds, DequeueNothing(q) PROVE FullInv'
    BY <1>1, <2>8, DequeueNothingStep
  <2>9. CASE Stop \/ UNCHANGED vars
    BY <1>1, <2>9, Unchanged DEF Stop
  <2> QED
    BY <1>1, <2>1, <2>2, <2>3, <2>4, <2>5, <2>6, <2>7, <2>8, <2>9 DEF Next
<1> QED
  BY <1>1, InitInv, PTL DEF Spec

(* head, tail, next and prev are nodes or NULL, also in the loop of a      *)
(* sorted insertion: tmp is never NULL there.                              *)
THEOREM PointersAreNodes == Spec => []TypeOK
<1>1. FullInv => TypeOK
  BY DEF FullInv, LInv
<1> QED
  BY <1>1, ListInvariant, PTL

(* The pointers of every queue represent the sequence that the operators   *)
(* of module Queues compute, as long as no wrong prev has been followed.   *)
THEOREM ListsImplementSequences == Spec => []ImplementsSequences
<1>1. FullInv => ImplementsSequences
  BY DEF FullInv, LInv
<1> QED
  BY <1>1, ListInvariant, PTL

(* Following a wrong prev always breaks a list.                            *)
THEOREM StalePrevBreaksList == Spec => []StalePrevIsFatal
<1>1. FullInv => StalePrevIsFatal
  BY DEF FullInv
<1> QED
  BY <1>1, ListInvariant, PTL

(* The loop of a sorted insertion stops before the end of its list.        *)
THEOREM SearchStopsInOrder == Spec => []SearchInOrder
<1>1. FullInv => SearchInOrder
  BY DEF FullInv, LInv
<1> QED
  BY <1>1, ListInvariant, PTL
=============================================================================
