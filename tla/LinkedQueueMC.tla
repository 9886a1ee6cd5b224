---------------------------- MODULE LinkedQueueMC ----------------------------
(***************************************************************************)
(* Four nodes for two queues: the middle of a list has two nodes, and a    *)
(* sorted insertion passes one before it links.  The nodes are symmetric:  *)
(* nothing but their keys and links tells them apart.                      *)
(***************************************************************************)
EXTENDS LinkedQueue

NodeSymmetry == Permutations(Nodes)
=============================================================================
