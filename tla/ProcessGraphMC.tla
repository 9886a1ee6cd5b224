--------------------------- MODULE ProcessGraphMC ---------------------------
(***************************************************************************)
(* The graph, on the inputs of SchedulerMC.                                *)
(***************************************************************************)
EXTENDS ProcessGraph, SchedulerMC
=============================================================================
