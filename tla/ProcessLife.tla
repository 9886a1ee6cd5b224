----------------------------- MODULE ProcessLife -----------------------------
(***************************************************************************)
(* What the simulator promises to a process, without its scheduler: every  *)
(* process gets the bursts of its input line, in their order and of the    *)
(* length they have there, the CPU bursts on one of the cores and the I/O  *)
(* bursts on the only disk.  Who is served, when, and for how long before  *)
(* it has to wait again is left open: this is what ready queues, options,  *)
(* context switches and interrupts decide.                                 *)
(***************************************************************************)
EXTENDS Integers, Sequences, FiniteSets

CONSTANTS NbProcesses, CoreCount, Workloads

VARIABLES
    workload,   \* the input file
    place,      \* where each process is
    served      \* how much of its bursts it has been served

life == <<workload, place, served>>

Procs  == 1..NbProcesses
Places == {"outside", "ready", "core", "waiting", "disk", "done"}

Init ==
  /\ workload \in Workloads
  /\ place = [p \in Procs |-> "outside"]
  /\ served = [p \in Procs |-> 0]

\* The burst in which p spends its next unit of service.
Burst(p) ==
  workload[p].events[CHOOSE k \in DOMAIN workload[p].events :
      /\ workload[p].events[k].time <= served[p]
      /\ \A j \in DOMAIN workload[p].events :
           workload[p].events[j].time <= served[p] => j <= k].type

At(where) == {p \in Procs : place[p] = where}

Move(p, from, to) ==
  /\ place[p] = from /\ place' = [place EXCEPT ![p] = to]
  /\ UNCHANGED <<workload, served>>

Arrive(p) == Move(p, "outside", "ready")

Dispatch(p) ==
  /\ Burst(p) = "CPU" /\ Cardinality(At("core")) < CoreCount
  /\ Move(p, "ready", "core")

BackToQueue(p) == Move(p, "core", "ready")

RequestIO(p) == Burst(p) = "IO" /\ Move(p, "core", "waiting")

StartIO(p) == At("disk") = {} /\ Move(p, "waiting", "disk")

EndIO(p) == Burst(p) = "CPU" /\ Move(p, "disk", "ready")

Terminate(p) == served[p] = workload[p].processDuration /\ Move(p, "core", "done")

\* One time unit: some of those on a core or on the disk are served.
Serve ==
  \E S \in SUBSET {p \in At("core") : Burst(p) = "CPU"} :
  \E T \in SUBSET {p \in At("disk") : Burst(p) = "IO"} :
    /\ \A p \in S \cup T : served[p] < workload[p].processDuration
    /\ served' = [p \in Procs |-> IF p \in S \cup T THEN served[p] + 1 ELSE served[p]]
    /\ UNCHANGED <<workload, place>>

Next ==
  \/ \E p \in Procs : \/ Arrive(p) \/ Dispatch(p) \/ BackToQueue(p) \/ RequestIO(p)
                      \/ StartIO(p) \/ EndIO(p) \/ Terminate(p)
  \/ Serve

Spec == Init /\ [][Next]_life
=============================================================================
