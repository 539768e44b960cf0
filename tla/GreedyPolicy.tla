---------------------------- MODULE GreedyPolicy ----------------------------
(***************************************************************************)
(* scheduler/greedy_policy.cpp: one pass over the tasks in topological     *)
(* order, each placed on the fitting node with the highest score.  Scores  *)
(* are scaled by ten and data is counted in MB, so that the weights 1.0,   *)
(* 0.5 and 0.3 become integers.                                            *)
(***************************************************************************)
EXTENDS Plan

VARIABLES
    avail,      \* memory_available_bytes of the simulated nodes
    compute     \* assigned_compute of the simulated nodes

greedyVars == <<avail, compute>>

GreedyInit ==
    /\ ListInit
    /\ avail = [n \in Cluster |-> start[n].avail]
    /\ compute = [n \in Cluster |-> 0]

(* 100 - memory_usage_percent(): full headroom if the total is unknown. *)
MemoryHeadroom(n) ==
    IF start[n].total = 0 THEN 100 ELSE (100 * avail[n]) \div start[n].total

Score(n, p) == 10 * (100 - start[n].cpu) + 5 * MemoryHeadroom(n)
                 - (IF n = 0 THEN 0 ELSE 3 * p.data)

Fitting(p) == {n \in Cluster : p.mem <= avail[n]}

(* The first node with the highest score, the local node if none fits. *)
Best(p) ==
    LET best == {n \in Fitting(p) : \A m \in Fitting(p) : Score(m, p) <= Score(n, p)}
    IN  IF best = {} THEN 0 ELSE Min(best)

Assign ==
    /\ todo # <<>>
    /\ LET p == Head(todo)
           n == Best(p)
       IN  /\ Decide(n, IF n = 0 THEN "LocalCapacity" ELSE "LeastLoaded")
           /\ compute' = [compute EXCEPT ![n] = @ + p.cost]
           /\ avail' = [avail EXCEPT ![n] = IF @ >= p.mem THEN @ - p.mem ELSE @]

GreedyFinish ==
    /\ todo = <<>> /\ makespan = <<>>
    /\ makespan' = <<Max({compute[n] : n \in Cluster})>>
    /\ UNCHANGED <<start, listVars, greedyVars>>

GreedyDone == makespan # <<>> /\ UNCHANGED <<start, makespan, listVars, greedyVars>>

GreedyNext == Assign \/ GreedyFinish \/ GreedyDone

-----------------------------------------------------------------------------
(* Properties *)

(* A plan never asks a peer for more memory than the peer advertised,      *)
(* however many tasks land on it; only the local node may be overbooked.   *)
GreedyWithinMemory == \A n \in Peers : MemoryOn(n) <= start[n].avail

(* The local node is overbooked only by tasks that had no other place:     *)
(* when it is, some task of the plan is larger than what is left anywhere. *)
OverbookedOnlyWhenFull ==
    MemoryOn(0) > start[0].avail =>
        \E i \in Placed(0) : \A n \in Cluster : plan[i].profile.mem > avail[n]
=============================================================================
