-------------------------------- MODULE Plan --------------------------------
(***************************************************************************)
(* What the scheduling policies share: the resources they are handed, and  *)
(* the plan that a pass over the tasks writes down decision by decision.   *)
(* Node 0 is the local node, the others are the reachable peers in the     *)
(* order of the cluster view.                                              *)
(***************************************************************************)
EXTENDS Integers, Sequences, FiniteSetsExt

CONSTANTS
    NumPeers,
    PlanProfiles,    \* records with fields cost, mem, data and transfer
    Snapshots,       \* records with fields cpu, total and avail
    MaxTasks         \* bound on the number of tasks

Peers == 1 .. NumPeers
Cluster == 0 .. NumPeers

VARIABLES
    start,      \* resources of each node as handed to schedule()
    makespan,   \* estimated_makespan of the plan
    todo,       \* profiles of the tasks still to place, in topological order
    plan        \* decisions: node, reason and profile, in order

listVars == <<todo, plan>>

ListInit ==
    /\ todo \in UNION {[1 .. n -> PlanProfiles] : n \in 0 .. MaxTasks}
    /\ start \in [Cluster -> Snapshots]
    /\ plan = <<>>
    /\ makespan = <<>>

(* The decision for the first of the remaining tasks *)
Decide(n, reason) ==
    /\ plan' = Append(plan, [node |-> n, reason |-> reason, profile |-> Head(todo)])
    /\ todo' = Tail(todo)
    /\ UNCHANGED <<start, makespan>>

Placed(n) == {i \in 1 .. Len(plan) : plan[i].node = n}
MemoryOn(n) == SumFunctionOnSet([i \in DOMAIN plan |-> plan[i].profile.mem], Placed(n))
ComputeOn(n) == SumFunctionOnSet([i \in DOMAIN plan |-> plan[i].profile.cost], Placed(n))

(* estimated_makespan is the work of the busiest node of the plan. *)
MakespanIsBusiestNode ==
    makespan # <<>> => makespan[1] = Max({ComputeOn(n) : n \in Cluster})
=============================================================================
