--------------------------- MODULE OptimizerPolicy ---------------------------
(***************************************************************************)
(* scheduler/optimizer_policy.cpp: pin the critical path to the local      *)
(* node, pack the remaining tasks by decreasing cost, then improve the     *)
(* plan by random single-task moves.  Tasks are numbered in the order      *)
(* topological_order() lists them.  Ties of std::sort and of the iteration *)
(* over the unordered map dist, and the picks of the generator, are free.  *)
(* transfer is output_bytes * communication_weight * 0.001, cut to an      *)
(* integer.                                                                *)
(***************************************************************************)
EXTENDS Plan

CONSTANTS
    NumTasks,       \* number of tasks of the workload
    MaxIterations   \* max_iterations

PlanTasks == 1 .. NumTasks

VARIABLES
    profile, deps,    \* the dag; deps[t] are the tasks t depends on
    phase,
    placed,           \* tasks that have a decision in the plan
    node,             \* assigned_node of each decision
    memory_used, assigned_compute,   \* the NodeBudgets
    current,          \* current_makespan
    iter

optimizerVars == <<profile, deps, phase, placed, node, memory_used, assigned_compute,
                   current, iter>>

OptimizerInit ==
    /\ profile \in [PlanTasks -> PlanProfiles]
    /\ deps \in [PlanTasks -> SUBSET PlanTasks] /\ \A t \in PlanTasks : deps[t] \subseteq 1 .. t - 1
    /\ start \in [Cluster -> Snapshots]
    /\ phase = "critical"
    /\ placed = {}
    /\ node = [t \in PlanTasks |-> 0]
    /\ memory_used = [n \in Cluster |-> 0]
    /\ assigned_compute = [n \in Cluster |-> 0]
    /\ current = 0 /\ iter = 0 /\ makespan = 0

Capacity(n) == start[n].avail

-----------------------------------------------------------------------------
(* estimate_makespan: the list schedule in topological order *)

(* The last task before t on t's node; tasks run one at a time there. *)
FreeAt(ends, at, t) ==
    LET before == {u \in 1 .. t - 1 : at[u] = at[t]}
    IN  IF before = {} THEN 0 ELSE ends[Max(before)]

Arrivals(ends, at, t) ==
    {ends[d] + (IF at[d] = at[t] THEN 0 ELSE profile[d].transfer) : d \in deps[t]}

EndTimes(at) ==
    LET ends[t \in PlanTasks] ==
          Max({FreeAt(ends, at, t)} \cup Arrivals(ends, at, t)) + profile[t].cost
    IN  ends

Estimate(at) == Max({EndTimes(at)[t] : t \in PlanTasks})

-----------------------------------------------------------------------------
(* critical_path_assignment *)

Distance ==
    LET dist[t \in PlanTasks] == Max({0} \cup {dist[d] : d \in deps[t]}) + profile[t].cost
    IN  dist

(* The predecessor that raised dist[t] last: the first farthest one, and   *)
(* none if t's distance stayed at zero.                                    *)
Predecessor(t) ==
    {d \in deps[t] : /\ Distance[t] > 0
                     /\ \A e \in deps[t] : \/ Distance[e] < Distance[d]
                                           \/ Distance[e] = Distance[d] /\ d <= e}

PathTo(end) ==
    LET path[t \in PlanTasks] == {t} \cup UNION {path[d] : d \in Predecessor(t)}
    IN  path[end]

(* Account for a set of decisions in the budgets. *)
MemoryOf(S) == SumFunctionOnSet([t \in PlanTasks |-> profile[t].mem], S)
ComputeOf(S) == SumFunctionOnSet([t \in PlanTasks |-> profile[t].cost], S)

(* The local node takes the path, whatever memory it has. *)
AssignCriticalPath ==
    /\ phase = "critical"
    /\ \E end \in {t \in PlanTasks : \A u \in PlanTasks : Distance[u] <= Distance[t]} :
          /\ placed' = PathTo(end)
          /\ memory_used' = [memory_used EXCEPT ![0] = MemoryOf(PathTo(end))]
          /\ assigned_compute' = [assigned_compute EXCEPT ![0] = ComputeOf(PathTo(end))]
    /\ phase' = "pack"
    /\ UNCHANGED <<profile, deps, start, node, current, iter, makespan>>

-----------------------------------------------------------------------------
(* bin_pack_remaining *)

MemoryRemaining(n) == IF Capacity(n) > memory_used[n] THEN Capacity(n) - memory_used[n] ELSE 0

Room(t) == {n \in Cluster : MemoryRemaining(n) >= profile[t].mem}

(* The first node with the least work that has room, or the local node. *)
Lightest(t) ==
    LET best == {n \in Room(t) : \A m \in Room(t) : assigned_compute[n] <= assigned_compute[m]}
    IN  IF best = {} THEN 0 ELSE Min(best)

Pack(t) ==
    /\ phase = "pack" /\ t \notin placed
    /\ \A u \in PlanTasks \ placed : profile[u].cost <= profile[t].cost
    /\ placed' = placed \cup {t}
    /\ node' = [node EXCEPT ![t] = Lightest(t)]
    /\ memory_used' = [memory_used EXCEPT ![Lightest(t)] = @ + profile[t].mem]
    /\ assigned_compute' = [assigned_compute EXCEPT ![Lightest(t)] = @ + profile[t].cost]
    /\ UNCHANGED <<profile, deps, start, phase, current, iter, makespan>>

-----------------------------------------------------------------------------
(* local_search_improve *)

(* Budgets are built again from the plan; nothing to do for a single task  *)
(* or a single node.                                                       *)
StartSearch ==
    /\ phase = "pack" /\ placed = PlanTasks
    /\ IF NumTasks < 2 \/ NumPeers = 0
       THEN phase' = "done" /\ UNCHANGED current
       ELSE phase' = "search" /\ current' = Estimate(node)
    /\ UNCHANGED <<profile, deps, start, placed, node, memory_used, assigned_compute, iter, makespan>>

(* Variant: the move away from a node does not give its memory back. *)
TryMoveKeepsMemory(t, to) ==
    /\ phase = "search" /\ iter < MaxIterations
    /\ iter' = iter + 1
    /\ LET moved == [node EXCEPT ![t] = to]
       IN  IF /\ to # node[t] /\ MemoryRemaining(to) >= profile[t].mem
              /\ Estimate(moved) < current
           THEN /\ node' = moved
                /\ current' = Estimate(moved)
                /\ memory_used' = [memory_used EXCEPT ![to] = @ + profile[t].mem]
                /\ assigned_compute' = [assigned_compute EXCEPT
                                           ![node[t]] = @ - profile[t].cost,
                                           ![to] = @ + profile[t].cost]
           ELSE UNCHANGED <<node, current, memory_used, assigned_compute>>
    /\ UNCHANGED <<profile, deps, start, phase, placed, makespan>>

(* One iteration: a move that fits is tried, and kept if it pays. *)
TryMove(t, to) ==
    /\ phase = "search" /\ iter < MaxIterations
    /\ iter' = iter + 1
    /\ LET moved == [node EXCEPT ![t] = to]
           accept == /\ to # node[t]
                     /\ MemoryRemaining(to) >= profile[t].mem
                     /\ Estimate(moved) < current
       IN  IF accept
           THEN /\ node' = moved
                /\ current' = Estimate(moved)
                /\ memory_used' = [memory_used EXCEPT ![node[t]] = @ - profile[t].mem,
                                                      ![to] = @ + profile[t].mem]
                /\ assigned_compute' = [assigned_compute EXCEPT
                                           ![node[t]] = @ - profile[t].cost,
                                           ![to] = @ + profile[t].cost]
           ELSE UNCHANGED <<node, current, memory_used, assigned_compute>>
    /\ UNCHANGED <<profile, deps, start, phase, placed, makespan>>

EndSearch ==
    /\ phase = "search" /\ iter = MaxIterations
    /\ makespan' = current
    /\ phase' = "done"
    /\ UNCHANGED <<profile, deps, start, placed, node, memory_used, assigned_compute, current, iter>>

OptimizerDone == phase = "done" /\ UNCHANGED <<start, makespan, optimizerVars>>

OptimizerNext ==
    \/ AssignCriticalPath \/ StartSearch \/ EndSearch \/ OptimizerDone
    \/ \E t \in PlanTasks : Pack(t) \/ \E to \in Cluster : TryMove(t, to)

-----------------------------------------------------------------------------
(* Properties *)

On(n) == {t \in placed : node[t] = n}

(* The tentative moves and their reverts keep the books straight: every    *)
(* node budget is the sum over the tasks the plan puts there.              *)
BudgetsMatchPlan ==
    \A n \in Cluster : /\ memory_used[n] = MemoryOf(On(n))
                     /\ assigned_compute[n] = ComputeOf(On(n))

(* Neither packing nor search overbooks a peer. *)
OptimizerWithinMemory == \A n \in Peers : memory_used[n] <= Capacity(n)

(* Moves are accepted only if they pay: the estimate belongs to the plan   *)
(* it is reported with and never grows during the search.                  *)
SearchStep == phase = "search" => current = Estimate(node) /\ current' <= current

(* Heaviest chain of dependent tasks, by enumeration. *)
HeaviestChain ==
    LET paths == {S \in SUBSET PlanTasks : \A t \in S :
                     \/ t = Min(S)
                     \/ Max({u \in S : u < t}) \in deps[t]}
    IN  Max({ComputeOf(S) : S \in paths})

(* The path pinned to the local node is a heaviest chain of the graph. *)
PinStep == AssignCriticalPath => ComputeOf(placed') = HeaviestChain

(* "a dependency chain cannot finish faster than its critical path no      *)
(* matter how tasks are spread", and no node finishes before its work; the *)
(* plan that is returned says so as well.                                  *)
EstimateRealistic ==
    /\ phase = "search" => /\ current >= HeaviestChain
                           /\ \A n \in Cluster : current >= assigned_compute[n]
    /\ phase = "done" /\ NumTasks > 1 /\ NumPeers > 0 => makespan >= HeaviestChain
=============================================================================
