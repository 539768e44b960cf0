---------------------------- MODULE WorkloadDag ----------------------------
(***************************************************************************)
(* workload/dag.cpp: the task graph with its algorithms, and the           *)
(* submission codec (orchestrator/offload_codec.cpp) that rebuilds a graph *)
(* from a message.  A dag is the record of the three maps of WorkloadDAG;  *)
(* maps have exactly the keys the C++ maps have, so an edge from an id     *)
(* that is not a task leaves traces here too.  Iteration over an unordered *)
(* map takes the order Listed chooses.                                     *)
(***************************************************************************)
EXTENDS Integers, Sequences, FiniteSetsExt, SequencesExt

CONSTANTS
    Ids,         \* ids of tasks
    Strangers,   \* ids a dependency may name although they are no task
    Profiles,    \* task profiles: compute_cost and the three byte counts
    States,      \* states a task may be marked with
    MaxEdges     \* bound on the number of add_dependency calls

ASSUME DagAssumption ==
    /\ Ids \cap Strangers = {}
    /\ Profiles \subseteq [cost : Nat, mem : Nat, input : Nat, output : Nat]
    /\ MaxEdges \in Nat

VARIABLES dag, edges   \* the graph, and how many edges a client added to it

-----------------------------------------------------------------------------
(* Construction *)

Listed(S) == FoldSet(LAMBDA x, s : Append(s, x), <<>>, S)

EmptyDag == [tasks |-> <<>>, adj |-> <<>>, rev |-> <<>>]

At(map, k, default) == IF k \in DOMAIN map THEN map[k] ELSE default
Put(map, k, v) == (k :> v) @@ map

(* emplace keeps the first task of an id. *)
AddTask(d, id, profile) ==
    [tasks |-> Put(d.tasks, id, At(d.tasks, id,
                  [profile |-> profile, deps |-> <<>>, state |-> "Pending"])),
     adj |-> Put(d.adj, id, At(d.adj, id, <<>>)),
     rev |-> Put(d.rev, id, At(d.rev, id, <<>>))]

AddDependency(d, from, to) ==
    [tasks |-> IF to \in DOMAIN d.tasks /\ ~Contains(d.tasks[to].deps, from)
               THEN [d.tasks EXCEPT ![to].deps = Append(@, from)]
               ELSE d.tasks,
     adj |-> Put(d.adj, from, Append(At(d.adj, from, <<>>), to)),
     rev |-> Put(d.rev, to, Append(At(d.rev, to, <<>>), from))]

Mark(d, id, state) ==
    IF id \in DOMAIN d.tasks THEN [d EXCEPT !.tasks[id].state = state] ELSE d

Tasks(d) == DOMAIN d.tasks
Dependents(d, id) == At(d.adj, id, <<>>)
Dependencies(d, id) == At(d.rev, id, <<>>)

-----------------------------------------------------------------------------
(* topological_order: Kahn's algorithm over in_degree counters *)

(* Variant: parallel edges are counted once. *)
InDegreesOfSet(d) ==
    LET targets == UNION {ToSet(d.adj[f]) : f \in DOMAIN d.adj}
    IN  [id \in Tasks(d) \cup targets |->
            Cardinality({f \in DOMAIN d.adj : Contains(d.adj[f], id)})]

InDegrees(d) ==
    LET targets == UNION {ToSet(d.adj[f]) : f \in DOMAIN d.adj}
        count(id, f) == Cardinality({i \in DOMAIN d.adj[f] : d.adj[f][i] = id})
    IN  [id \in Tasks(d) \cup targets |->
            MapThenSumSet(LAMBDA f : count(id, f), DOMAIN d.adj)]

(* Popping one id: its dependents lose a degree and queue up at zero. *)
Settle(s, to) ==
    LET left == s.degree[to] - 1
    IN  [degree |-> [s.degree EXCEPT ![to] = left],
         queue |-> IF left = 0 THEN Append(s.queue, to) ELSE s.queue]

RECURSIVE Kahn(_, _, _)
Kahn(d, s, order) ==
    IF s.queue = <<>> THEN order
    ELSE LET id == Head(s.queue)
             popped == [s EXCEPT !.queue = Tail(@)]
         IN  Kahn(d, FoldLeft(Settle, popped, Dependents(d, id)), Append(order, id))

TopologicalOrder(d) ==
    LET degree == InDegrees(d)
        sources == Listed({id \in DOMAIN degree : degree[id] = 0})
    IN  Kahn(d, [degree |-> degree, queue |-> sources], <<>>)

-----------------------------------------------------------------------------
(* has_cycle: depth-first search, colours and explicit stack *)

(* s.stack holds <<node, index of the next neighbour>>, top first. *)
RECURSIVE Search(_, _)
Search(d, s) ==
    IF s.found \/ s.stack = <<>> THEN s
    ELSE LET node == Head(s.stack)[1]
             idx == Head(s.stack)[2]
             below == Tail(s.stack)
             next == Dependents(d, node)
         IN  IF idx > Len(next)
             THEN Search(d, [s EXCEPT !.colour = Put(@, node, "Black"), !.stack = below])
             ELSE LET stepped == <<<<node, idx + 1>>>> \o below
                      seen == At(s.colour, next[idx], "White")
                  IN  CASE seen = "Gray" -> Search(d, [s EXCEPT !.found = TRUE])
                        [] seen = "White" -> Search(d,
                              [s EXCEPT !.colour = Put(@, next[idx], "Gray"),
                                        !.stack = <<<<next[idx], 1>>>> \o stepped])
                        [] OTHER -> Search(d, [s EXCEPT !.stack = stepped])

SearchFrom(d, s, id) ==
    IF s.found \/ s.colour[id] # "White" THEN s
    ELSE Search(d, [s EXCEPT !.colour[id] = "Gray", !.stack = <<<<id, 1>>>>])

HasCycle(d) ==
    LET start == [colour |-> [id \in Tasks(d) |-> "White"],
                  stack |-> <<>>, found |-> FALSE]
    IN  FoldLeft(LAMBDA s, id : SearchFrom(d, s, id), start, Listed(Tasks(d))).found

IsValid(d) == Tasks(d) # {} /\ ~HasCycle(d)

-----------------------------------------------------------------------------
(* ready_tasks and the metrics *)

ReadyTasks(d) ==
    {id \in Tasks(d) :
        /\ d.tasks[id].state = "Pending"
        /\ \A dep \in ToSet(Dependencies(d, id)) \cap Tasks(d) :
              d.tasks[dep].state = "Completed"}

Cost(d, id) == d.tasks[id].profile.cost
Mem(d, id) == d.tasks[id].profile.mem

Maximum(a, b) == IF a > b THEN a ELSE b

(* Variant: the last predecessor wins, not the farthest. *)
RelaxLast(d, dist, u) ==
    LET own == [dist EXCEPT ![u] = IF Dependencies(d, u) = <<>> THEN Cost(d, u) ELSE @]
        edge(ds, v) == [ds EXCEPT ![v] = ds[u] + Cost(d, v)]
    IN  FoldLeft(edge, own, Dependents(d, u))

(* One step of the longest-path dynamic program: u's own cost if it has no *)
(* predecessor, then its outgoing edges.                                   *)
Relax(d, dist, u) ==
    IF u \notin Tasks(d) THEN dist
    ELSE LET own == [dist EXCEPT ![u] = IF Dependencies(d, u) = <<>>
                                        THEN Maximum(@, Cost(d, u)) ELSE @]
             edge(ds, v) == IF v \notin Tasks(d) THEN ds
                            ELSE [ds EXCEPT ![v] = Maximum(@, ds[u] + Cost(d, v))]
         IN  FoldLeft(edge, own, Dependents(d, u))

RECURSIVE RelaxAll(_, _, _)
RelaxAll(d, dist, topo) ==
    IF DOMAIN dist = {} \/ topo = <<>> THEN dist
    ELSE RelaxAll(d, Relax(d, dist, Head(topo)), Tail(topo))

CriticalPathCost(d) ==
    LET topo == TopologicalOrder(d)
        dist == RelaxAll(d, [id \in Tasks(d) |-> 0], topo)
    IN  IF Tasks(d) = {} \/ Len(topo) # Cardinality(Tasks(d)) THEN 0
        ELSE Max({dist[id] : id \in Tasks(d)} \cup {0})

LevelOf(d, level, id) ==
    Max({0} \cup {level[p] + 1 : p \in ToSet(Dependencies(d, id)) \cap DOMAIN level})

PeakMemoryEstimate(d) ==
    LET topo == TopologicalOrder(d)
        level == FoldLeft(LAMBDA lv, id : Put(lv, id, LevelOf(d, lv, id)), <<>>, topo)
        memory(l) == MapThenSumSet(LAMBDA id : Mem(d, id),
                                   {id \in Tasks(d) \cap DOMAIN level : level[id] = l})
    IN  IF Tasks(d) = {} \/ Len(topo) # Cardinality(Tasks(d)) THEN 0
        ELSE Max({memory(level[id]) : id \in DOMAIN level} \cup {0})

TotalComputeCost(d) == MapThenSumSet(LAMBDA id : Cost(d, id), Tasks(d))

-----------------------------------------------------------------------------
(* encode_submission and decode_submission: a message is the sequence of   *)
(* task specs; task states do not travel.                                  *)

(* Variant: the dependencies are not written. *)
EncodeWithoutDeps(d) ==
    LET known == SelectSeq(TopologicalOrder(d), LAMBDA id : id \in Tasks(d))
    IN  [i \in 1 .. Len(known) |->
            [id |-> known[i], profile |-> d.tasks[known[i]].profile, deps |-> <<>>]]

EncodeSubmission(d) ==
    LET known == SelectSeq(TopologicalOrder(d), LAMBDA id : id \in Tasks(d))
    IN  [i \in 1 .. Len(known) |->
            [id |-> known[i], profile |-> d.tasks[known[i]].profile,
             deps |-> d.tasks[known[i]].deps]]

DecodeTasks(msg) ==
    FoldLeft(LAMBDA d, spec : AddTask(d, spec.id, spec.profile), EmptyDag, msg)

RECURSIVE DecodeDeps(_, _)
DecodeDeps(d, msg) ==
    IF Tasks(d) = {} \/ msg = <<>> THEN d
    ELSE LET spec == Head(msg)
         IN  DecodeDeps(FoldLeft(LAMBDA e, dep : AddDependency(e, dep, spec.id),
                                 d, spec.deps), Tail(msg))

Decode(msg) == DecodeDeps(DecodeTasks(msg), msg)

(* What decode_submission returns. *)
Accepted(d) == IsValid(d) /\ ~HasCycle(d)

-----------------------------------------------------------------------------
(* The graphs a client can build: tasks, interleaved with edges into       *)
(* existing tasks, as decode_submission and the tests do.                  *)

BuildInit == dag = EmptyDag /\ edges = 0

DoAddTask(id, profile) ==
    /\ id \notin Tasks(dag)
    /\ dag' = AddTask(dag, id, profile)
    /\ UNCHANGED edges

DoAddDependency(from, to) ==
    /\ edges < MaxEdges
    /\ to \in Tasks(dag) /\ from \in Tasks(dag) \cup Strangers
    /\ dag' = AddDependency(dag, from, to)
    /\ edges' = edges + 1

DoMark(id, state) ==
    /\ id \in Tasks(dag)
    /\ dag' = Mark(dag, id, state)
    /\ UNCHANGED edges

BuildNext ==
    \/ \E id \in Ids, p \in Profiles : DoAddTask(id, p)
    \/ \E f \in Ids \cup Strangers, t \in Ids : DoAddDependency(f, t)
    \/ \E id \in Ids, s \in States : DoMark(id, s)

-----------------------------------------------------------------------------
(* Reference definitions *)

EdgeSet(d) == UNION {{<<f, t>> : t \in ToSet(d.adj[f])} : f \in DOMAIN d.adj}

RECURSIVE Closure(_)
Closure(E) ==
    LET two == {<<p[1], q[2]>> : <<p, q>> \in {pq \in E \X E : pq[1][2] = pq[2][1]}}
    IN  IF two \subseteq E THEN E ELSE Closure(E \cup two)

Before(d) == Closure(EdgeSet(d))
Cyclic(d) == \E p \in Before(d) : p[1] = p[2]

Chains(d) == LET B == Before(d)
             IN {S \in SUBSET Tasks(d) :
                   \A a, b \in S : a = b \/ <<a, b>> \in B \/ <<b, a>> \in B}

(* Tasks on a cycle, behind one, or behind an id that is no task. *)
Blocked(d) ==
    LET B == Before(d)
        stuck == {p[1] : p \in {q \in B : q[1] = q[2] \/ q[1] \notin Tasks(d)}}
    IN  {t \in Tasks(d) : \E x \in stuck : <<x, t>> \in B}

-----------------------------------------------------------------------------
(* Properties *)

(* has_cycle finds a cycle exactly when there is one. *)
HasCycleCorrect == HasCycle(dag) <=> Cyclic(dag)

(* topological_order lists, once each, exactly the tasks that are not on   *)
(* or behind a cycle or an unknown id, and none before one it depends on,  *)
(* duplicate edges included.                                               *)
TopologicalOrderCorrect ==
    LET order == TopologicalOrder(dag)
        E == EdgeSet(dag)
    IN  /\ ToSet(order) = Tasks(dag) \ Blocked(dag)
        /\ Len(order) = Cardinality(ToSet(order))
        /\ \A m, n \in DOMAIN order : <<order[m], order[n]>> \in E => m < n

(* Completing what ready_tasks offers gets through every valid graph: as   *)
(* long as a task is pending and none failed or is under way, some task is *)
(* ready.                                                                  *)
NeverStuck ==
    (/\ ~Cyclic(dag)
     /\ \E id \in Tasks(dag) : dag.tasks[id].state = "Pending"
     /\ \A id \in Tasks(dag) : dag.tasks[id].state \in {"Pending", "Completed"})
        => ReadyTasks(dag) # {}

(* has_cycle, topological_order and ready_tasks, which decide what         *)
(* is_valid accepts and in which order tasks are planned and can run, are  *)
(* right on every graph.                                                   *)
OrderCorrect == HasCycleCorrect /\ TopologicalOrderCorrect /\ NeverStuck

(* critical_path_cost is the weight of the heaviest chain of dependent     *)
(* tasks, and zero when the graph cannot be ordered; it never exceeds      *)
(* total_compute_cost.                                                     *)
CriticalPathCorrect ==
    /\ CriticalPathCost(dag) <= TotalComputeCost(dag)
    /\ CriticalPathCost(dag) =
          IF Blocked(dag) # {} THEN 0
          ELSE Max({MapThenSumSet(LAMBDA id : Cost(dag, id), S) : S \in Chains(dag)})

(* peak_memory_estimate is the memory of the widest level, where a task's  *)
(* level is the length of the longest chain that ends in it.               *)
PeakIsWidestLevel ==
    Blocked(dag) = {} /\ Tasks(dag) # {} =>
        LET B == Before(dag)
            chains == Chains(dag)
            depth == [id \in Tasks(dag) |->
                        Max({Cardinality(S) : S \in {C \in chains :
                                \A x \in C : x = id \/ <<x, id>> \in B}})]
            level(id) == {x \in Tasks(dag) : depth[x] = depth[id]}
        IN  PeakMemoryEstimate(dag) =
              Max({MapThenSumSet(LAMBDA x : Mem(dag, x), level(id)) : id \in Tasks(dag)})

(* Both estimates that policies and reports use are right on every graph.  *)
MetricsCorrect == CriticalPathCorrect /\ PeakIsWidestLevel

(* What can be ordered survives the wire: the receiver rebuilds exactly    *)
(* the tasks that are not blocked, with the same profiles and edges, all   *)
(* of them pending, and decode_submission accepts them unless there are    *)
(* none.                                                                   *)
RoundTrip ==
    LET got == Decode(EncodeSubmission(dag))
        sent == Tasks(dag) \ Blocked(dag)
    IN  /\ Tasks(got) = sent /\ (Accepted(got) <=> sent # {})
        /\ \A id \in sent : /\ got.tasks[id].profile = dag.tasks[id].profile
                            /\ got.tasks[id].state = "Pending"
        /\ EdgeSet(got) = {e \in EdgeSet(dag) : e[2] \in sent}
=============================================================================
